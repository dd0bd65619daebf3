--------------------------- MODULE MCCoprocessor ----------------------------
(***************************************************************************)
(* Instances of Coprocessor for TLC.                                       *)
(***************************************************************************)
EXTENDS Coprocessor

MCLive == MainnetIds

\* Linea runs ahead, as it posts what lies two blocks below its head.
CONSTANTS StartEthereum, MaxEthereum, StartLinea, MaxLinea, StartOpstack, MaxOpstack
Numbers(ethereum, linea, opstack) ==
    [c \in MCLive |-> IF is_ethereum_chain(c) THEN ethereum
                      ELSE IF is_linea_chain(c) THEN linea ELSE opstack]
MCStartNumber == Numbers(StartEthereum, StartLinea, StartOpstack)
MCMaxNumber   == Numbers(MaxEthereum, MaxLinea, MaxOpstack)

MCPortalChains == {BASE_CHAIN_ID}

\* Two games won long ago with a right claim, one won at block 2 with a wrong
\* claim, so that the guest may take it before the guardian must have acted,
\* and one won long ago with a wrong claim, but of a type that the portal
\* ignores.
MCGame(type, right, resolved) ==
    [gameType |-> type, createdAt |-> 0, claim |-> [of |-> BASE_CHAIN_ID, true |-> right],
     status |-> "DEFENDER_WINS", resolvedAt |-> resolved, blacklisted |-> FALSE]
MCInitialGames ==
    [c \in MCPortalChains |->
        <<MCGame(0, TRUE, 0), MCGame(0, TRUE, 0), MCGame(0, FALSE, 2), MCGame(1, FALSE, 0)>>]

Ask(c, included, fallback, by) ==
    [chain_id |-> c, l1_inclusion |-> included, fallback |-> fallback, by |-> by]

\* Each kind of chain with and without inclusion, from this host and from
\* another prover; inclusion for Ethereum is asked for as well.
MCRequests ==
    {Ask(c, included, FALSE, by) :
        c \in {ETHEREUM_CHAIN_ID, BASE_CHAIN_ID, LINEA_CHAIN_ID}, included \in BOOLEAN,
        by \in {"host", "other"}}
    \cup {Ask(BASE_CHAIN_ID, TRUE, TRUE, "host")}
=============================================================================
