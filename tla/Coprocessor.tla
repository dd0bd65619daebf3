---------------------------- MODULE Coprocessor -----------------------------
(***************************************************************************)
(* One proof from request to journal while the chains it speaks of move:   *)
(* the host gathers an input (ProofInput), the guest validates it          *)
(* (GuestValidation), and the chains grow and reorganise (Chains) before,  *)
(* between and after.                                                      *)
(*                                                                         *)
(* The contracts accept a journal from any prover that has the guest's     *)
(* image, so the request may also be served by another one, which puts     *)
(* together blocks as it likes, canonical or dropped, old or new.          *)
(***************************************************************************)
EXTENDS ProofInput

\* The reorg protection is as deep as reorganisations go.
ASSUME DepthAssumption == \A c \in Live : ReorgLimit <= get_reorg_protection_depth(c)

VARIABLE journal   \* what the guest committed, or NoJournal

vars == <<chainVars, hostVars, journal>>

NoJournal == [chain_id |-> 0]

\* A chain that the request does not read may as well stand still, and so may
\* the parts of Ethereum that it does not look at.
Watched ==
    [chains  |-> (IF is_opstack_chain(id) /\ ~inclusion THEN {id} ELSE {})
                 \cup (IF is_linea_chain(id) THEN {id} ELSE {})
                 \cup (IF viaEthereumHash
                       THEN {ETHEREUM_CHAIN_ID, get_default_sequencer_chain(FALSE)} ELSE {}),
     posting |-> is_linea_chain(id) /\ inclusion,
     portals |-> settled]

Init ==
    /\ ChainsInit
    /\ HostInit
    /\ journal = NoJournal

\* Chains go on after a journal, not after a request that came to nothing.
ChainMoves ==
    /\ step \notin {"refused", "panicked"}
    /\ \E c \in Watched.chains : Grow(c, Watched) \/ Reorg(c)
    /\ UNCHANGED <<hostVars, journal>>

HostReads == request.by = "host" /\ Read /\ UNCHANGED <<chainVars, journal>>

\* The guest on one chain's input: a journal, or a panic and none.
Commit(i) ==
    IF GuestAccepts(i)
    THEN journal' = JournalOf(i) /\ Goto("accepted", got)
    ELSE UNCHANGED journal /\ Goto("refused", got)

HostProves ==
    /\ request.by = "host"
    /\ AllFetched
    /\ IF StateCovers THEN Commit(ZkvmInput) ELSE UNCHANGED journal /\ Goto("refused", got)
    /\ UNCHANGED chainVars

------------------------------------------------------------------------------
(* Another prover: any signed block, any environment and any headers linked *)
(* up to any block, of the chain whose state is read or of one of its kind. *)
(* A piece that no check of the guest looks at is left out, and blocks of a *)
(* wrong signer are tried without inclusion only.                           *)
Kin(c) == {x \in Live : /\ is_opstack_chain(x) = is_opstack_chain(c)
                        /\ is_linea_chain(x) = is_linea_chain(c)}

PublishedKin(c) == UNION {Published(x) : x \in Kin(c)}

\* Up to an Ethereum block that some block of Optimism names, or to any block.
LinkedHeads ==
    IF is_ethereum_chain(LinkingChain)
    THEN {Tip(h).origin : h \in Published(get_default_sequencer_chain(FALSE))}
    ELSE PublishedKin(LinkingChain)

LinkedUpto(h, k) == [j \in 1..k |-> Upto(h, Len(h) - k + j)]

OtherProves ==
    /\ request.by = "other" /\ step = "commitment"
    /\ \E signed \in IF inclusion THEN Published(get_default_sequencer_chain(FALSE))
                      ELSE IF is_linea_chain(id) THEN {None}
                      ELSE PublishedKin(get_default_sequencer_chain(FALSE)) :
       \E eth \in IF inclusion THEN Published(ETHEREUM_CHAIN_ID) ELSE {None} :
       \E op \in IF settled THEN OpEnvs ELSE {NoOpEnv} :
       \E env \in IF settled THEN {None} ELSE PublishedKin(id) :
       \E head \in LinkedHeads : \E k \in 0..(Len(head) - 1) :
           LET i == [env_input |-> env, chain_id |-> id,
                     commitment |-> IF signed = None THEN NoCommitment
                                    ELSE SignedCommitment(ChainOf(signed), signed),
                     env_op_input |-> signed, linking_blocks |-> LinkedUpto(head, k),
                     env_eth_input |-> eth, op_evm_input |-> op]
           IN GuestAccepts(i) /\ Commit(i)
    /\ UNCHANGED chainVars

Next == ChainMoves \/ HostReads \/ HostProves \/ OtherProves

Spec == Init /\ [][Next]_vars

------------------------------------------------------------------------------
Committed == journal # NoJournal

TypeOK ==
    /\ request \in Requests
    /\ step \in {"commitment", "l1hash", "l1number", "l1env", "game", "fetch",
                 "accepted", "refused", "panicked"}
    /\ Committed <=> step = "accepted"
    /\ got.env_eth_input # None => inclusion
    /\ got.op_checked # NoOpEnv \/ got.op_evm_input # NoOpEnv => settled
    /\ \A c \in Live : Len(chain[c]) \in 1..(MaxNumber[c] + 1) /\ forks[c] \in 0..MaxForks

\* Reorg protection: whatever the chains do after the proof, and whoever made
\* it, the block whose state the journal is read from stays in its chain
\* (validate_chain_length, validators.rs:1018).
ProvenBlockStays ==
    Committed => Ancestor(journal.env, chain[ChainOf(journal.env)])

\* A journal speaks of the chain it names, though the inputs may come from
\* any: signatures tell the chains apart (validators.rs:839, 902).
JournalNamesItsChain ==
    Committed => IF journal.op_env = NoOpEnv
                 THEN journal.chain_id = ChainOf(journal.env)
                 ELSE /\ journal.chain_id = journal.op_env.claim.of
                      /\ EthereumOf(journal.chain_id) = ChainOf(journal.env)

\* The game in Ethereum's chain that a journal's claim comes from, and how
\* long it had been resolved at the block that the journal is read from.
GameOf(j) == PortalOf(j.chain_id, chain[ETHEREUM_CHAIN_ID]).games[j.op_env.game]
Matured(j) == Number(j.env) - GameOf(j).resolvedAt
LastSlack == ProofMaturityDelay - MaturitySlack + 1 .. ProofMaturityDelay

\* A journal marked as included rests on Ethereum.  For an OP-stack chain it
\* repeats the claim of a game that stays won in the chain, and the claim is
\* right, unless the guest took it in the last slack of the maturity delay,
\* when the guardian may yet blacklist the game.  Linea had posted a block
\* with at least that number on some branch (validators.rs:409, 786).
InclusionRestsOnEthereum ==
    Committed /\ journal.L1inclusion =>
        /\ journal.op_env # NoOpEnv =>
               /\ GameOf(journal).status = "DEFENDER_WINS"
               /\ GameOf(journal).claim = journal.op_env.claim
               /\ \/ journal.op_env.claim.true
                  \/ Matured(journal) \in LastSlack
        /\ is_linea_chain(journal.chain_id) =>
               \E h \in Branches(ETHEREUM_CHAIN_ID) : Tip(h).posted >= Number(journal.env)

\* The checks of host and guest fail an honest host only if the chains got in
\* the way: a reorganisation or, for a dispute game, a portal that changed, an
\* Ethereum head that ran ahead of the block proved by more than the slack, or
\* a newer game that became final after the check (viewcalls.rs:1796, 1132).
ChainsGotInTheWay ==
    \/ \E c \in Live : forks[c] > 0
    \/ settled /\ LET head == chain[ETHEREUM_CHAIN_ID] IN
                  \/ PortalOf(id, head) # PortalOf(id, got.env_eth_input)
                  \/ Number(head) - Number(got.env_eth_input) > MaturitySlack
                  \/ \E g \in FinalizedGames(id, head) : g > got.op_checked.game

HonestInputsAccepted == step = "refused" => ChainsGotInTheWay

\* The providers asked for serve all reads but one, the game's state for the
\* call, which comes from the others (viewcalls.rs:1483).
OnlyGameCallSwitchesProvider ==
    \A read \in got.asked :
        read.url.fallback # request.fallback => settled /\ read.what = "call"
=============================================================================
