------------------------------- MODULE Chains -------------------------------
(***************************************************************************)
(* The chains that host and guest read, as the code in src/ uses them.     *)
(*                                                                         *)
(* A chain is the sequence of its blocks from genesis, and a block hash is *)
(* the prefix that ends in the block: it commits to every block before it. *)
(* A reorganisation drops the newest blocks, never deeper than ReorgLimit  *)
(* under the highest head there was; dropped branches stay known.          *)
(*                                                                         *)
(* Only what validation tells apart is kept of a block: the signature in a *)
(* Linea header, the Ethereum hash that an OP-stack block holds in L1Block *)
(* and, on Ethereum, the last Linea block posted to the message service    *)
(* and the dispute games of the portals.  Ethereum's time is its block     *)
(* number.                                                                 *)
(***************************************************************************)
EXTENDS ChainParams, Sequences, FiniteSets, Functions

CONSTANTS
    Live,             \* the chains there are
    ReorgLimit,       \* assumption: no reorganisation goes deeper
    MaxNumber,        \* MaxNumber[c]: bound on block numbers
    MaxForks,         \* bound on reorganisations, of all chains together
    StartNumber,      \* StartNumber[c]: number of the head at first
    PortalChains,     \* OP-stack chains with a portal on Ethereum
    InitialGames,     \* InitialGames[c]: the games of chain c's portal at first
    ProofMaturityDelay,  \* the portals' proofMaturityDelaySeconds, in blocks
    MaturitySlack     \* the 300 seconds taken off it, in blocks

ASSUME ChainsAssumption ==
    /\ Live \subseteq MainnetIds
    /\ {ETHEREUM_CHAIN_ID, LINEA_CHAIN_ID, get_default_sequencer_chain(FALSE)} \subseteq Live
    /\ PortalChains \subseteq Live
    /\ ReorgLimit \in Nat /\ MaxForks \in Nat
    /\ StartNumber \in [Live -> Nat] /\ MaxNumber \in [Live -> Nat]
    /\ \A c \in Live : /\ StartNumber[c] <= MaxNumber[c]
                       /\ is_opstack_chain(c) => StartNumber[c] <= StartNumber[ETHEREUM_CHAIN_ID]
    /\ ProofMaturityDelay \in Nat /\ MaturitySlack \in Nat

VARIABLES
    chain,    \* chain[c]: the canonical chain
    orphans,  \* orphans[c]: branches that were canonical once
    top,      \* top[c]: length of the longest chain so far
    forks     \* forks[c]: reorganisations so far

chainVars == <<chain, orphans, top, forks>>

------------------------------------------------------------------------------
Upto(h, n)    == SubSeq(h, 1, n)
Number(h)     == Len(h) - 1
Tip(h)        == h[Len(h)]
ParentHash(h) == Upto(h, Len(h) - 1)
AtNumber(c, n) == Upto(chain[c], n + 1)
ChainOf(h)    == h[1].chain
Ancestor(h, k) == Len(h) <= Len(k) /\ h = Upto(k, Len(h))

Branches(c)  == orphans[c] \cup {chain[c]}
Published(c) == UNION {{Upto(h, n) : n \in 1..Len(h)} : h \in Branches(c)}

------------------------------------------------------------------------------
(* Dispute games.  A claim is [of |-> chain, true |-> whether it is right]. *)
PortalOf(c, h) == Tip(h).portals[c]

Respected(p, g) == p.games[g].gameType = 0 /\ p.games[g].createdAt >= p.updatedAt

Won(p, g) == p.games[g].status = "DEFENDER_WINS" /\ ~p.games[g].blacklisted

\* The guardian blacklists a game that was won with a false claim before the
\* portal's maturity delay is over: he has the whole delay to do so.
Watchful(p, now) ==
    \A g \in DOMAIN p.games :
        Respected(p, g) /\ Won(p, g) /\ ~p.games[g].claim.true
            => now - p.games[g].resolvedAt <= ProofMaturityDelay

GamesOf(c) ==
    [gameType : Nat, createdAt : Nat, claim : [of : {c}, true : BOOLEAN],
     status : {"IN_PROGRESS", "DEFENDER_WINS", "CHALLENGER_WINS"}, resolvedAt : Nat,
     blacklisted : BOOLEAN]

\* A portal has games of its own chain, and has been watched so far.
ASSUME GamesAssumption ==
    \A c \in PortalChains :
        /\ InitialGames[c] \in Seq(GamesOf(c))
        /\ Watchful([games |-> InitialGames[c], updatedAt |-> 0], StartNumber[ETHEREUM_CHAIN_ID])

\* What one block may do to a portal: resolve a game, blacklist a resolved
\* one, or retire all games of the respected type.
Resolved(p, g, outcome, now) ==
    [p EXCEPT !.games[g].status = outcome, !.games[g].resolvedAt = now]
Blacklisted(p, g) == [p EXCEPT !.games[g].blacklisted = TRUE]
Retired(p, now)   == [p EXCEPT !.updatedAt = IF @ = 0 THEN now ELSE @]

PortalChanges(p, now) ==
    {p, Retired(p, now)}
        \cup {Resolved(p, g, outcome, now) :
                  g \in {x \in DOMAIN p.games : p.games[x].status = "IN_PROGRESS"},
                  outcome \in {"DEFENDER_WINS", "CHALLENGER_WINS"}}
        \cup {Blacklisted(p, g) : g \in {x \in DOMAIN p.games : Won(p, x)}}

PortalSteps(p, now) == {q \in PortalChanges(p, now) : Watchful(q, now)}

\* DisputeGameIndex::Finalized: the games the portal honours at a head.
FinalizedGames(c, h) ==
    LET p == PortalOf(c, h) IN
    {g \in DOMAIN p.games : /\ Respected(p, g) /\ Won(p, g)
                            /\ Number(h) - p.games[g].resolvedAt > ProofMaturityDelay}

------------------------------------------------------------------------------
(* Blocks that may follow h.  watch says which parts of the state of        *)
(* Ethereum change at all.                                                  *)
EthereumBlocks(h, watch) ==
    {[chain |-> ETHEREUM_CHAIN_ID, fork |-> forks[ETHEREUM_CHAIN_ID], posted |-> n, portals |-> p] :
         n \in {Tip(h).posted} \cup
               (IF watch.posting
                THEN {x \in {Number(chain[LINEA_CHAIN_ID]) - ReorgLimit} : x > Tip(h).posted}
                ELSE {}),
         p \in IF watch.portals
               THEN {q \in [PortalChains -> UNION {PortalSteps(PortalOf(c, h), Number(h) + 1) :
                                                       c \in PortalChains}] :
                         \A c \in PortalChains :
                             q[c] \in PortalSteps(PortalOf(c, h), Number(h) + 1)}
               ELSE {Tip(h).portals}}

OpstackBlocks(c, h) ==
    {[chain |-> c, fork |-> forks[c], origin |-> o] :
         o \in {Upto(chain[ETHEREUM_CHAIN_ID], n) :
                    n \in {x \in {Len(chain[ETHEREUM_CHAIN_ID]) - 1, Len(chain[ETHEREUM_CHAIN_ID])} :
                               x >= Len(Tip(h).origin)}}}

\* The extra data of a Linea block ends in its sequencer's signature over the
\* rest of the header.
LineaBlock(c, fork, n) ==
    [chain |-> c, fork |-> fork,
     extra_data |-> [key |-> Sequencer(c), low_s |-> TRUE,
                     over |-> [chain |-> c, fork |-> fork, number |-> n]]]

BlocksAfter(c, h, watch) ==
    IF is_ethereum_chain(c) THEN EthereumBlocks(h, watch)
    ELSE IF is_opstack_chain(c) THEN OpstackBlocks(c, h)
    ELSE {LineaBlock(c, forks[c], Number(h) + 1)}

Grow(c, watch) ==
    /\ Number(chain[c]) < MaxNumber[c]
    /\ \E b \in BlocksAfter(c, chain[c], watch) : chain' = [chain EXCEPT ![c] = Append(@, b)]
    /\ top' = [top EXCEPT ![c] = IF @ = Len(chain[c]) THEN @ + 1 ELSE @]
    /\ UNCHANGED <<orphans, forks>>

Reorg(c) ==
    /\ SumFunction(forks) < MaxForks
    /\ \E n \in 1..(Len(chain[c]) - 1) :
           /\ n + ReorgLimit >= top[c]
           /\ chain' = [chain EXCEPT ![c] = Upto(@, n)]
    /\ orphans' = [orphans EXCEPT ![c] = @ \cup {chain[c]}]
    /\ forks' = [forks EXCEPT ![c] = @ + 1]
    /\ UNCHANGED top

------------------------------------------------------------------------------
(* The chains at first: an OP-stack block has the Ethereum block of its own *)
(* number as its origin, and Linea has posted what no reorganisation drops. *)
EthereumStart ==
    [i \in 1..(StartNumber[ETHEREUM_CHAIN_ID] + 1) |->
        [chain |-> ETHEREUM_CHAIN_ID, fork |-> 0,
         posted |-> StartNumber[LINEA_CHAIN_ID] - ReorgLimit,
         portals |-> [c \in PortalChains |-> [games |-> InitialGames[c], updatedAt |-> 0]]]]

StartOf(c) ==
    IF is_ethereum_chain(c) THEN EthereumStart
    ELSE IF is_opstack_chain(c)
    THEN [i \in 1..(StartNumber[c] + 1) |->
             [chain |-> c, fork |-> 0, origin |-> Upto(EthereumStart, i)]]
    ELSE [i \in 1..(StartNumber[c] + 1) |-> LineaBlock(c, 0, i - 1)]

ChainsInit ==
    /\ chain = [c \in Live |-> StartOf(c)]
    /\ orphans = [c \in Live |-> {}]
    /\ top = [c \in Live |-> StartNumber[c] + 1]
    /\ forks = [c \in Live |-> 0]

------------------------------------------------------------------------------
\* A block ReorgLimit deep under any head there ever was stays in the chain,
\* which is what REORG_PROTECTION_DEPTH in constants.rs counts on.
DeepBlocksStay ==
    \A c \in Live : \A h \in Branches(c) :
        \A n \in 1..Len(h) : n + ReorgLimit <= Len(h) => Ancestor(Upto(h, n), chain[c])
=============================================================================
