---------------------------- MODULE ProofInput ------------------------------
(***************************************************************************)
(* get_proof_data_zkvm_input of malda_rs/viewcalls.rs: how the host        *)
(* gathers the guest's input for one chain.                                *)
(*                                                                         *)
(* Every read of a remote node is a step of its own, because the chains    *)
(* move between them: blocks are asked for by number, so what was read     *)
(* before a reorganisation need not fit what is read after it.  Linking    *)
(* blocks and the environment of the call are read concurrently.  A read   *)
(* may fail and a check of the host may not hold; both panic.              *)
(***************************************************************************)
EXTENDS GuestValidation

CONSTANT Requests   \* what is asked for: [chain_id, l1_inclusion, fallback]

ASSUME RequestsAssumption ==
    \A r \in Requests :
        r.chain_id \in Live /\ r.l1_inclusion \in BOOLEAN /\ r.fallback \in BOOLEAN

VARIABLES
    request,   \* the request served
    step,      \* what the host does next, or how it ended
    got        \* what it has read so far

hostVars == <<request, step, got>>

id        == request.chain_id
inclusion == request.l1_inclusion
settled   == is_opstack_chain(id) /\ inclusion
viaEthereumHash == is_ethereum_chain(id) \/ inclusion

NothingRead ==
    [commitment |-> NoCommitment, block |-> 0, env_op_input |-> None,
     env_eth_input |-> None, op_checked |-> NoOpEnv, linking |-> {},
     env_input |-> None, op_evm_input |-> NoOpEnv, asked |-> {}]

HostInit ==
    /\ request \in Requests
    /\ step = "commitment"
    /\ got = NothingRead

Ended == step \in {"accepted", "refused", "panicked"}

\* Go on to a step with these facts.
Goto(next, facts) ==
    /\ step' = next
    /\ got' = facts
    /\ UNCHANGED request

\* Which endpoints were contacted, for what.
Asks(facts, what, url) == [facts EXCEPT !.asked = @ \cup {[what |-> what, url |-> url]}]

Exists(c, n) == n < Len(chain[c])

------------------------------------------------------------------------------
get_current_sequencer_commitment(c) == SignedCommitment(c, chain[c])

SequencerUrl(c) ==
    get_sequencer_request_url(get_chain_params(c).name, request.fallback, get_chain_params(c).testnet)

\* The head to start from: the latest block a sequencer signed or, on Linea
\* without inclusion, the latest block of the node.
get_sequencer_commitments_and_blocks ==
    LET c == IF is_opstack_chain(id) /\ ~inclusion
             THEN id
             ELSE get_default_sequencer_chain(id \in SepoliaIds)
        commitment == get_current_sequencer_commitment(c)
    IN
    /\ step = "commitment"
    /\ \/ /\ is_opstack_chain(id) \/ viaEthereumHash
          /\ Goto(IF viaEthereumHash THEN "l1hash" ELSE "fetch",
                  [Asks(got, "commitment", SequencerUrl(c)) EXCEPT
                       !.commitment = commitment,
                       !.block = ExecutionPayload(commitment).block_number])
       \/ /\ is_linea_chain(id) /\ ~inclusion
          /\ Goto("fetch", [Asks(got, "head", RpcOf(id, request.fallback)) EXCEPT
                                !.block = Number(chain[id])])

\* get_l1block_call_inputs_and_l1_block_numbers builds the same block of
\* Optimism twice: the first environment is the input for L1Block.hash, ...
get_l1block_hash ==
    LET via == get_default_sequencer_chain(id \in SepoliaIds) IN
    /\ step = "l1hash"
    /\ Exists(via, got.block)
    /\ Goto("l1number", [Asks(got, "l1block", RpcOf(via, request.fallback)) EXCEPT
                             !.env_op_input = AtNumber(via, got.block)])

get_l1block_number_for_all ==   \* mutant
    LET via == get_default_sequencer_chain(id \in SepoliaIds) IN
    /\ step = "l1number"
    /\ Exists(via, got.block)
    /\ Goto("l1env", [got EXCEPT !.block = Number(Tip(AtNumber(via, got.block)).origin),
                                 !.env_eth_input = Tip(AtNumber(via, got.block)).origin])

\* ... the second, perhaps of another block with that number, is asked for
\* L1Block.number.
get_l1block_number ==
    LET via == get_default_sequencer_chain(id \in SepoliaIds) IN
    /\ step = "l1number"
    /\ Exists(via, got.block)
    /\ Goto(IF inclusion THEN "l1env" ELSE "fetch",
            [got EXCEPT !.block = Number(Tip(AtNumber(via, got.block)).origin)])

------------------------------------------------------------------------------
\* get_env_input_for_linea_l1_call, at the Ethereum block itself: the number
\* that Linea posted there becomes the block to prove.
get_env_input_for_linea_l1_call ==
    /\ step = "l1env" /\ is_linea_chain(id)
    /\ Exists(EthereumOf(id), got.block)
    /\ LET env == AtNumber(EthereumOf(id), got.block) IN
       Goto("fetch", [Asks(got, "l1env", RpcOf(EthereumOf(id), request.fallback)) EXCEPT
                          !.env_eth_input = env, !.block = Tip(env).posted])

\* get_env_input_for_opstack_dispute_game builds the Ethereum environment a
\* reorg depth below the block, ...
get_env_input_for_l1_inclusion ==
    LET l1_block == got.block - REORG_PROTECTION_DEPTH[EthereumOf(id)] IN
    /\ step = "l1env" /\ is_opstack_chain(id)
    /\ got.block >= REORG_PROTECTION_DEPTH[EthereumOf(id)]
    /\ Exists(EthereumOf(id), l1_block)
    /\ Goto("game", [Asks(got, "l1env", get_opstack_config(id, request.fallback).l1_rpc_url) EXCEPT
                         !.env_eth_input = AtNumber(EthereumOf(id), l1_block)])

\* The environment of the latest finalized game at the head of Ethereum.
LatestFinalized(c, env) ==
    LET head  == chain[EthereumOf(c)]
        games == FinalizedGames(c, head)
    IN  /\ c \in PortalChains
        /\ \E g \in games : /\ \A other \in games : other <= g
                            /\ env = [game |-> g, claim |-> PortalOf(c, head).games[g].claim]

OpEnvs ==
    UNION {{[game |-> g, claim |-> [of |-> c, true |-> t]] :
                g \in DOMAIN InitialGames[c], t \in BOOLEAN} : c \in PortalChains}

\* ... then asks which game is finalized at the head, and checks it there as
\* the guest will.
get_env_input_for_opstack_dispute_game ==
    /\ step = "game"
    /\ \E env \in OpEnvs :
           /\ LatestFinalized(id, env)
           /\ Goto(IF validate_opstack_dispute_game_commitment(id, got.env_eth_input, env)
                   THEN "fetch" ELSE "refused",
                   [Asks(got, "game", get_opstack_config(id, request.fallback).l2_rpc_url) EXCEPT
                        !.op_checked = env])

------------------------------------------------------------------------------
LinkingChain == IF settled THEN EthereumOf(id) ELSE id
LinkingNumbersFromDepth(block) ==   \* mutant
    (block - get_reorg_protection_depth(LinkingChain)) .. block

LinkingNumbers(block) == (block - get_reorg_protection_depth(LinkingChain) + 1) .. block

\* Linking blocks and call environment lie below the block: one that is too
\* low makes the subtraction underflow.
CanSubtract == got.block >= get_reorg_protection_depth(LinkingChain)

\* get_linking_blocks: one task for each number, in any order.
get_linking_block ==
    /\ step = "fetch" /\ CanSubtract
    /\ \E n \in LinkingNumbers(got.block) :
           /\ \A h \in got.linking : Number(h) # n
           /\ Exists(LinkingChain, n)
           /\ Goto("fetch", [Asks(got, "linking", RpcOf(LinkingChain, request.fallback)) EXCEPT
                                 !.linking = @ \cup {AtNumber(LinkingChain, n)}])

\* get_proof_data_call_input for an OP-stack chain with inclusion: the state
\* of the latest finalized game, from the other provider than the one asked
\* for.
get_game_call_input ==
    /\ step = "fetch" /\ CanSubtract /\ settled
    /\ got.op_evm_input = NoOpEnv
    /\ \E env \in OpEnvs :
           /\ LatestFinalized(id, env)
           /\ Goto("fetch", [Asks(got, "call", get_opstack_config(id, ~request.fallback).l2_rpc_url)
                                 EXCEPT !.op_evm_input = env])

\* get_proof_data_call_input otherwise: the chain's own state, a reorg depth
\* below the block.
get_proof_data_call_input ==
    LET n == got.block - get_reorg_protection_depth(id) IN
    /\ step = "fetch" /\ CanSubtract /\ ~settled
    /\ got.env_input = None
    /\ Exists(id, n)
    /\ Goto("fetch", [Asks(got, "call", RpcOf(id, request.fallback)) EXCEPT
                          !.env_input = AtNumber(id, n)])

------------------------------------------------------------------------------
\* The fetched headers in the order of their numbers.
LinkingBlocks ==
    LET ns    == LinkingNumbers(got.block)
        first == CHOOSE n \in ns : \A m \in ns : n <= m
    IN  [j \in 1..(got.block - first + 1) |->
            CHOOSE h \in got.linking : Number(h) = first + j - 1]

ZkvmInput ==
    [env_input |-> got.env_input, chain_id |-> id, commitment |-> got.commitment,
     env_op_input |-> got.env_op_input, linking_blocks |-> LinkingBlocks,
     env_eth_input |-> got.env_eth_input, op_evm_input |-> got.op_evm_input]

\* The Ethereum environment carries the state of the game that was checked,
\* and of no other.
StateCovers == settled => got.op_evm_input.game = got.op_checked.game

AllFetched ==
    /\ step = "fetch" /\ CanSubtract
    /\ \A n \in LinkingNumbers(got.block) : \E h \in got.linking : Number(h) = n
    /\ IF settled THEN got.op_evm_input # NoOpEnv ELSE got.env_input # None

\* Any read may fail, of a block the node does not have must fail, and so
\* must inclusion for Ethereum and an underflow.  Nothing is left of the reads.
Panic ==
    /\ ~Ended
    /\ Goto("panicked", NothingRead)

Read ==
    \/ get_sequencer_commitments_and_blocks
    \/ get_l1block_hash
    \/ get_l1block_number
    \/ get_env_input_for_linea_l1_call
    \/ get_env_input_for_l1_inclusion
    \/ get_env_input_for_opstack_dispute_game
    \/ get_linking_block
    \/ get_game_call_input
    \/ get_proof_data_call_input
    \/ Panic
=============================================================================
