-------------------------- MODULE GuestValidation ---------------------------
(***************************************************************************)
(* What the guest program accepts: get_proof_data.rs and validators.rs,    *)
(* with the signatures of types.rs and cryptography.rs.                    *)
(*                                                                         *)
(* An environment is the header it is built on, since the state read from  *)
(* it is proved against the header; None is the empty sequence.  A failed  *)
(* assertion or a call that reverts panics, so the validators are          *)
(* predicates and a panic is FALSE.  The guest's input i has the fields of *)
(* one iteration of main: env_input, chain_id, commitment, env_op_input,   *)
(* linking_blocks, env_eth_input and op_evm_input.                         *)
(***************************************************************************)
EXTENDS Chains

None == <<>>
NoCommitment == [data |-> None]
NoOpEnv == [game |-> 0]
NoOne == [nobody |-> TRUE]

------------------------------------------------------------------------------
\* What a sequencer signs: a zero domain, the chain id, the payload's hash.
signature_msg(data, chain_id) == [domain |-> 0, chain |-> chain_id, payload |-> data]

\* ecrecover yields the signing key only for the message that was signed.
Recovered(sig, sighash) == IF sig.over = sighash THEN sig.key ELSE NoOne

recover_signer_unchecked(sig, sighash) == Recovered(sig, sighash)

recover_signer(sig, sighash) ==
    IF sig.low_s THEN recover_signer_unchecked(sig, sighash) ELSE NoOne

\* SequencerCommitment::new: the commitment that chain c's sequencer publishes
\* for its block h.
SignedCommitment(c, h) ==
    [data |-> h,
     signature |-> [key |-> Sequencer(c), low_s |-> TRUE, over |-> signature_msg(h, c)]]

verifyAnySigner(commitment, signer, chain_id) ==   \* mutant
    Recovered(commitment.signature,
              signature_msg(commitment.data, ChainOf(commitment.data))) # NoOne

verify(commitment, signer, chain_id) ==
    signer = Recovered(commitment.signature, signature_msg(commitment.data, chain_id))

\* ExecutionPayload::try_from: hash and number of the block signed.
ExecutionPayload(commitment) ==
    [block_hash |-> commitment.data, block_number |-> Number(commitment.data)]

------------------------------------------------------------------------------
validate_opstack_env(chain_id, commitment, env_block_hash) ==
    /\ commitment # NoCommitment
    /\ verify(commitment, Sequencer(chain_id), chain_id)
    /\ ExecutionPayload(commitment).block_hash = env_block_hash

\* get_validated_ethereum_block_hash_via_opstack: the hash that Optimism's
\* L1Block holds in a block signed by Optimism's sequencer.
EthereumHashAttested(i, ethereum) ==
    LET via == get_default_sequencer_chain(ethereum \in SepoliaIds) IN
    /\ i.env_op_input # None
    /\ validate_opstack_env(via, i.commitment, i.env_op_input)

EthereumHash(i) == Tip(i.env_op_input).origin

\* The header's number only is compared with what Linea posted to Ethereum.
validate_linea_env_with_l1_inclusion(i, env_block_number, ethereum_hash) ==
    /\ i.env_eth_input = ethereum_hash
    /\ Tip(i.env_eth_input).posted >= env_block_number

\* The header must carry a low-s signature of the chain's sequencer.
validate_linea_env(chain_id, header) ==
    /\ "extra_data" \in DOMAIN Tip(header)
    /\ recover_signer(Tip(header).extra_data,
                      [chain |-> ChainOf(header), fork |-> Tip(header).fork,
                       number |-> Number(header)]) = Sequencer(chain_id)

validate_game_of_any_type(chain_id, eth, op) ==   \* mutant
    /\ chain_id \in DOMAIN Tip(eth).portals
    /\ LET portal == PortalOf(chain_id, eth) IN
       /\ op.game \in DOMAIN portal.games
       /\ LET game == portal.games[op.game] IN
          /\ game.createdAt >= portal.updatedAt
          /\ game.status = "DEFENDER_WINS"
          /\ ~game.blacklisted
          /\ Number(eth) - game.resolvedAt > ProofMaturityDelay - MaturitySlack
          /\ game.claim = op.claim

validate_opstack_dispute_game_commitment(chain_id, eth, op) ==
    /\ chain_id \in DOMAIN Tip(eth).portals
    /\ LET portal == PortalOf(chain_id, eth) IN
       /\ op.game \in DOMAIN portal.games
       /\ LET game == portal.games[op.game] IN
          /\ game.gameType = 0
          /\ game.createdAt >= portal.updatedAt
          /\ game.status = "DEFENDER_WINS"
          /\ ~game.blacklisted
          /\ Number(eth) - game.resolvedAt > ProofMaturityDelay - MaturitySlack
          /\ game.claim = op.claim

------------------------------------------------------------------------------
get_validated_block_hash_linea(i, p) ==
    /\ p.inclusion => /\ EthereumHashAttested(i, EthereumOf(i.chain_id))
                      /\ validate_linea_env_with_l1_inclusion(i, Number(p.env), EthereumHash(i))
    /\ validate_linea_env(i.chain_id, p.header)

get_validated_block_hash_opstack(i, p) ==
    IF p.inclusion
    THEN /\ EthereumHashAttested(i, EthereumOf(i.chain_id))
         /\ EthereumHash(i) = p.header
         /\ validate_opstack_dispute_game_commitment(i.chain_id, i.env_eth_input, p.op_env)
    ELSE validate_opstack_env(i.chain_id, i.commitment, p.header)

\* get_validated_block_hash: whether there is one, and which.
BlockHashValidated(i, p) ==
    \/ is_linea_chain(i.chain_id)    /\ get_validated_block_hash_linea(i, p)
    \/ is_opstack_chain(i.chain_id)  /\ get_validated_block_hash_opstack(i, p)
    \/ is_ethereum_chain(i.chain_id) /\ EthereumHashAttested(i, i.chain_id)

ValidatedHash(i, p) == IF is_ethereum_chain(i.chain_id) THEN EthereumHash(i) ELSE p.header

validate_chain_length_short(chain_id, historical_hash, linking_blocks, current_hash) ==   \* mutant
    /\ Len(linking_blocks) + 1 >= REORG_PROTECTION_DEPTH[chain_id]
    /\ \A j \in DOMAIN linking_blocks :
           ParentHash(linking_blocks[j]) = IF j = 1 THEN historical_hash ELSE linking_blocks[j - 1]
    /\ current_hash = IF linking_blocks = <<>> THEN historical_hash ELSE Tip(linking_blocks)

validate_chain_length(chain_id, historical_hash, linking_blocks, current_hash) ==
    /\ Len(linking_blocks) >= REORG_PROTECTION_DEPTH[chain_id]
    /\ \A j \in DOMAIN linking_blocks :
           ParentHash(linking_blocks[j]) = IF j = 1 THEN historical_hash ELSE linking_blocks[j - 1]
    /\ current_hash = IF linking_blocks = <<>> THEN historical_hash ELSE Tip(linking_blocks)

\* The environment to call in, the header to validate, and for which chain the
\* linking blocks count.
sort_and_verify_relevant_params(i) ==
    LET inclusion == i.env_eth_input # None
        settled   == is_opstack_chain(i.chain_id) /\ inclusion
        env       == IF settled THEN i.env_eth_input ELSE i.env_input
    IN [there       |-> env # None /\ (settled => i.op_evm_input # NoOpEnv),
        env         |-> env,
        header      |-> IF i.linking_blocks = <<>> THEN env ELSE Tip(i.linking_blocks),
        op_env      |-> IF settled THEN i.op_evm_input ELSE NoOpEnv,
        lengthChain |-> IF settled THEN EthereumOf(i.chain_id) ELSE i.chain_id,
        inclusion   |-> inclusion]

validate_get_proof_data_call(i) ==
    LET p == sort_and_verify_relevant_params(i) IN
    /\ p.there
    /\ BlockHashValidated(i, p)
    /\ validate_chain_length(p.lengthChain, p.env, i.linking_blocks, ValidatedHash(i, p))

\* One iteration of main: only mainnet chains are served.
GuestAccepts(i) == i.chain_id \in MainnetIds /\ validate_get_proof_data_call(i)

\* batch_call_get_proof_data: which chain's state an entry of the journal is
\* read from.
JournalOf(i) ==
    LET p == sort_and_verify_relevant_params(i)
    IN [chain_id |-> i.chain_id, L1inclusion |-> p.inclusion, env |-> p.env, op_env |-> p.op_env]
=============================================================================
