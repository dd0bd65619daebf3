---------------------------- MODULE ChainParams -----------------------------
(***************************************************************************)
(* What host and guest know of a chain from its identifier: the tables of  *)
(* malda_utils/constants.rs, the selectors of malda_rs/viewcalls.rs and    *)
(* the URLs of malda_rs/constants.rs.  An address, a key or a URL is the   *)
(* record of what selects it.                                              *)
(***************************************************************************)
EXTENDS Naturals

ETHEREUM_CHAIN_ID == 1
OPTIMISM_CHAIN_ID == 10
LINEA_CHAIN_ID    == 59144
BASE_CHAIN_ID     == 8453
ETHEREUM_SEPOLIA_CHAIN_ID == 11155111
OPTIMISM_SEPOLIA_CHAIN_ID == 11155420
LINEA_SEPOLIA_CHAIN_ID    == 59141
BASE_SEPOLIA_CHAIN_ID     == 84532

MainnetIds == {ETHEREUM_CHAIN_ID, OPTIMISM_CHAIN_ID, LINEA_CHAIN_ID, BASE_CHAIN_ID}
SepoliaIds == {ETHEREUM_SEPOLIA_CHAIN_ID, OPTIMISM_SEPOLIA_CHAIN_ID,
               LINEA_SEPOLIA_CHAIN_ID, BASE_SEPOLIA_CHAIN_ID}
ChainIds == MainnetIds \cup SepoliaIds

is_opstack_chain(c)  == c \in {OPTIMISM_CHAIN_ID, BASE_CHAIN_ID,
                               OPTIMISM_SEPOLIA_CHAIN_ID, BASE_SEPOLIA_CHAIN_ID}
is_linea_chain(c)    == c \in {LINEA_CHAIN_ID, LINEA_SEPOLIA_CHAIN_ID}
is_ethereum_chain(c) == c \in {ETHEREUM_CHAIN_ID, ETHEREUM_SEPOLIA_CHAIN_ID}

\* The name that URLs and configuration are looked up by.
get_chain_params(c) ==
    [name    |-> CASE is_ethereum_chain(c) -> "ETHEREUM"
                   [] is_linea_chain(c)    -> "LINEA"
                   [] c \in {OPTIMISM_CHAIN_ID, OPTIMISM_SEPOLIA_CHAIN_ID} -> "OPTIMISM"
                   [] c \in {BASE_CHAIN_ID, BASE_SEPOLIA_CHAIN_ID} -> "BASE",
     testnet |-> c \in SepoliaIds]

\* The Ethereum chain that a chain settles on.
EthereumOf(c) == IF c \in SepoliaIds THEN ETHEREUM_SEPOLIA_CHAIN_ID ELSE ETHEREUM_CHAIN_ID

\* Ethereum's hashes are attested by Optimism, whatever chain is asked for.
get_default_sequencer_chain(sepolia) ==
    IF sepolia THEN OPTIMISM_SEPOLIA_CHAIN_ID ELSE OPTIMISM_CHAIN_ID

REORG_PROTECTION_DEPTH == [c \in ChainIds |-> 2]
get_reorg_protection_depth(c) == REORG_PROTECTION_DEPTH[c]

\* OPTIMISM_SEQUENCER and its like: the key that signs the chain's blocks.
Sequencer(c) == [sequencerOf |-> c]

\* The OptimismPortal on Ethereum that serves an OP-stack chain.
get_portal_address(c) == [portalOf |-> c]

get_rpc_url(name, fallback, testnet) ==
    [kind |-> "RPC_URL", name |-> name, testnet |-> testnet, fallback |-> fallback]
get_sequencer_request_url(name, fallback, testnet) ==
    [kind |-> "SEQUENCER_REQUEST", name |-> name, testnet |-> testnet, fallback |-> fallback]

RpcOf(c, fallback) ==
    get_rpc_url(get_chain_params(c).name, fallback, get_chain_params(c).testnet)

\* Where the two ends of an OP-stack chain are read from.
get_opstack_config(c, fallback) ==
    [l1_rpc_url |-> RpcOf(EthereumOf(c), fallback),
     portal     |-> get_portal_address(c),
     l2_rpc_url |-> RpcOf(c, fallback)]
=============================================================================
