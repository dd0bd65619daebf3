--------------------------- MODULE MCProofRequest ---------------------------
(***************************************************************************)
(* Requests for TLC, of every kind: two well-formed slots, no slot at all, *)
(* inner lists of different lengths, outer lists that do not match, a      *)
(* chain of a testnet and an unknown one.                                  *)
(***************************************************************************)
EXTENDS ProofRequest

Ask(kind, chains, users, markets, targets) ==
    [kind |-> kind, chain_ids |-> chains, users |-> users, markets |-> markets,
     target_chain_ids |-> targets]

TwoChains == <<LINEA_CHAIN_ID, BASE_CHAIN_ID>>

MCRequests ==
    UNION {{Ask(k, <<LINEA_CHAIN_ID, BASE_CHAIN_ID, ETHEREUM_CHAIN_ID>>,
                <<1, 1, 1>>, <<1, 1, 1>>, <<1, 1, 1>>),
            Ask(k, TwoChains, <<2, 1>>, <<2, 1>>, <<2, 1>>),
            Ask(k, <<>>, <<>>, <<>>, <<>>),
            Ask(k, TwoChains, <<2, 1>>, <<1, 2>>, <<3, 0>>),
            Ask(k, TwoChains, <<1, 1>>, <<1>>, <<1, 1>>),
            Ask(k, TwoChains, <<1>>, <<1>>, <<1, 1>>),
            Ask(k, TwoChains, <<1, 1>>, <<1, 1>>, <<1>>),
            Ask(k, TwoChains, <<1, 1>>, <<1, 1>>, <<1, 1, 1>>),
            Ask(k, <<BASE_CHAIN_ID, LINEA_SEPOLIA_CHAIN_ID>>, <<1, 1>>, <<1, 1>>, <<1, 1>>),
            Ask(k, <<0, ETHEREUM_CHAIN_ID>>, <<1, 1>>, <<1, 1>>, <<1, 1>>)} : k \in Kinds}
=============================================================================
