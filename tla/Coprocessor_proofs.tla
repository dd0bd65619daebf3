------------------------- MODULE Coprocessor_proofs --------------------------
(***************************************************************************)
(* Proofs about Coprocessor for any chains, portals, requests and bounds:  *)
(* what a proof speaks of is a reorg depth below a block that was          *)
(* published, and such a block stays (IInv); what was published stays      *)
(* right, and every journal with it (RInv); an honest host holds blocks of *)
(* the chains as they are, which pass every check (QInv).                  *)
(***************************************************************************)
EXTENDS Coprocessor, FiniteSums, SequenceTheorems

ETH == ETHEREUM_CHAIN_ID
IsSeq(h) == h \in Seq(Range(h))

------------------------------------------------------------------------------
(* Prefixes.                                                                *)

LEMMA UptoProps ==
    ASSUME NEW h, IsSeq(h), NEW n \in 1..Len(h)
    PROVE  /\ IsSeq(Upto(h, n))
           /\ Len(Upto(h, n)) = n
           /\ \A i \in 1..n : Upto(h, n)[i] = h[i]
           /\ \A m \in 1..n : Upto(Upto(h, n), m) = Upto(h, m)
  <1> DEFINE S == Range(h)
  <1>1. h \in Seq(S) /\ Len(h) \in Nat
    BY LenProperties DEF IsSeq
  <1>2. \A i \in 1..n : h[i] \in S
    BY <1>1, ElementOfSeq
  <1>3. /\ Upto(h, n) \in Seq(S)
        /\ Len(Upto(h, n)) = n
        /\ \A i \in 1..n : Upto(h, n)[i] = h[i]
    <2> HIDE DEF S
    <2>1. /\ SubSeq(h, 1, n) \in Seq(S)
          /\ Len(SubSeq(h, 1, n)) = IF 1 <= n THEN n - 1 + 1 ELSE 0
          /\ \A i \in 1..(n - 1 + 1) : SubSeq(h, 1, n)[i] = h[1 + i - 1]
      BY <1>2, SubSeqProperties
    <2> QED BY <2>1, <1>1 DEF Upto
  <1>4. IsSeq(Upto(h, n))
    BY <1>3, SeqOfRange DEF IsSeq
  <1>5. ASSUME NEW m \in 1..n PROVE Upto(Upto(h, n), m) = Upto(h, m)
    <2>1. SubSeq(SubSeq(h, 1, n), 1, m) = SubSeq(h, 1 + 1 - 1, 1 + m - 1)
      BY <1>1, SubSeqOfSubSeq
    <2> QED BY <2>1, <1>1 DEF Upto
  <1> QED BY <1>3, <1>4, <1>5

LEMMA AppendProps ==
    ASSUME NEW h, IsSeq(h), NEW b
    PROVE  /\ IsSeq(Append(h, b))
           /\ Len(Append(h, b)) = Len(h) + 1
           /\ \A i \in 1..Len(h) : Append(h, b)[i] = h[i]
           /\ Append(h, b)[Len(h) + 1] = b
           /\ \A n \in 1..Len(h) : Upto(Append(h, b), n) = Upto(h, n)
  <1> DEFINE S == Range(h) \cup {b}
  <1>1. h \in Seq(S) /\ Len(h) \in Nat /\ b \in S /\ <<b>> \in Seq(S)
    BY SeqMonotonic, LenProperties DEF IsSeq
  <1>2. /\ Append(h, b) \in Seq(S)
        /\ Len(Append(h, b)) = Len(h) + 1
        /\ \A i \in 1..Len(h) : Append(h, b)[i] = h[i]
        /\ Append(h, b)[Len(h) + 1] = b
    BY <1>1, AppendProperties
  <1>3. IsSeq(Append(h, b))
    BY <1>2, SeqOfRange DEF IsSeq
  <1>4. ASSUME NEW n \in 1..Len(h) PROVE Upto(Append(h, b), n) = Upto(h, n)
    <2>1. Append(h, b) = h \o <<b>>
      BY <1>1, AppendIsConcat
    <2>2. SubSeq(h \o <<b>>, 1, n) = SubSeq(h, 1, n)
      BY <1>1, SubSeqOfConcat1
    <2> QED BY <2>1, <2>2 DEF Upto
  <1> QED BY <1>2, <1>3, <1>4

LEMMA FunctionIsSeq ==
    ASSUME NEW n \in Nat, NEW h, h = [i \in 1..n |-> h[i]]
    PROVE  IsSeq(h) /\ Len(h) = n
  <1>1. h \in Seq({h[i] : i \in 1..n}) /\ Len(h) = n
    OBVIOUS
  <1> QED BY <1>1, SeqOfRange DEF IsSeq

LEMMA PrefixIsAncestor ==
    ASSUME NEW e, NEW k, NEW n, Len(e) = n, n <= Len(k), e = Upto(k, n)
    PROVE  Ancestor(e, k)
  BY DEF Ancestor

LEMMA UptoFull ==
    ASSUME NEW h, IsSeq(h)
    PROVE  Upto(h, Len(h)) = h /\ Len(h) \in Nat
  BY SubSeqFull, LenProperties DEF IsSeq, Upto

------------------------------------------------------------------------------
(* The invariant.                                                           *)

ChainTables ==
    /\ chain = [c \in Live |-> chain[c]]
    /\ orphans = [c \in Live |-> orphans[c]]
    /\ top \in [Live -> Nat]

\* Every branch is a chain that begins in its own genesis, and is no longer
\* than the longest there was.
BranchesTyped ==
    \A c \in Live : \A h \in Branches(c) :
        IsSeq(h) /\ Len(h) \in 1..top[c] /\ h[1].chain = c

OriginsPublished ==
    \A c \in Live : is_opstack_chain(c) =>
        \A h \in Branches(c) : \A n \in 1..Len(h) : h[n].origin \in Published(ETH)

PostedTyped ==
    \A h \in Branches(ETH) : \A n \in 1..Len(h) : h[n].posted \in Int

ChainsInv ==
    ChainTables /\ BranchesTyped /\ OriginsPublished /\ PostedTyped /\ DeepBlocksStay

\* The host holds block numbers and published headers.
HostInv ==
    /\ request \in Requests
    /\ {"block", "linking", "asked"} \subseteq DOMAIN got
    /\ got.block \in Int
    /\ step # "fetch" => got.block \in Nat
    /\ got.linking \subseteq Published(LinkingChain)

\* A reorg depth below a published block.
Under(e, h) == \E n \in 1..Len(h) : n + ReorgLimit <= Len(h) /\ e = Upto(h, n)

Deep(e) == \E c \in Live : \E h \in Published(c) : Under(e, h)

JournalDeep == Committed => Deep(journal.env)

IInv == ChainsInv /\ HostInv /\ JournalDeep

------------------------------------------------------------------------------
(* Chain identifiers.                                                       *)

LEMMA Bounds ==
    /\ ReorgLimit \in Nat /\ MaxForks \in Nat /\ PortalChains \subseteq Live
    /\ ProofMaturityDelay \in Nat /\ MaturitySlack \in Nat
    /\ ETH \in Live /\ LINEA_CHAIN_ID \in Live
    /\ StartNumber \in [Live -> Nat] /\ MaxNumber \in [Live -> Nat]
  BY ChainsAssumption DEF ETH

LEMMA StartBounds ==
    ASSUME NEW c \in Live
    PROVE  /\ StartNumber[c] <= MaxNumber[c]
           /\ is_opstack_chain(c) => StartNumber[c] <= StartNumber[ETH]
  BY ChainsAssumption DEF ETH

LEMMA Ids ==
    /\ ETH \in Live /\ LINEA_CHAIN_ID \in Live
    /\ get_default_sequencer_chain(FALSE) \in Live
    /\ is_opstack_chain(get_default_sequencer_chain(FALSE))
    /\ is_ethereum_chain(ETH)
    /\ \A c \in Live :
           /\ c \in ChainIds /\ c \in Int /\ c # 0
           /\ EthereumOf(c) = ETH
           /\ get_default_sequencer_chain(c \in SepoliaIds)
                  = get_default_sequencer_chain(FALSE)
           /\ is_ethereum_chain(c) <=> c = ETH
           /\ is_opstack_chain(c) => ~is_ethereum_chain(c) /\ ~is_linea_chain(c)
           /\ is_linea_chain(c) => ~is_ethereum_chain(c) /\ c = LINEA_CHAIN_ID
           /\ is_opstack_chain(c) \/ is_linea_chain(c) \/ c = ETH
           /\ get_reorg_protection_depth(c) = 2
           /\ REORG_PROTECTION_DEPTH[c] = 2
           /\ ReorgLimit <= 2
  BY ChainsAssumption, DepthAssumption DEF ETH, MainnetIds, SepoliaIds, ChainIds, EthereumOf,
     get_default_sequencer_chain, is_ethereum_chain, is_opstack_chain, is_linea_chain,
     get_reorg_protection_depth, REORG_PROTECTION_DEPTH,
     ETHEREUM_CHAIN_ID, OPTIMISM_CHAIN_ID, LINEA_CHAIN_ID, BASE_CHAIN_ID,
     ETHEREUM_SEPOLIA_CHAIN_ID, OPTIMISM_SEPOLIA_CHAIN_ID,
     LINEA_SEPOLIA_CHAIN_ID, BASE_SEPOLIA_CHAIN_ID

------------------------------------------------------------------------------
(* Published blocks.                                                        *)

LEMMA PublishedDef ==
    ASSUME NEW c, NEW h
    PROVE  h \in Published(c) <=> \E b \in Branches(c) : \E n \in 1..Len(b) : h = Upto(b, n)
  BY DEF Published

LEMMA HeadProps ==
    ASSUME BranchesTyped, NEW c \in Live
    PROVE  /\ chain[c] \in Branches(c) /\ IsSeq(chain[c])
           /\ Len(chain[c]) \in Nat \ {0} /\ Len(chain[c]) \in 1..top[c]
           /\ chain[c][1].chain = c
  <1>1. chain[c] \in Branches(c)
    BY DEF Branches
  <1>2. IsSeq(chain[c]) /\ Len(chain[c]) \in 1..top[c] /\ chain[c][1].chain = c
    BY <1>1 DEF BranchesTyped
  <1>3. Len(chain[c]) \in Nat
    BY <1>2, UptoFull
  <1> QED BY <1>1, <1>2, <1>3

LEMMA PublishedProps ==
    ASSUME BranchesTyped, NEW c \in Live, NEW h \in Published(c)
    PROVE  /\ IsSeq(h) /\ Len(h) \in Nat \ {0} /\ h[1].chain = c
           /\ \A n \in 1..Len(h) : Upto(h, n) \in Published(c)
           /\ \E b \in Branches(c) : /\ IsSeq(b) /\ Len(h) \in 1..Len(b) /\ Len(b) \in Nat
                                     /\ h = Upto(b, Len(h))
                                     /\ \A n \in 1..Len(h) : h[n] = b[n]
  <1>1. PICK b \in Branches(c) : \E n \in 1..Len(b) : h = Upto(b, n)
    BY PublishedDef
  <1> PICK n \in 1..Len(b) : h = Upto(b, n)
    BY <1>1
  <1>2. IsSeq(b) /\ b[1].chain = c /\ Len(b) \in Nat
    BY UptoFull DEF BranchesTyped
  <1>3. /\ IsSeq(h) /\ Len(h) = n /\ \A i \in 1..n : h[i] = b[i]
        /\ \A m \in 1..n : Upto(h, m) = Upto(b, m)
    BY <1>1, <1>2, UptoProps
  <1>4. \A m \in 1..Len(h) : Upto(h, m) \in Published(c)
    BY <1>2, <1>3, PublishedDef
  <1>5. h[1].chain = c /\ Len(h) \in Nat \ {0}
    BY <1>2, <1>3
  <1>6. /\ IsSeq(b) /\ Len(h) \in 1..Len(b) /\ Len(b) \in Nat
        /\ h = Upto(b, Len(h))
        /\ \A i \in 1..Len(h) : h[i] = b[i]
    BY <1>2, <1>3
  <1> QED BY <1>3, <1>4, <1>5, <1>6

LEMMA BranchPublished ==
    ASSUME BranchesTyped, NEW c \in Live, NEW n \in 1..Len(chain[c])
    PROVE  Upto(chain[c], n) \in Published(c) /\ chain[c] \in Published(c)
  <1>1. chain[c] \in Branches(c)
    BY DEF Branches
  <1>2. IsSeq(chain[c]) /\ Len(chain[c]) \in 1..top[c]
    BY <1>1 DEF BranchesTyped
  <1>3. Upto(chain[c], Len(chain[c])) = chain[c] /\ Len(chain[c]) \in Nat
    BY <1>2, UptoFull
  <1> QED BY <1>1, <1>2, <1>3, PublishedDef

\* A block a reorg depth below a published one stays in the chain.
LEMMA DeepIsAncestor ==
    ASSUME ChainsInv, NEW e, Deep(e)
    PROVE  Ancestor(e, chain[ChainOf(e)])
  <1> PICK c \in Live : \E h \in Published(c) : \E n \in 1..Len(h) :
               n + ReorgLimit <= Len(h) /\ e = Upto(h, n)
    BY DEF Deep, Under
  <1> PICK h \in Published(c) : \E n \in 1..Len(h) :
               n + ReorgLimit <= Len(h) /\ e = Upto(h, n)
    OBVIOUS
  <1>1. PICK n \in 1..Len(h) : n + ReorgLimit <= Len(h) /\ e = Upto(h, n)
    OBVIOUS
  <1>2. IsSeq(h) /\ h[1].chain = c /\ Len(h) \in Nat
    BY <1>1, PublishedProps DEF ChainsInv
  <1>3. PICK b \in Branches(c) : /\ IsSeq(b) /\ Len(h) \in 1..Len(b) /\ Len(b) \in Nat
                                 /\ h = Upto(b, Len(h))
    BY <1>1, PublishedProps DEF ChainsInv
  <1>4. e = Upto(b, n) /\ n \in 1..Len(b)
    BY <1>1, <1>2, <1>3, UptoProps
  <1>5. Ancestor(Upto(b, n), chain[c])
    <2>1. n + ReorgLimit <= Len(b)
      BY <1>1, <1>2, <1>3, Bounds
    <2> QED BY <2>1, <1>3, <1>4 DEF ChainsInv, DeepBlocksStay
  <1>6. ChainOf(e) = c
    BY <1>1, <1>2, UptoProps DEF ChainOf
  <1> QED BY <1>4, <1>5, <1>6

------------------------------------------------------------------------------
(* The chains move.                                                         *)

LEMMA NewBlock ==
    ASSUME ChainsInv, NEW c \in Live, NEW watch, NEW b \in BlocksAfter(c, chain[c], watch)
    PROVE  /\ is_opstack_chain(c) => b.origin \in Published(ETH)
           /\ c = ETH => b.posted \in Int
  <1> DEFINE h == chain[c]
             e == chain[ETH]
  <1>1. /\ h \in Branches(c) /\ Len(h) \in Nat \ {0}
        /\ e \in Branches(ETH) /\ Len(e) \in Nat \ {0}
        /\ Len(chain[LINEA_CHAIN_ID]) \in Int
    BY Ids, HeadProps DEF ChainsInv
  <1>2. ASSUME is_opstack_chain(c) PROVE b.origin \in Published(ETH)
    <2>1. b \in OpstackBlocks(c, h)
      BY <1>2, Ids DEF BlocksAfter
    <2>2. PICK n \in {Len(e) - 1, Len(e)} : n >= Len(Tip(h).origin) /\ b.origin = Upto(e, n)
      <3>1. e = chain[ETHEREUM_CHAIN_ID]
        BY DEF ETH
      <3> HIDE DEF e, h
      <3> QED BY <2>1, <3>1 DEF OpstackBlocks
    <2>3. Len(Tip(h).origin) \in Nat \ {0}
      <3>1. Tip(h).origin \in Published(ETH)
        BY <1>1, <1>2 DEF Tip, ChainsInv, OriginsPublished
      <3> QED BY <3>1, Ids, PublishedProps DEF ChainsInv
    <2>4. n \in 1..Len(e)
      BY <1>1, <2>2, <2>3
    <2> QED BY <2>2, <2>4, Ids, BranchPublished DEF ChainsInv
  <1>3. ASSUME c = ETH PROVE b.posted \in Int
    <2>1. b \in EthereumBlocks(h, watch)
      BY <1>3, Ids DEF BlocksAfter
    <2>2. b.posted \in {Tip(h).posted} \cup {Number(chain[LINEA_CHAIN_ID]) - ReorgLimit}
      BY <2>1 DEF EthereumBlocks
    <2>3. Tip(h).posted \in Int
      BY <1>1, <1>3 DEF Tip, ChainsInv, PostedTyped
    <2> QED BY <1>1, <2>2, <2>3, Bounds DEF Number
  <1> QED BY <1>2, <1>3

LEMMA GrowKeeps ==
    ASSUME ChainsInv, NEW c \in Live, NEW watch, Grow(c, watch)
    PROVE  ChainsInv' /\ \A d \in Live : Published(d) \subseteq Published(d)'
  <1> PICK b \in BlocksAfter(c, chain[c], watch) : chain' = [chain EXCEPT ![c] = Append(@, b)]
    BY DEF Grow
  <1> DEFINE h == chain[c]
             k == Append(h, b)
  <1>1. /\ ChainTables /\ BranchesTyped /\ OriginsPublished /\ PostedTyped /\ DeepBlocksStay
        /\ orphans' = orphans
        /\ top' = [top EXCEPT ![c] = IF @ = Len(h) THEN @ + 1 ELSE @]
    BY DEF ChainsInv, Grow
  <1>2. h \in Branches(c) /\ IsSeq(h) /\ Len(h) \in 1..top[c] /\ h[1].chain = c /\ top[c] \in Nat
    BY <1>1 DEF Branches, BranchesTyped, ChainTables
  <1>3. /\ IsSeq(k) /\ Len(k) = Len(h) + 1 /\ k[Len(k)] = b
        /\ \A i \in 1..Len(h) : k[i] = h[i]
        /\ \A n \in 1..Len(h) : Upto(k, n) = Upto(h, n)
    BY <1>2, AppendProps
  <1> HIDE DEF k
  <1>4. /\ chain'[c] = k
        /\ \A d \in Live \ {c} : chain'[d] = chain[d]
        /\ chain' = [d \in Live |-> chain'[d]]
    BY <1>1 DEF ChainTables, k
  <1>5. /\ Len(k) <= top'[c] /\ \A d \in Live : top'[d] \in Nat /\ top[d] <= top'[d]
        /\ top' \in [Live -> Nat]
    BY <1>1, <1>2, <1>3 DEF ChainTables
  <1>6. /\ Branches(c)' = orphans[c] \cup {k}
        /\ \A d \in Live \ {c} : Branches(d)' = Branches(d)
        /\ Branches(c) = orphans[c] \cup {h}
    BY <1>1, <1>4 DEF Branches
  <1>7. ASSUME NEW d \in Live PROVE Published(d) \subseteq Published(d)'
    <2>1. CASE d # c
      BY <1>6, <2>1 DEF Published
    <2>2. CASE d = c
      <3> SUFFICES ASSUME NEW p \in Published(c) PROVE p \in Published(c)'
        BY <2>2
      <3>1. PICK q \in Branches(c) : \E n \in 1..Len(q) : p = Upto(q, n)
        BY PublishedDef
      <3>2. PICK n \in 1..Len(q) : p = Upto(q, n)
        BY <3>1
      <3>3. \E r \in Branches(c)' : \E m \in 1..Len(r) : p = Upto(r, m)
        <4>1. CASE q = h
          <5>1. n \in 1..Len(k) /\ p = Upto(k, n)
            BY <1>2, <1>3, <3>2, <4>1
          <5> QED BY <5>1, <1>6
        <4>2. CASE q # h
          BY <1>6, <3>2, <4>2
        <4> QED BY <4>1, <4>2
      <3> QED BY <3>3 DEF Published
    <2> QED BY <2>1, <2>2
  <1>8. BranchesTyped'
    <2> SUFFICES ASSUME NEW d \in Live, NEW q \in Branches(d)'
                 PROVE  IsSeq(q) /\ Len(q) \in 1..top'[d] /\ q[1].chain = d
      BY DEF BranchesTyped
    <2>1. CASE d = c /\ q = k
      BY <1>2, <1>3, <1>5, <2>1
    <2>2. CASE q \in Branches(d)
      <3>1. IsSeq(q) /\ Len(q) \in 1..top[d] /\ q[1].chain = d
        BY <1>1, <2>2 DEF BranchesTyped
      <3> QED BY <3>1, <1>5, <1>1 DEF ChainTables
    <2> QED BY <1>6, <2>1, <2>2
  <1>9. OriginsPublished'
    <2> SUFFICES ASSUME NEW d \in Live, is_opstack_chain(d), NEW q \in Branches(d)',
                        NEW n \in 1..Len(q)
                 PROVE  q[n].origin \in Published(ETH)'
      BY DEF OriginsPublished
    <2>1. q[n].origin \in Published(ETH)
      <3>1. CASE q \in Branches(d)
        BY <1>1, <3>1 DEF OriginsPublished
      <3>2. CASE d = c /\ q = k
        <4>1. b.origin \in Published(ETH)
          BY <3>2, NewBlock
        <4>2. n \in 1..Len(h) => k[n].origin \in Published(ETH)
          BY <1>1, <1>2, <1>3, <3>2 DEF OriginsPublished
        <4>3. n \in 1..Len(h) \/ n = Len(k)
          BY <1>2, <1>3, <3>2
        <4> QED BY <1>3, <3>2, <4>1, <4>2, <4>3
      <3> QED BY <1>6, <3>1, <3>2
    <2> QED BY <2>1, <1>7, Ids
  <1>10. PostedTyped'
    <2> SUFFICES ASSUME NEW q \in Branches(ETH)', NEW n \in 1..Len(q)
                 PROVE  q[n].posted \in Int
      BY DEF PostedTyped
    <2>1. CASE q \in Branches(ETH)
      BY <1>1, <2>1 DEF PostedTyped
    <2>2. CASE ETH = c /\ q = k
      <3>1. b.posted \in Int
        BY <2>2, NewBlock
      <3>2. n \in 1..Len(h) => k[n].posted \in Int
        BY <1>1, <1>2, <1>3, <2>2 DEF PostedTyped
      <3>3. n \in 1..Len(h) \/ n = Len(k)
        BY <1>2, <1>3, <2>2
      <3> QED BY <1>3, <2>2, <3>1, <3>2, <3>3
    <2> QED BY <1>6, <2>1, <2>2, Ids
  <1>11. DeepBlocksStay'
    <2> SUFFICES ASSUME NEW d \in Live, NEW q \in Branches(d)', NEW n \in 1..Len(q),
                        n + ReorgLimit <= Len(q)
                 PROVE  Ancestor(Upto(q, n), chain'[d])
      BY DEF DeepBlocksStay, Ancestor
    <2>0. IsSeq(q) /\ Len(Upto(q, n)) = n
      BY <1>8, UptoProps DEF BranchesTyped
    <2>1. CASE d # c
      BY <1>1, <1>4, <1>6, <2>1 DEF DeepBlocksStay
    <2>2. CASE d = c /\ q = k
      <3>1. n <= Len(k)
        BY <1>2, <1>3, <2>2
      <3> QED BY <1>4, <2>0, <2>2, <3>1, PrefixIsAncestor
    <2>3. CASE d = c /\ q \in Branches(c)
      <3>1. Ancestor(Upto(q, n), h)
        BY <1>1, <2>3 DEF DeepBlocksStay
      <3>2. n <= Len(h) /\ Upto(q, n) = Upto(h, n)
        BY <2>0, <3>1 DEF Ancestor
      <3>3. n <= Len(k) /\ Upto(q, n) = Upto(k, n)
        BY <1>2, <1>3, <2>3, <3>2
      <3> QED BY <1>4, <2>0, <2>3, <3>3, PrefixIsAncestor
    <2> QED BY <1>6, <2>1, <2>2, <2>3
  <1>12. ChainTables'
    BY <1>1, <1>4, <1>5 DEF ChainTables
  <1> QED BY <1>7, <1>8, <1>9, <1>10, <1>11, <1>12 DEF ChainsInv

LEMMA ReorgKeeps ==
    ASSUME ChainsInv, NEW c \in Live, Reorg(c)
    PROVE  ChainsInv' /\ \A d \in Live : Published(d) \subseteq Published(d)'
  <1> DEFINE h == chain[c]
  <1> PICK m \in 1..(Len(h) - 1) : /\ m + ReorgLimit >= top[c]
                                   /\ chain' = [chain EXCEPT ![c] = Upto(@, m)]
    BY DEF Reorg
  <1> DEFINE k == Upto(h, m)
  <1>1. /\ ChainTables /\ BranchesTyped /\ OriginsPublished /\ PostedTyped /\ DeepBlocksStay
        /\ orphans' = [orphans EXCEPT ![c] = @ \cup {h}]
        /\ top' = top
    BY DEF ChainsInv, Reorg
  <1>2. /\ h \in Branches(c) /\ IsSeq(h) /\ Len(h) \in Nat \ {0} /\ Len(h) \in 1..top[c]
        /\ h[1].chain = c /\ top[c] \in Nat /\ m \in 1..Len(h)
    BY <1>1, HeadProps DEF ChainTables
  <1>3. /\ IsSeq(k) /\ Len(k) = m
        /\ \A i \in 1..m : k[i] = h[i]
        /\ \A n \in 1..m : Upto(k, n) = Upto(h, n)
    BY <1>2, UptoProps
  <1> HIDE DEF k
  <1>4. /\ chain'[c] = k
        /\ \A d \in Live \ {c} : chain'[d] = chain[d] /\ orphans'[d] = orphans[d]
        /\ orphans'[c] = orphans[c] \cup {h}
        /\ chain' = [d \in Live |-> chain'[d]]
        /\ orphans' = [d \in Live |-> orphans'[d]]
    BY <1>1 DEF ChainTables, k
  <1>5. /\ Branches(c)' = Branches(c) \cup {k}
        /\ \A d \in Live \ {c} : Branches(d)' = Branches(d)
    BY <1>4 DEF Branches
  <1>6. ASSUME NEW d \in Live PROVE Published(d) \subseteq Published(d)'
    BY <1>5 DEF Published
  <1>7. BranchesTyped'
    <2> SUFFICES ASSUME NEW d \in Live, NEW q \in Branches(d)'
                 PROVE  IsSeq(q) /\ Len(q) \in 1..top[d] /\ q[1].chain = d
      BY <1>1 DEF BranchesTyped
    <2>1. CASE d = c /\ q = k
      BY <1>2, <1>3, <2>1
    <2>2. CASE q \in Branches(d)
      BY <1>1, <2>2 DEF BranchesTyped
    <2> QED BY <1>5, <2>1, <2>2
  <1>8. OriginsPublished'
    <2> SUFFICES ASSUME NEW d \in Live, is_opstack_chain(d), NEW q \in Branches(d)',
                        NEW n \in 1..Len(q)
                 PROVE  q[n].origin \in Published(ETH)'
      BY DEF OriginsPublished
    <2>1. CASE q \in Branches(d)
      BY <1>1, <1>6, <2>1, Ids DEF OriginsPublished
    <2>2. CASE d = c /\ q = k
      <3>1. n \in 1..Len(h) /\ k[n] = h[n]
        BY <1>2, <1>3, <2>2
      <3>2. h[n].origin \in Published(ETH)
        BY <1>1, <1>2, <2>2, <3>1 DEF OriginsPublished
      <3> QED BY <1>6, <2>2, <3>1, <3>2, Ids
    <2> QED BY <1>5, <2>1, <2>2
  <1>9. PostedTyped'
    <2> SUFFICES ASSUME NEW q \in Branches(ETH)', NEW n \in 1..Len(q)
                 PROVE  q[n].posted \in Int
      BY DEF PostedTyped
    <2>1. CASE q \in Branches(ETH)
      BY <1>1, <2>1 DEF PostedTyped
    <2>2. CASE ETH = c /\ q = k
      <3>1. n \in 1..Len(h) /\ k[n] = h[n]
        BY <1>2, <1>3, <2>2
      <3> QED BY <1>1, <1>2, <2>2, <3>1 DEF PostedTyped
    <2> QED BY <1>5, <2>1, <2>2, Ids
  <1>10. DeepBlocksStay'
    <2> SUFFICES ASSUME NEW d \in Live, NEW q \in Branches(d)', NEW n \in 1..Len(q),
                        n + ReorgLimit <= Len(q)
                 PROVE  Ancestor(Upto(q, n), chain'[d])
      BY DEF DeepBlocksStay, Ancestor
    <2>0. IsSeq(q) /\ Len(Upto(q, n)) = n /\ Len(q) <= top[d]
      BY <1>1, <1>7, UptoProps DEF BranchesTyped
    <2>1. CASE d # c
      BY <1>1, <1>4, <1>5, <2>1 DEF DeepBlocksStay
    <2>2. CASE d = c /\ q = k
      <3>1. n <= Len(k)
        BY <1>2, <1>3, <2>2
      <3> QED BY <1>4, <2>0, <2>2, <3>1, PrefixIsAncestor
    <2>3. CASE d = c /\ q \in Branches(c)
      <3>1. Ancestor(Upto(q, n), h)
        BY <1>1, <2>3 DEF DeepBlocksStay
      <3>2. Upto(q, n) = Upto(h, n)
        BY <2>0, <3>1 DEF Ancestor
      <3>3. n \in 1..m
        <4>1. Len(q) \in Nat
          BY <2>0, UptoFull
        <4> QED BY <1>2, <2>0, <2>3, <4>1, Bounds
      <3>4. n <= Len(k) /\ Upto(q, n) = Upto(k, n)
        BY <1>3, <3>2, <3>3
      <3> QED BY <1>4, <2>0, <2>3, <3>4, PrefixIsAncestor
    <2> QED BY <1>5, <2>1, <2>2, <2>3
  <1>11. ChainTables'
    BY <1>1, <1>4 DEF ChainTables
  <1> QED BY <1>6, <1>7, <1>8, <1>9, <1>10, <1>11 DEF ChainsInv

------------------------------------------------------------------------------
(* The initial state.                                                       *)

LEMMA InitChains ==
    ASSUME ChainsInit
    PROVE  ChainsInv
  <1>1. ChainTables
    BY Bounds DEF ChainsInit, ChainTables
  <1>2. ASSUME NEW c \in Live
        PROVE  /\ Branches(c) = {StartOf(c)} /\ chain[c] = StartOf(c)
               /\ top[c] = StartNumber[c] + 1 /\ StartNumber[c] \in Nat
    BY Bounds DEF ChainsInit, Branches
  <1> DEFINE E == EthereumStart
             N == StartNumber[ETH] + 1
  <1>3. /\ IsSeq(E) /\ Len(E) = N /\ N \in Nat \ {0}
        /\ \A i \in 1..N : E[i].chain = ETH /\ E[i].posted \in Int
    <2>1. N \in Nat \ {0} /\ StartNumber[LINEA_CHAIN_ID] \in Nat /\ ReorgLimit \in Nat
      BY <1>2, Bounds
    <2>2. \A i \in 1..N : E[i].chain = ETH /\ E[i].posted \in Int
      BY <2>1 DEF EthereumStart, ETH
    <2>3. E = [i \in 1..N |-> E[i]]
      BY DEF EthereumStart, ETH
    <2> QED BY <2>1, <2>2, <2>3, FunctionIsSeq
  <1>4. ASSUME NEW c \in Live
        PROVE  /\ IsSeq(StartOf(c)) /\ Len(StartOf(c)) = StartNumber[c] + 1
               /\ \A i \in 1..(StartNumber[c] + 1) :
                      /\ StartOf(c)[i].chain = c
                      /\ is_opstack_chain(c) => StartOf(c)[i].origin = Upto(E, i)
    <2> DEFINE h == StartOf(c)
               n == StartNumber[c] + 1
    <2>1. CASE c = ETH
      <3>1. h = E /\ ~is_opstack_chain(c)
        BY <2>1, Ids DEF StartOf
      <3> QED BY <1>3, <2>1, <3>1
    <2>2. CASE c # ETH
      <3>1. /\ h = [i \in 1..n |-> h[i]]
            /\ \A i \in 1..n : /\ h[i].chain = c
                               /\ is_opstack_chain(c) => h[i].origin = Upto(E, i)
        BY <2>2, Ids DEF StartOf, LineaBlock
      <3>2. n \in Nat
        BY <1>2
      <3> HIDE DEF h, n
      <3> QED BY <3>1, <3>2, FunctionIsSeq DEF h, n
    <2> QED BY <2>1, <2>2
  <1>5. BranchesTyped
    <2> SUFFICES ASSUME NEW c \in Live, NEW h \in Branches(c)
                 PROVE  IsSeq(h) /\ Len(h) \in 1..top[c] /\ h[1].chain = c
      BY DEF BranchesTyped
    <2>1. h = StartOf(c) /\ top[c] = StartNumber[c] + 1 /\ StartNumber[c] \in Nat
      BY <1>2
    <2>2. IsSeq(h) /\ Len(h) = StartNumber[c] + 1
      BY <1>4, <2>1
    <2>3. 1 \in 1..(StartNumber[c] + 1)
      BY <2>1
    <2>4. h[1].chain = c
      BY <1>4, <2>1, <2>3
    <2> QED BY <2>1, <2>2, <2>4
  <1>6. OriginsPublished
    <2> SUFFICES ASSUME NEW c \in Live, is_opstack_chain(c), NEW h \in Branches(c),
                        NEW n \in 1..Len(h)
                 PROVE  h[n].origin \in Published(ETH)
      BY DEF OriginsPublished
    <2>1. h = StartOf(c) /\ n \in 1..(StartNumber[c] + 1) /\ h[n].origin = Upto(E, n)
      BY <1>2, <1>4
    <2>2. n \in 1..N
      <3>1. StartNumber[c] <= StartNumber[ETH] /\ StartNumber[c] \in Nat /\ StartNumber[ETH] \in Nat
        <4>1. StartNumber[c] <= StartNumber[ETH]
          BY StartBounds
        <4> QED BY <4>1, Bounds
      <3> QED BY <2>1, <3>1
    <2>3. chain[ETH] = E
      BY <1>2, Ids DEF StartOf
    <2> QED BY <1>3, <1>5, <2>1, <2>2, <2>3, Ids, BranchPublished
  <1>7. PostedTyped
    <2>1. Branches(ETH) = {E}
      BY <1>2, Ids DEF StartOf
    <2> QED BY <1>3, <2>1 DEF PostedTyped
  <1>8. DeepBlocksStay
    <2> SUFFICES ASSUME NEW c \in Live, NEW h \in Branches(c), NEW n \in 1..Len(h)
                 PROVE  Ancestor(Upto(h, n), chain[c])
      BY DEF DeepBlocksStay
    <2>1. h = chain[c] /\ Len(Upto(h, n)) = n /\ Len(h) \in Nat
      BY <1>2, <1>4, UptoProps, UptoFull
    <2> QED BY <2>1, PrefixIsAncestor
  <1> QED BY <1>1, <1>5, <1>6, <1>7, <1>8 DEF ChainsInv

LEMMA InitIInv ==
    ASSUME Init
    PROVE  IInv
  <1>1. ChainsInv
    BY InitChains DEF Init
  <1>2. HostInv
    BY DEF Init, HostInit, HostInv, NothingRead
  <1>3. JournalDeep
    BY DEF Init, JournalDeep, Committed
  <1> QED BY <1>1, <1>2, <1>3 DEF IInv

------------------------------------------------------------------------------
(* What a request reads of is there.                                        *)

LEMMA RequestChains ==
    ASSUME request \in Requests
    PROVE  /\ id \in Live /\ LinkingChain \in Live
           /\ Watched.chains \subseteq Live
           /\ EthereumOf(id) = ETH
           /\ get_default_sequencer_chain(id \in SepoliaIds) \in Live
           /\ is_opstack_chain(get_default_sequencer_chain(id \in SepoliaIds))
  <1>1. id \in Live
    BY RequestsAssumption DEF id
  <1> QED BY <1>1, Ids DEF LinkingChain, Watched, ETH

LEMMA ChainMovesKeeps ==
    ASSUME IInv, ChainMoves
    PROVE  IInv'
  <1>1. /\ ChainsInv /\ HostInv /\ JournalDeep
        /\ UNCHANGED <<request, step, got, journal>>
    BY DEF IInv, ChainMoves, hostVars
  <1>2. ChainsInv' /\ \A d \in Live : Published(d) \subseteq Published(d)'
    <2>1. PICK c \in Watched.chains : Grow(c, Watched) \/ Reorg(c)
      BY DEF ChainMoves
    <2>2. c \in Live
      BY <1>1, RequestChains DEF HostInv
    <2> QED BY <1>1, <2>1, <2>2, GrowKeeps, ReorgKeeps
  <1>3. HostInv'
    <2>1. LinkingChain' = LinkingChain /\ LinkingChain \in Live
      BY <1>1, RequestChains DEF HostInv, LinkingChain, settled, inclusion, id
    <2> QED BY <1>1, <1>2, <2>1 DEF HostInv
  <1>4. JournalDeep'
    BY <1>1, <1>2 DEF JournalDeep, Committed, Deep
  <1> QED BY <1>2, <1>3, <1>4 DEF IInv

------------------------------------------------------------------------------
(* The host reads.                                                          *)

\* A block asked for by number is published.
LEMMA ReadIsPublished ==
    ASSUME ChainsInv, NEW c \in Live, NEW n \in Nat, Exists(c, n)
    PROVE  /\ AtNumber(c, n) \in Published(c)
           /\ is_opstack_chain(c) => Number(Tip(AtNumber(c, n)).origin) \in Nat
           /\ c = ETH => Tip(AtNumber(c, n)).posted \in Int
  <1>1. /\ BranchesTyped /\ chain[c] \in Branches(c) /\ IsSeq(chain[c])
        /\ n + 1 \in 1..Len(chain[c])
    BY HeadProps DEF ChainsInv, Exists
  <1>2. AtNumber(c, n) \in Published(c)
    BY <1>1, BranchPublished DEF AtNumber
  <1>3. Tip(AtNumber(c, n)) = chain[c][n + 1]
    BY <1>1, UptoProps DEF AtNumber, Tip
  <1>4. ASSUME is_opstack_chain(c) PROVE Number(Tip(AtNumber(c, n)).origin) \in Nat
    <2>1. chain[c][n + 1].origin \in Published(ETH)
      BY <1>1, <1>4 DEF ChainsInv, OriginsPublished
    <2>2. Len(chain[c][n + 1].origin) \in Nat \ {0}
      BY <1>1, <2>1, PublishedProps, Ids
    <2> QED BY <1>3, <2>2 DEF Number
  <1>5. c = ETH => Tip(AtNumber(c, n)).posted \in Int
    BY <1>1, <1>3 DEF ChainsInv, PostedTyped
  <1> QED BY <1>2, <1>4, <1>5

LEMMA Updates ==
    ASSUME NEW r, {"block", "linking", "asked"} \subseteq DOMAIN r, NEW what, NEW url
    PROVE  /\ {"block", "linking", "asked"} \subseteq DOMAIN Asks(r, what, url)
           /\ Asks(r, what, url).block = r.block
           /\ Asks(r, what, url).linking = r.linking
           /\ Asks(r, what, url).asked = r.asked \cup {[what |-> what, url |-> url]}
  BY DEF Asks

LEMMA ReadKeeps ==
    ASSUME ChainsInv, HostInv, Read, UNCHANGED chainVars
    PROVE  HostInv'
  <1> DEFINE via == get_default_sequencer_chain(id \in SepoliaIds)
             Asked(what, url) == Asks(got, what, url)
  <1>1. /\ request \in Requests /\ {"block", "linking", "asked"} \subseteq DOMAIN got
        /\ got.block \in Int /\ (step # "fetch" => got.block \in Nat)
        /\ got.linking \subseteq Published(LinkingChain)
    BY DEF HostInv
  <1>2. /\ id \in Live /\ via \in Live /\ is_opstack_chain(via)
        /\ LinkingChain \in Live /\ EthereumOf(id) = ETH /\ ETH \in Live
    BY <1>1, RequestChains, Ids
  <1>3. ASSUME NEW next, NEW facts, Goto(next, facts),
               {"block", "linking", "asked"} \subseteq DOMAIN facts,
               facts.block \in Int, next # "fetch" => facts.block \in Nat,
               facts.linking \subseteq Published(LinkingChain)
        PROVE  HostInv'
    <2>1. request' = request /\ LinkingChain' = LinkingChain
      BY <1>3 DEF Goto, LinkingChain, settled, inclusion, id
    <2>2. Published(LinkingChain)' = Published(LinkingChain)
      BY <2>1 DEF chainVars, Published, Branches
    <2> QED BY <1>1, <1>3, <2>1, <2>2 DEF Goto, HostInv
  <1>4. \A c \in Live : Number(chain[c]) \in Nat
    BY HeadProps DEF ChainsInv, Number
  <1>5. CASE get_sequencer_commitments_and_blocks
    <2> DEFINE c == IF is_opstack_chain(id) /\ ~inclusion THEN id ELSE via
               commitment == get_current_sequencer_commitment(c)
    <2>1. ExecutionPayload(commitment).block_number \in Nat
      BY <1>2, <1>4 DEF get_current_sequencer_commitment, SignedCommitment, ExecutionPayload
    <2>2. ASSUME NEW next, NEW url,
                 Goto(next, [Asked("commitment", url) EXCEPT
                                 !.commitment = commitment,
                                 !.block = ExecutionPayload(commitment).block_number])
          PROVE  HostInv'
      <3> DEFINE n == ExecutionPayload(commitment).block_number
                 r == Asked("commitment", url)
                 facts == [r EXCEPT !.commitment = commitment, !.block = n]
      <3>1. /\ {"block", "linking", "asked"} \subseteq DOMAIN facts
            /\ facts.block = n /\ facts.linking = got.linking
        <4>1. {"block", "linking", "asked"} \subseteq DOMAIN r /\ r.linking = got.linking
          BY <1>1, Updates
        <4> HIDE DEF commitment, n, r
        <4> QED BY <4>1
      <3>2. n \in Nat /\ Goto(next, facts)
        BY <2>1, <2>2
      <3> HIDE DEF facts, n, commitment
      <3> QED BY <1>1, <1>3, <3>1, <3>2
    <2>3. ASSUME NEW next, NEW url,
                 Goto(next, [Asked("head", url) EXCEPT !.block = Number(chain[id])])
          PROVE  HostInv'
      BY <1>1, <1>2, <1>3, <1>4, <2>3, Updates
    <2> QED BY <1>5, <2>2, <2>3 DEF get_sequencer_commitments_and_blocks
  <1>6. CASE get_l1block_hash
    <2>1. PICK next, url : /\ Goto(next, [Asked("l1block", url) EXCEPT
                                               !.env_op_input = AtNumber(via, got.block)])
                           /\ step # "fetch"
      BY <1>6 DEF get_l1block_hash
    <2> QED BY <1>1, <1>3, <2>1, Updates
  <1>7. CASE get_l1block_number
    <2>1. PICK next : /\ Goto(next, [got EXCEPT
                                        !.block = Number(Tip(AtNumber(via, got.block)).origin)])
                      /\ step # "fetch" /\ Exists(via, got.block)
      BY <1>7 DEF get_l1block_number
    <2>2. Number(Tip(AtNumber(via, got.block)).origin) \in Nat
      BY <1>1, <1>2, <2>1, ReadIsPublished
    <2> QED BY <1>1, <1>3, <2>1, <2>2
  <1>8. CASE get_env_input_for_linea_l1_call
    <2> DEFINE env == AtNumber(ETH, got.block)
    <2>1. PICK url : /\ Goto("fetch", [Asked("l1env", url) EXCEPT
                                            !.env_eth_input = env, !.block = Tip(env).posted])
                     /\ step # "fetch" /\ Exists(ETH, got.block)
      BY <1>2, <1>8 DEF get_env_input_for_linea_l1_call
    <2>2. Tip(env).posted \in Int
      BY <1>1, <1>2, <2>1, ReadIsPublished
    <2> DEFINE n == Tip(env).posted
               r == Asked("l1env", url)
               facts == [r EXCEPT !.env_eth_input = env, !.block = n]
    <2>3. /\ {"block", "linking", "asked"} \subseteq DOMAIN facts
          /\ facts.block = n /\ facts.linking = got.linking
      <3>1. {"block", "linking", "asked"} \subseteq DOMAIN r /\ r.linking = got.linking
        BY <1>1, Updates
      <3> HIDE DEF env, n, r
      <3> QED BY <3>1
    <2>4. Goto("fetch", facts)
      BY <2>1
    <2> HIDE DEF facts, env
    <2> QED BY <1>1, <1>3, <2>2, <2>3, <2>4
  <1>9. CASE get_env_input_for_l1_inclusion
    <2>1. PICK env, url : /\ Goto("game", [Asked("l1env", url) EXCEPT !.env_eth_input = env])
                          /\ step # "fetch"
      BY <1>9 DEF get_env_input_for_l1_inclusion
    <2> QED BY <1>1, <1>3, <2>1, Updates
  <1>10. CASE get_env_input_for_opstack_dispute_game
    <2>1. PICK next, env, url : /\ Goto(next, [Asked("game", url) EXCEPT !.op_checked = env])
                                /\ step # "fetch"
      BY <1>10 DEF get_env_input_for_opstack_dispute_game
    <2> QED BY <1>1, <1>3, <2>1, Updates
  <1>11. CASE get_linking_block
    <2>1. PICK n, url :
             /\ n \in LinkingNumbers(got.block)
             /\ CanSubtract /\ Exists(LinkingChain, n)
             /\ Goto("fetch", [Asked("linking", url) EXCEPT
                                   !.linking = @ \cup {AtNumber(LinkingChain, n)}])
      BY <1>11 DEF get_linking_block
    <2>2. n \in Nat
      <3>1. get_reorg_protection_depth(LinkingChain) = 2
        BY <1>2, Ids
      <3> QED BY <1>1, <2>1, <3>1 DEF LinkingNumbers, CanSubtract
    <2>3. AtNumber(LinkingChain, n) \in Published(LinkingChain)
      BY <1>2, <2>1, <2>2, ReadIsPublished
    <2> QED BY <1>1, <1>3, <2>1, <2>3, Updates
  <1>12. CASE get_game_call_input
    <2>1. PICK env, url : Goto("fetch", [Asked("call", url) EXCEPT !.op_evm_input = env])
      BY <1>12 DEF get_game_call_input
    <2> QED BY <1>1, <1>3, <2>1, Updates
  <1>13. CASE get_proof_data_call_input
    <2>1. PICK env, url : Goto("fetch", [Asked("call", url) EXCEPT !.env_input = env])
      BY <1>13 DEF get_proof_data_call_input
    <2> QED BY <1>1, <1>3, <2>1, Updates
  <1>14. CASE Panic
    BY <1>3, <1>14 DEF Panic, NothingRead
  <1> QED BY <1>5, <1>6, <1>7, <1>8, <1>9, <1>10, <1>11, <1>12, <1>13, <1>14 DEF Read

------------------------------------------------------------------------------
(* The guest accepts.                                                       *)

\* What the linking blocks show of the environment that a journal is read from.
LEMMA Accepted ==
    ASSUME NEW i, i.chain_id \in Live, GuestAccepts(i),
           NEW k, k = Len(i.linking_blocks), DOMAIN i.linking_blocks = 1..k, k \in Nat
    PROVE  /\ k >= 2
           /\ JournalOf(i).env = ParentHash(i.linking_blocks[1])
           /\ i.linking_blocks[1] = ParentHash(i.linking_blocks[2])
           /\ JournalOf(i).env # None
  <1> DEFINE p == sort_and_verify_relevant_params(i)
             l == i.linking_blocks
  <1>1. /\ p.there /\ validate_chain_length(p.lengthChain, p.env, l, ValidatedHash(i, p))
        /\ JournalOf(i).env = p.env
    BY DEF GuestAccepts, validate_get_proof_data_call, JournalOf
  <1>2. p.lengthChain \in Live /\ (p.there => p.env # None)
    BY Ids DEF sort_and_verify_relevant_params
  <1> HIDE DEF p
  <1>3. /\ k >= 2
        /\ \A j \in 1..k : ParentHash(l[j]) = IF j = 1 THEN p.env ELSE l[j - 1]
    BY <1>1, <1>2, Ids DEF validate_chain_length
  <1>4. ParentHash(l[1]) = p.env /\ ParentHash(l[2]) = l[1]
    <2>1. 1 \in 1..k /\ 2 \in 1..k
      BY <1>3
    <2> QED BY <1>3, <2>1
  <1> QED BY <1>1, <1>2, <1>3, <1>4

\* The header that is validated is the last of the linking blocks.
LEMMA LinkedHeader ==
    ASSUME NEW i, NEW k \in Nat, k >= 2, DOMAIN i.linking_blocks = 1..k
    PROVE  sort_and_verify_relevant_params(i).header = Tip(i.linking_blocks)
  <1>1. i.linking_blocks # <<>>
    <2>1. 1 \in 1..k
      OBVIOUS
    <2>2. DOMAIN i.linking_blocks # {}
      BY <2>1
    <2>3. DOMAIN <<>> = {}
      OBVIOUS
    <2> QED BY <2>2, <2>3
  <1> QED BY <1>1 DEF sort_and_verify_relevant_params

LEMMA EmptyPrefix ==
    ASSUME NEW h, NEW n \in Int, n < 1
    PROVE  Upto(h, n) = None
  BY SubSeqEmpty DEF Upto, None

\* Another prover's headers are linked up to a published block.
LEMMA OtherIsDeep ==
    ASSUME ChainsInv, NEW i, i.chain_id \in Live, GuestAccepts(i),
           NEW c \in Live, NEW head \in Published(c), NEW k \in 0..(Len(head) - 1),
           i.linking_blocks = LinkedUpto(head, k)
    PROVE  Under(JournalOf(i).env, head) /\ sort_and_verify_relevant_params(i).header = head
  <1> DEFINE L == Len(head)
  <1>1. /\ IsSeq(head) /\ L \in Nat \ {0} /\ k \in Nat
        /\ DOMAIN i.linking_blocks = 1..k /\ Len(i.linking_blocks) = k
        /\ \A j \in 1..k : i.linking_blocks[j] = Upto(head, L - k + j)
    BY PublishedProps DEF ChainsInv, LinkedUpto
  <1>2. k >= 2 /\ JournalOf(i).env = ParentHash(i.linking_blocks[1])
    BY <1>1, Accepted
  <1>3. ParentHash(Upto(head, L - k + 1)) = Upto(head, L - k)
    <2>1. L - k + 1 \in 1..L /\ L - k \in 1..(L - k + 1) /\ L - k + 1 - 1 = L - k
      BY <1>1, <1>2
    <2>2. Len(Upto(head, L - k + 1)) = L - k + 1
      BY <1>1, <2>1, UptoProps
    <2>3. Upto(Upto(head, L - k + 1), L - k) = Upto(head, L - k)
      BY <1>1, <2>1, UptoProps
    <2> QED BY <2>1, <2>2, <2>3 DEF ParentHash
  <1>4. i.linking_blocks[1] = Upto(head, L - k + 1)
    <2>1. 1 \in 1..k
      BY <1>1, <1>2
    <2> HIDE DEF L
    <2> QED BY <1>1, <2>1
  <1>5. L - k \in 1..L /\ (L - k) + ReorgLimit <= L
    <2>1. ReorgLimit \in Nat /\ ReorgLimit <= 2
      BY Ids, Bounds
    <2>2. L \in Nat \ {0} /\ k \in 0..(L - 1) /\ k >= 2
      BY <1>1, <1>2
    <2> HIDE DEF L
    <2> QED BY <2>1, <2>2
  <1>6. Under(JournalOf(i).env, head)
    BY <1>2, <1>3, <1>4, <1>5 DEF Under
  <1>7. sort_and_verify_relevant_params(i).header = Tip(i.linking_blocks)
    BY <1>1, <1>2, LinkedHeader
  <1>8. Tip(i.linking_blocks) = head
    <2>1. k \in 1..k /\ L - k + k = L
      BY <1>1, <1>2
    <2>2. Tip(i.linking_blocks) = Upto(head, L - k + k)
      <3> HIDE DEF L
      <3> QED BY <1>1, <2>1 DEF Tip
    <2> QED BY <1>1, <2>1, <2>2, UptoFull
  <1> QED BY <1>6, <1>7, <1>8

\* The host's headers are two published blocks.
LEMMA HostIsDeep ==
    ASSUME ChainsInv, NEW i, i.chain_id \in Live, GuestAccepts(i),
           NEW c \in Live, NEW l, l = i.linking_blocks, DOMAIN l = 1..2, Len(l) = 2,
           l[1] \in Published(c), l[2] \in Published(c)
    PROVE  Under(JournalOf(i).env, l[2]) /\ sort_and_verify_relevant_params(i).header = l[2]
  <1> DEFINE L == Len(l[2])
             e == JournalOf(i).env
  <1>1. e = ParentHash(l[1]) /\ l[1] = ParentHash(l[2]) /\ e # None
    BY Accepted
  <1>2. /\ IsSeq(l[1]) /\ Len(l[1]) \in Nat \ {0}
        /\ IsSeq(l[2]) /\ L \in Nat \ {0}
    BY PublishedProps DEF ChainsInv
  <1> HIDE DEF e
  <1>3. l[1] = Upto(l[2], L - 1) /\ e = Upto(l[1], Len(l[1]) - 1)
    BY <1>1 DEF ParentHash
  <1>4. L - 1 \in 1..L
    <2>1. L - 1 < 1 => l[1] = <<>>
      BY <1>2, <1>3, EmptyPrefix DEF None
    <2> QED BY <1>2, <2>1
  <1>5. Len(l[1]) = L - 1
    BY <1>2, <1>3, <1>4, UptoProps
  <1>6. L - 2 \in 1..(L - 1)
    <2>1. L - 2 < 1 => e = None
      BY <1>2, <1>3, <1>5, EmptyPrefix
    <2> QED BY <1>1, <1>2, <2>1 DEF e
  <1>7. e = Upto(l[2], L - 2)
    <2>1. Upto(Upto(l[2], L - 1), L - 2) = Upto(l[2], L - 2)
      BY <1>2, <1>4, <1>6, UptoProps
    <2> QED BY <1>2, <1>3, <1>5, <2>1
  <1>8. L - 2 \in 1..L /\ (L - 2) + ReorgLimit <= L
    <2>1. ReorgLimit \in Nat /\ ReorgLimit <= 2
      BY Ids, Bounds
    <2> HIDE DEF L
    <2> QED BY <1>2, <1>6, <2>1
  <1>9. Under(e, l[2])
    BY <1>7, <1>8 DEF Under
  <1>10. sort_and_verify_relevant_params(i).header = Tip(l) /\ Tip(l) = l[2]
    <2>1. 2 \in Nat /\ 2 >= 2 /\ DOMAIN i.linking_blocks = 1..2
      OBVIOUS
    <2>2. sort_and_verify_relevant_params(i).header = Tip(i.linking_blocks)
      BY <2>1, LinkedHeader
    <2> QED BY <2>2 DEF Tip
  <1> QED BY <1>9, <1>10 DEF e

LEMMA HostLinksTwo ==
    ASSUME HostInv, AllFetched
    PROVE  /\ DOMAIN LinkingBlocks = 1..2 /\ Len(LinkingBlocks) = 2
           /\ LinkingBlocks[1] \in Published(LinkingChain)
           /\ LinkingBlocks[2] \in Published(LinkingChain)
           /\ \A j \in 1..2 : /\ LinkingBlocks[j] \in got.linking
                              /\ Number(LinkingBlocks[j]) = got.block - 2 + j
  <1> DEFINE ns    == LinkingNumbers(got.block)
             first == CHOOSE n \in ns : \A m \in ns : n <= m
  <1>1. got.block \in Int /\ ns = (got.block - 1)..got.block
    <2>1. get_reorg_protection_depth(LinkingChain) = 2
      BY RequestChains, Ids DEF HostInv
    <2> QED BY <2>1 DEF HostInv, LinkingNumbers
  <1>2. first = got.block - 1
    <2> HIDE DEF ns
    <2>1. \E n \in ns : \A m \in ns : n <= m
      <3>1. got.block - 1 \in ns /\ \A m \in ns : got.block - 1 <= m
        BY <1>1
      <3> QED BY <3>1
    <2>2. first \in ns /\ \A m \in ns : first <= m
      BY <2>1
    <2> QED BY <1>1, <2>2
  <1> DEFINE At(j) == CHOOSE h \in got.linking : Number(h) = first + j - 1
  <1>3. LinkingBlocks = [j \in 1..(got.block - first + 1) |-> At(j)]
    BY DEF LinkingBlocks
  <1>4. ASSUME NEW j \in 1..2
        PROVE  /\ At(j) \in Published(LinkingChain) /\ At(j) \in got.linking
               /\ Number(At(j)) = got.block - 2 + j
    <2>1. first + j - 1 \in ns /\ first + j - 1 = got.block - 2 + j
      BY <1>1, <1>2
    <2> HIDE DEF first
    <2>2. \E h \in got.linking : Number(h) = first + j - 1
      BY <2>1 DEF AllFetched
    <2>3. At(j) \in got.linking /\ Number(At(j)) = first + j - 1
      BY <2>2
    <2> QED BY <2>1, <2>3 DEF HostInv
  <1>5. LinkingBlocks = [j \in 1..2 |-> At(j)]
    <2> HIDE DEF At, first
    <2>1. got.block - first + 1 = 2
      BY <1>1, <1>2
    <2> QED BY <1>3, <2>1
  <1> HIDE DEF At
  <1> QED BY <1>4, <1>5

\* A commitment keeps the invariant if what the guest accepts is deep.
LEMMA CommitKeeps ==
    ASSUME IInv, UNCHANGED chainVars, got.block \in Nat, NEW i,
           \/ Commit(i)
           \/ UNCHANGED journal /\ Goto("refused", got),
           GuestAccepts(i) => Deep(JournalOf(i).env)
    PROVE  IInv'
  <1>1. ChainsInv /\ HostInv /\ JournalDeep
    BY DEF IInv
  <1>2. request' = request /\ got' = got /\ LinkingChain' = LinkingChain
    BY DEF Commit, Goto, LinkingChain, settled, inclusion, id
  <1>3. \A c : Published(c)' = Published(c) /\ Branches(c)' = Branches(c)
    BY DEF chainVars, Published, Branches
  <1>4. ChainsInv'
    BY <1>1, <1>3 DEF ChainsInv, ChainTables, BranchesTyped, OriginsPublished, PostedTyped,
       DeepBlocksStay, chainVars
  <1>5. HostInv'
    BY <1>1, <1>2, <1>3 DEF HostInv
  <1>6. JournalDeep'
    <2>1. CASE UNCHANGED journal
      BY <1>1, <1>3, <2>1 DEF JournalDeep, Committed, Deep
    <2>2. CASE GuestAccepts(i) /\ journal' = JournalOf(i)
      BY <1>3, <2>2 DEF JournalDeep, Committed, Deep
    <2> QED BY <2>1, <2>2 DEF Commit
  <1> QED BY <1>4, <1>5, <1>6 DEF IInv

LEMMA HostProvesKeeps ==
    ASSUME IInv, HostProves
    PROVE  IInv'
  <1>1. ChainsInv /\ HostInv
    BY DEF IInv
  <1>2. id \in Live /\ LinkingChain \in Live
    BY <1>1, RequestChains DEF HostInv
  <1>3. got.block \in Nat
    <2>1. got.block >= 2
      <3>1. got.block >= get_reorg_protection_depth(LinkingChain)
        BY DEF HostProves, AllFetched, CanSubtract
      <3>2. get_reorg_protection_depth(LinkingChain) = 2
        BY <1>2, Ids
      <3> QED BY <3>1, <3>2
    <2>2. got.block \in Int
      BY <1>1 DEF HostInv
    <2> QED BY <2>1, <2>2
  <1>4. ZkvmInput.chain_id = id /\ ZkvmInput.linking_blocks = LinkingBlocks
    BY DEF ZkvmInput
  <1>5. GuestAccepts(ZkvmInput) => Deep(JournalOf(ZkvmInput).env)
    <2>1. /\ DOMAIN LinkingBlocks = 1..2 /\ Len(LinkingBlocks) = 2
          /\ LinkingBlocks[1] \in Published(LinkingChain)
          /\ LinkingBlocks[2] \in Published(LinkingChain)
      BY <1>1, HostLinksTwo DEF HostProves
    <2>2. GuestAccepts(ZkvmInput) => Under(JournalOf(ZkvmInput).env, LinkingBlocks[2])
      BY <1>1, <1>2, <1>4, <2>1, HostIsDeep
    <2> QED BY <1>2, <2>1, <2>2 DEF Deep
  <1> QED BY <1>3, <1>5, CommitKeeps DEF HostProves

\* Whatever another prover links its headers up to is published.
LEMMA LinkedHeadsPublished ==
    ASSUME ChainsInv, request \in Requests, NEW head \in LinkedHeads
    PROVE  \E c \in Live : head \in Published(c)
  <1> DEFINE via == get_default_sequencer_chain(FALSE)
  <1>1. CASE is_ethereum_chain(LinkingChain)
    <2>1. PICK h \in Published(via) : head = Tip(h).origin
      BY <1>1 DEF LinkedHeads
    <2>2. via \in Live /\ is_opstack_chain(via) /\ ETH \in Live
      BY Ids
    <2> HIDE DEF via
    <2>3. PICK b \in Branches(via) : /\ Len(h) \in 1..Len(b)
                                     /\ \A n \in 1..Len(h) : h[n] = b[n]
      BY <2>1, <2>2, PublishedProps DEF ChainsInv
    <2>4. Len(h) \in 1..Len(h)
      BY <2>1, <2>2, PublishedProps DEF ChainsInv
    <2>5. head = b[Len(h)].origin
      BY <2>1, <2>3, <2>4 DEF Tip
    <2> QED BY <2>2, <2>3, <2>5 DEF ChainsInv, OriginsPublished
  <1>2. CASE ~is_ethereum_chain(LinkingChain)
    BY <1>2 DEF LinkedHeads, PublishedKin, Kin
  <1> QED BY <1>1, <1>2

LEMMA OtherProvesKeeps ==
    ASSUME IInv, OtherProves
    PROVE  IInv'
  <1>1. ChainsInv /\ HostInv
    BY DEF IInv
  <1>2. id \in Live /\ request \in Requests
    BY <1>1, RequestChains DEF HostInv
  <1>3. PICK i : /\ \E head \in LinkedHeads : \E k \in 0..(Len(head) - 1) :
                        i.linking_blocks = LinkedUpto(head, k)
                 /\ i.chain_id = id /\ GuestAccepts(i) /\ Commit(i)
    BY DEF OtherProves
  <1>4. PICK head \in LinkedHeads : \E k \in 0..(Len(head) - 1) :
               i.linking_blocks = LinkedUpto(head, k)
    BY <1>3
  <1>5. PICK k \in 0..(Len(head) - 1) : i.linking_blocks = LinkedUpto(head, k)
    BY <1>4
  <1>6. PICK c \in Live : head \in Published(c)
    BY <1>1, <1>2, LinkedHeadsPublished
  <1>7. Deep(JournalOf(i).env)
    <2>1. Under(JournalOf(i).env, head)
      BY <1>1, <1>2, <1>3, <1>5, <1>6, OtherIsDeep
    <2> QED BY <1>6, <2>1 DEF Deep
  <1>8. got.block \in Nat /\ UNCHANGED chainVars
    BY <1>1 DEF OtherProves, HostInv
  <1> QED BY <1>3, <1>7, <1>8, CommitKeeps

------------------------------------------------------------------------------
(* The results.                                                             *)

LEMMA NextKeeps ==
    ASSUME IInv, [Next]_vars
    PROVE  IInv'
  <1>1. CASE ChainMoves
    BY <1>1, ChainMovesKeeps
  <1>2. CASE HostReads
    <2>1. UNCHANGED chainVars /\ UNCHANGED journal /\ Read
      BY <1>2 DEF HostReads
    <2>2. HostInv'
      BY <2>1, ReadKeeps DEF IInv
    <2>3. \A c : Published(c)' = Published(c) /\ Branches(c)' = Branches(c)
      BY <2>1 DEF chainVars, Published, Branches
    <2>4. ChainsInv' /\ JournalDeep'
      BY <2>1, <2>3 DEF IInv, ChainsInv, ChainTables, BranchesTyped, OriginsPublished,
         PostedTyped, DeepBlocksStay, chainVars, JournalDeep, Committed, Deep
    <2> QED BY <2>2, <2>4 DEF IInv
  <1>3. CASE HostProves
    BY <1>3, HostProvesKeeps
  <1>4. CASE OtherProves
    BY <1>4, OtherProvesKeeps
  <1>5. CASE UNCHANGED vars
    BY <1>5 DEF vars, chainVars, hostVars, IInv, ChainsInv, ChainTables, BranchesTyped,
       OriginsPublished, PostedTyped, DeepBlocksStay, HostInv, JournalDeep, Committed, Deep,
       Published, Branches, LinkingChain, settled, inclusion, id
  <1> QED BY <1>1, <1>2, <1>3, <1>4, <1>5 DEF Next

\* The inductive invariant: chains of published blocks, a host that holds
\* only published headers, and journals about blocks that are deep.
THEOREM InvariantHolds == Spec => []IInv
  <1>1. Init => IInv
    BY InitIInv
  <1>2. IInv /\ [Next]_vars => IInv'
    BY NextKeeps
  <1> QED BY <1>1, <1>2, PTL DEF Spec

\* A block ReorgLimit under any head there ever was stays in its chain, for
\* any number of chains, blocks and reorganisations (constants.rs:96).
THEOREM DeepStays == Spec => []DeepBlocksStay
  <1>1. IInv => DeepBlocksStay
    BY DEF IInv, ChainsInv
  <1> QED BY <1>1, InvariantHolds, PTL

\* Whatever the chains do after the proof, and whoever made it, the block
\* whose state a journal is read from stays in its chain
\* (validate_chain_length, validators.rs:1018).
THEOREM ProvenBlocksStay == Spec => []ProvenBlockStays
  <1>1. IInv => ProvenBlockStays
    BY DeepIsAncestor DEF IInv, JournalDeep, ProvenBlockStays
  <1> QED BY <1>1, InvariantHolds, PTL

------------------------------------------------------------------------------
(* Which provider serves a read.                                            *)

LEMMA UrlFallback ==
    ASSUME NEW c, NEW fallback
    PROVE  /\ RpcOf(c, fallback).fallback = fallback
           /\ get_opstack_config(c, fallback).l1_rpc_url.fallback = fallback
           /\ get_opstack_config(c, fallback).l2_rpc_url.fallback = fallback
           /\ SequencerUrl(c).fallback = request.fallback
  BY DEF RpcOf, get_rpc_url, get_opstack_config, SequencerUrl, get_sequencer_request_url

Fine(what, url) == url.fallback = request.fallback \/ (settled /\ what = "call")

\* A read asks nobody else, or one more endpoint that it may ask.
AsksFine ==
    /\ UNCHANGED request
    /\ \/ got'.asked \subseteq got.asked
       \/ \E what, url : /\ got'.asked = got.asked \cup {[what |-> what, url |-> url]}
                         /\ Fine(what, url)

LEMMA ReadAsks ==
    ASSUME "asked" \in DOMAIN got, Read
    PROVE  AsksFine
  <1>1. ASSUME NEW next, NEW facts, Goto(next, facts), facts.asked \subseteq got.asked
        PROVE  AsksFine
    BY <1>1 DEF Goto, AsksFine
  <1>2. ASSUME NEW next, NEW facts, Goto(next, facts), NEW what, NEW url,
               facts.asked = got.asked \cup {[what |-> what, url |-> url]}, Fine(what, url)
        PROVE  AsksFine
    BY <1>2 DEF Goto, AsksFine
  <1>3. ASSUME NEW what, NEW url
        PROVE  /\ "asked" \in DOMAIN Asks(got, what, url)
               /\ Asks(got, what, url).asked = got.asked \cup {[what |-> what, url |-> url]}
    BY DEF Asks
  <1>5. CASE get_sequencer_commitments_and_blocks
    <2>1. ASSUME NEW next, NEW url, NEW commitment, NEW n, Fine("commitment", url),
                 Goto(next, [Asks(got, "commitment", url) EXCEPT
                                 !.commitment = commitment, !.block = n])
          PROVE  AsksFine
      <3> DEFINE r == Asks(got, "commitment", url)
                 facts == [r EXCEPT !.commitment = commitment, !.block = n]
      <3>1. "asked" \in DOMAIN r /\ Goto(next, facts)
        BY <1>3, <2>1
      <3>2. facts.asked = r.asked
        <4> HIDE DEF r
        <4> QED BY <3>1
      <3> HIDE DEF facts
      <3> QED BY <1>2, <1>3, <2>1, <3>1, <3>2
    <2>2. ASSUME NEW next, NEW url, NEW n, Fine("head", url),
                 Goto(next, [Asks(got, "head", url) EXCEPT !.block = n])
          PROVE  AsksFine
      BY <1>2, <1>3, <2>2
    <2>3. /\ \A c : Fine("commitment", SequencerUrl(c))
          /\ Fine("head", RpcOf(id, request.fallback))
      BY UrlFallback DEF Fine
    <2> QED BY <1>5, <2>1, <2>2, <2>3 DEF get_sequencer_commitments_and_blocks
  <1>6. CASE get_l1block_hash
    <2>1. PICK next, url, env :
             /\ Goto(next, [Asks(got, "l1block", url) EXCEPT !.env_op_input = env])
             /\ Fine("l1block", url)
      <3>1. \A c : Fine("l1block", RpcOf(c, request.fallback))
        BY UrlFallback DEF Fine
      <3> QED BY <1>6, <3>1 DEF get_l1block_hash
    <2> QED BY <1>2, <1>3, <2>1
  <1>7. CASE get_l1block_number
    <2>1. PICK next, n : Goto(next, [got EXCEPT !.block = n])
      BY <1>7 DEF get_l1block_number
    <2> QED BY <1>1, <2>1
  <1>8. CASE get_env_input_for_linea_l1_call
    <2>1. PICK next, url, env, n :
             /\ Goto(next, [Asks(got, "l1env", url) EXCEPT !.env_eth_input = env, !.block = n])
             /\ Fine("l1env", url)
      <3>1. Fine("l1env", RpcOf(EthereumOf(id), request.fallback))
        BY UrlFallback DEF Fine
      <3> QED BY <1>8, <3>1 DEF get_env_input_for_linea_l1_call
    <2> DEFINE r == Asks(got, "l1env", url)
               facts == [r EXCEPT !.env_eth_input = env, !.block = n]
    <2>2. "asked" \in DOMAIN r /\ Goto(next, facts)
      BY <1>3, <2>1
    <2>3. facts.asked = r.asked
      <3> HIDE DEF r
      <3> QED BY <2>2
    <2> HIDE DEF facts
    <2> QED BY <1>2, <1>3, <2>1, <2>2, <2>3
  <1>9. CASE get_env_input_for_l1_inclusion
    <2>1. PICK next, url, env :
             /\ Goto(next, [Asks(got, "l1env", url) EXCEPT !.env_eth_input = env])
             /\ Fine("l1env", url)
      <3>1. Fine("l1env", get_opstack_config(id, request.fallback).l1_rpc_url)
        BY UrlFallback DEF Fine
      <3> QED BY <1>9, <3>1 DEF get_env_input_for_l1_inclusion
    <2> QED BY <1>2, <1>3, <2>1
  <1>10. CASE get_env_input_for_opstack_dispute_game
    <2>1. PICK next, url, env :
             /\ Goto(next, [Asks(got, "game", url) EXCEPT !.op_checked = env])
             /\ Fine("game", url)
      <3>1. Fine("game", get_opstack_config(id, request.fallback).l2_rpc_url)
        BY UrlFallback DEF Fine
      <3> QED BY <1>10, <3>1 DEF get_env_input_for_opstack_dispute_game
    <2> QED BY <1>2, <1>3, <2>1
  <1>11. CASE get_linking_block
    <2>1. PICK next, url, l :
             /\ Goto(next, [Asks(got, "linking", url) EXCEPT !.linking = l])
             /\ Fine("linking", url)
      <3>1. Fine("linking", RpcOf(LinkingChain, request.fallback))
        BY UrlFallback DEF Fine
      <3> QED BY <1>11, <3>1 DEF get_linking_block
    <2> QED BY <1>2, <1>3, <2>1
  <1>12. CASE get_game_call_input
    <2>1. PICK next, url, env : /\ Goto(next, [Asks(got, "call", url) EXCEPT !.op_evm_input = env])
                                /\ settled
      BY <1>12 DEF get_game_call_input
    <2> QED BY <1>2, <1>3, <2>1 DEF Fine
  <1>13. CASE get_proof_data_call_input
    <2>1. PICK next, url, env :
             /\ Goto(next, [Asks(got, "call", url) EXCEPT !.env_input = env])
             /\ Fine("call", url)
      <3>1. Fine("call", RpcOf(id, request.fallback))
        BY UrlFallback DEF Fine
      <3> QED BY <1>13, <3>1 DEF get_proof_data_call_input
    <2> QED BY <1>2, <1>3, <2>1
  <1>14. CASE Panic
    BY <1>1, <1>14 DEF Panic, NothingRead
  <1> QED BY <1>5, <1>6, <1>7, <1>8, <1>9, <1>10, <1>11, <1>12, <1>13, <1>14 DEF Read

\* The providers asked for serve all reads but the game's state for the
\* call, whatever is requested and however the reads interleave
\* (viewcalls.rs:1483).
THEOREM ProvidersKept == Spec => []OnlyGameCallSwitchesProvider
  <1>1. Init => OnlyGameCallSwitchesProvider
    BY DEF Init, HostInit, NothingRead, OnlyGameCallSwitchesProvider
  <1>2. ASSUME IInv, OnlyGameCallSwitchesProvider, [Next]_vars
        PROVE  OnlyGameCallSwitchesProvider'
    <2>1. ASSUME UNCHANGED request, UNCHANGED got.asked
          PROVE  OnlyGameCallSwitchesProvider'
      BY <1>2, <2>1 DEF OnlyGameCallSwitchesProvider, settled, inclusion, id
    <2>2. CASE HostReads
      <3>1. AsksFine
        BY <1>2, <2>2, ReadAsks DEF HostReads, IInv, HostInv
      <3>2. settled' = settled /\ request' = request
        BY <3>1 DEF AsksFine, settled, inclusion, id
      <3> QED BY <1>2, <3>1, <3>2 DEF OnlyGameCallSwitchesProvider, AsksFine, Fine
    <2>3. CASE ChainMoves
      BY <2>1, <2>3 DEF ChainMoves, hostVars
    <2>4. CASE HostProves
      BY <2>1, <2>4 DEF HostProves, Commit, Goto
    <2>5. CASE OtherProves
      BY <2>1, <2>5 DEF OtherProves, Commit, Goto
    <2>6. CASE UNCHANGED vars
      BY <2>1, <2>6 DEF vars, hostVars
    <2> QED BY <1>2, <2>2, <2>3, <2>4, <2>5, <2>6 DEF Next
  <1> QED BY <1>1, <1>2, InvariantHolds, PTL DEF Spec
------------------------------------------------------------------------------
(* What Ethereum keeps: posted numbers grow, and a game that was won stays  *)
(* won since then, with the claim it had.                                   *)

PortalsOf(c) == [games : [DOMAIN InitialGames[c] -> GamesOf(c)], updatedAt : Nat]

GamesKept(p, q) ==
    \A g \in DOMAIN p.games :
        /\ q.games[g].claim = p.games[g].claim
        /\ p.games[g].status = "DEFENDER_WINS" =>
               /\ q.games[g].status = "DEFENDER_WINS"
               /\ q.games[g].resolvedAt = p.games[g].resolvedAt

\* Block n of Ethereum; watched tells whether the guardian was at work.
BlockSound(b, n, watched) ==
    /\ b.posted \in Int
    /\ DOMAIN b.portals = PortalChains
    /\ \A c \in PortalChains : /\ b.portals[c] \in PortalsOf(c)
                               /\ watched => Watchful(b.portals[c], n)

Keeps(a, b) ==
    /\ a.posted <= b.posted
    /\ \A c \in PortalChains : GamesKept(a.portals[c], b.portals[c])

BranchSound(h, watched) ==
    /\ \A n \in 1..Len(h) : BlockSound(h[n], n - 1, watched)
    /\ \A n \in 1..Len(h) : \A m \in 1..n : Keeps(h[m], h[n])

EthereumSound == \A h \in Branches(ETH) : BranchSound(h, settled)

LEMMA PortalStepKept ==
    ASSUME NEW c \in PortalChains, NEW p \in PortalsOf(c), NEW t \in Nat,
           NEW q \in PortalSteps(p, t)
    PROVE  q \in PortalsOf(c) /\ Watchful(q, t) /\ GamesKept(p, q)
  <1> DEFINE D == DOMAIN InitialGames[c]
  <1>1. p.games \in [D -> GamesOf(c)] /\ p.updatedAt \in Nat /\ DOMAIN p = {"games", "updatedAt"}
    BY DEF PortalsOf
  <1>2. Watchful(q, t)
    BY DEF PortalSteps
  <1>3. ASSUME q = Retired(p, t)
        PROVE  q \in PortalsOf(c) /\ GamesKept(p, q)
    BY <1>1, <1>3 DEF PortalsOf, GamesKept, Retired
  <1>4. ASSUME NEW g \in D, NEW s \in {"DEFENDER_WINS", "CHALLENGER_WINS"},
               p.games[g].status = "IN_PROGRESS",
               q = Resolved(p, g, s, t)
        PROVE  q \in PortalsOf(c) /\ GamesKept(p, q)
    <2> DEFINE new == [[p.games[g] EXCEPT !.status = s] EXCEPT !.resolvedAt = t]
    <2>1. p.games[g] \in GamesOf(c)
      BY <1>1
    <2>2. new \in GamesOf(c) /\ new.claim = p.games[g].claim
      BY <2>1 DEF GamesOf
    <2>3. q = [p EXCEPT !.games = [p.games EXCEPT ![g] = new]]
      BY <1>1, <1>4 DEF Resolved
    <2> HIDE DEF new
    <2>4. q.games = [p.games EXCEPT ![g] = new] /\ q \in PortalsOf(c)
      BY <1>1, <2>2, <2>3 DEF PortalsOf
    <2>5. "IN_PROGRESS" # "DEFENDER_WINS"
      OBVIOUS
    <2> QED BY <1>1, <1>4, <2>2, <2>4, <2>5 DEF GamesKept
  <1>5. ASSUME NEW g \in D, q = Blacklisted(p, g)
        PROVE  q \in PortalsOf(c) /\ GamesKept(p, q)
    <2> DEFINE new == [p.games[g] EXCEPT !.blacklisted = TRUE]
    <2>1. p.games[g] \in GamesOf(c)
      BY <1>1
    <2>2. /\ new \in GamesOf(c) /\ new.claim = p.games[g].claim
          /\ new.status = p.games[g].status /\ new.resolvedAt = p.games[g].resolvedAt
      BY <2>1 DEF GamesOf
    <2>3. q = [p EXCEPT !.games = [p.games EXCEPT ![g] = new]]
      BY <1>1, <1>5 DEF Blacklisted
    <2> HIDE DEF new
    <2>4. q.games = [p.games EXCEPT ![g] = new] /\ q \in PortalsOf(c)
      BY <1>1, <2>2, <2>3 DEF PortalsOf
    <2> QED BY <1>1, <2>2, <2>4 DEF GamesKept
  <1>6. ASSUME q = p PROVE q \in PortalsOf(c) /\ GamesKept(p, q)
    BY <1>6 DEF GamesKept
  <1>7. \/ q = p \/ q = Retired(p, t)
        \/ \E g \in D, s \in {"DEFENDER_WINS", "CHALLENGER_WINS"} :
             /\ p.games[g].status = "IN_PROGRESS"
             /\ q = Resolved(p, g, s, t)
        \/ \E g \in D : q = Blacklisted(p, g)
    <2>1. DOMAIN p.games = D
      BY <1>1
    <2>2. q \in PortalChanges(p, t)
      BY DEF PortalSteps
    <2> QED BY <2>1, <2>2 DEF PortalChanges
  <1> QED BY <1>2, <1>3, <1>4, <1>5, <1>6, <1>7

LEMMA KeepsTransitive ==
    ASSUME NEW a, NEW b, NEW d, NEW m, NEW n, NEW k, NEW watched,
           BlockSound(a, m, watched), BlockSound(b, n, watched), BlockSound(d, k, watched),
           Keeps(a, b), Keeps(b, d)
    PROVE  Keeps(a, d) /\ Keeps(a, a)
  <1>1. a.posted \in Int /\ b.posted \in Int /\ d.posted \in Int
    BY DEF BlockSound
  <1>2. a.posted <= d.posted /\ a.posted <= a.posted
    BY <1>1 DEF Keeps
  <1>3. ASSUME NEW c \in PortalChains
        PROVE  GamesKept(a.portals[c], d.portals[c]) /\ GamesKept(a.portals[c], a.portals[c])
    <2>1. DOMAIN a.portals[c].games = DOMAIN b.portals[c].games
      BY DEF BlockSound, PortalsOf
    <2>2. GamesKept(a.portals[c], b.portals[c]) /\ GamesKept(b.portals[c], d.portals[c])
      BY DEF Keeps
    <2> QED BY <2>1, <2>2 DEF GamesKept
  <1> QED BY <1>2, <1>3 DEF Keeps

LEMMA BranchGrows ==
    ASSUME NEW h, IsSeq(h), Len(h) \in Nat \ {0}, NEW watched, BranchSound(h, watched),
           NEW b, BlockSound(b, Len(h), watched), Keeps(Tip(h), b)
    PROVE  BranchSound(Append(h, b), watched)
  <1> DEFINE k == Append(h, b)
             L == Len(h)
  <1>1. /\ Len(k) = L + 1 /\ k[L + 1] = b /\ \A j \in 1..L : k[j] = h[j]
        /\ L \in Nat \ {0}
    BY AppendProps
  <1>2. /\ \A n \in 1..L : BlockSound(h[n], n - 1, watched)
        /\ \A n \in 1..L : \A m \in 1..n : Keeps(h[m], h[n])
        /\ Tip(h) = h[L] /\ L \in 1..L
    BY DEF BranchSound, Tip
  <1> HIDE DEF k
  <1>3. ASSUME NEW n \in 1..(L + 1) PROVE BlockSound(k[n], n - 1, watched)
    <2>1. CASE n \in 1..L
      BY <1>1, <1>2, <2>1
    <2>2. CASE n = L + 1
      <3>1. n - 1 = L
        BY <1>1, <2>2
      <3> QED BY <1>1, <2>2, <3>1
    <2> QED BY <1>1, <2>1, <2>2
  <1>4. ASSUME NEW n \in 1..(L + 1), NEW m \in 1..n PROVE Keeps(k[m], k[n])
    <2>1. CASE n \in 1..L
      <3>1. m \in 1..L /\ m \in 1..n
        BY <1>1, <2>1
      <3> QED BY <1>1, <1>2, <2>1, <3>1
    <2>2. CASE n = L + 1 /\ m \in 1..L
      <3>1. Keeps(h[m], h[L]) /\ Keeps(h[L], b)
        BY <1>2, <2>2
      <3>2. BlockSound(h[m], m - 1, watched) /\ BlockSound(h[L], L - 1, watched)
        BY <1>2, <2>2
      <3>3. Keeps(h[m], b)
        BY <3>1, <3>2, KeepsTransitive
      <3> QED BY <1>1, <2>2, <3>3
    <2>3. CASE n = L + 1 /\ m = L + 1
      <3>1. b.posted <= b.posted
        BY DEF BlockSound
      <3>2. Keeps(b, b)
        BY <3>1 DEF Keeps, GamesKept
      <3> QED BY <1>1, <2>3, <3>2
    <2> QED BY <1>1, <2>1, <2>2, <2>3
  <1> QED BY <1>1, <1>3, <1>4 DEF BranchSound, k

LEMMA BranchCut ==
    ASSUME NEW h, IsSeq(h), Len(h) \in Nat, NEW n \in 1..Len(h), NEW watched, BranchSound(h, watched)
    PROVE  BranchSound(Upto(h, n), watched)
  <1>1. /\ Len(Upto(h, n)) = n /\ n \in Nat
        /\ \A j \in 1..n : Upto(h, n)[j] = h[j]
    BY UptoProps
  <1>2. \A k \in 1..n : k \in 1..Len(h) /\ \A m \in 1..k : m \in 1..n
    OBVIOUS
  <1>3. ASSUME NEW k \in 1..n
        PROVE  /\ BlockSound(Upto(h, n)[k], k - 1, watched)
               /\ \A m \in 1..k : Keeps(Upto(h, n)[m], Upto(h, n)[k])
    <2>1. /\ BlockSound(h[k], k - 1, watched)
          /\ \A m \in 1..k : Keeps(h[m], h[k])
      BY <1>2 DEF BranchSound
    <2> QED BY <1>1, <1>2, <2>1
  <1> QED BY <1>1, <1>3 DEF BranchSound

\* A new block of Ethereum.
LEMMA NewEthereumBlock ==
    ASSUME ChainsInv, EthereumSound, NEW b \in EthereumBlocks(chain[ETH], Watched)
    PROVE  BlockSound(b, Len(chain[ETH]), settled) /\ Keeps(Tip(chain[ETH]), b)
  <1> DEFINE h == chain[ETH]
             L == Len(h)
             old == Tip(h)
  <1>1. /\ L \in Nat \ {0} /\ h \in Branches(ETH)
        /\ Len(chain[LINEA_CHAIN_ID]) \in Nat /\ ReorgLimit \in Nat
    BY Ids, Bounds, HeadProps DEF ChainsInv
  <1>2. BlockSound(old, L - 1, settled)
    BY <1>1 DEF EthereumSound, BranchSound, Tip
  <1>3. Number(h) + 1 = L /\ Number(chain[LINEA_CHAIN_ID]) - ReorgLimit \in Int
    BY <1>1 DEF Number
  <1>4. b.posted \in Int /\ old.posted <= b.posted
    <2>1. b.posted = old.posted
          \/ (b.posted = Number(chain[LINEA_CHAIN_ID]) - ReorgLimit /\ b.posted > old.posted)
      BY DEF EthereumBlocks
    <2>2. old.posted \in Int
      BY <1>2 DEF BlockSound
    <2> QED BY <1>3, <2>1, <2>2
  <1>5. CASE settled
    <2>1. /\ b.portals \in [PortalChains -> UNION {PortalSteps(PortalOf(c, h), Number(h) + 1) :
                                                       c \in PortalChains}]
          /\ \A c \in PortalChains : b.portals[c] \in PortalSteps(PortalOf(c, h), Number(h) + 1)
      BY <1>5 DEF EthereumBlocks, Watched
    <2>2. ASSUME NEW c \in PortalChains
          PROVE  /\ b.portals[c] \in PortalsOf(c) /\ Watchful(b.portals[c], L)
                 /\ GamesKept(old.portals[c], b.portals[c])
      <3>1. b.portals[c] \in PortalSteps(old.portals[c], L)
        BY <1>3, <2>1 DEF PortalOf
      <3>2. old.portals[c] \in PortalsOf(c)
        BY <1>2 DEF BlockSound
      <3> HIDE DEF L, old
      <3> QED BY <1>1, <3>1, <3>2, PortalStepKept DEF L
    <2> QED BY <1>4, <2>1, <2>2 DEF BlockSound, Keeps
  <1>6. CASE ~settled
    <2>1. b.portals = old.portals
      BY <1>6 DEF EthereumBlocks, Watched
    <2> QED BY <1>2, <1>4, <1>6, <2>1 DEF BlockSound, Keeps, GamesKept
  <1> QED BY <1>5, <1>6

LEMMA ChainMovesEthereum ==
    ASSUME ChainsInv, HostInv, EthereumSound, ChainMoves
    PROVE  EthereumSound'
  <1>1. PICK c \in Watched.chains : Grow(c, Watched) \/ Reorg(c)
    BY DEF ChainMoves
  <1>2. c \in Live /\ ETH \in Live /\ settled' = settled
    BY RequestChains, Ids DEF HostInv, ChainMoves, hostVars, settled, inclusion, id
  <1>3. /\ DOMAIN chain = Live /\ DOMAIN orphans = Live
        /\ chain = [d \in Live |-> chain[d]]
    BY DEF ChainsInv, ChainTables
  <1>4. \A h \in Branches(ETH) : BranchSound(h, settled)
    BY DEF EthereumSound
  <1>5. /\ chain[ETH] \in Branches(ETH) /\ IsSeq(chain[ETH]) /\ Len(chain[ETH]) \in Nat \ {0}
    BY <1>2, HeadProps DEF ChainsInv
  <1>6. CASE Grow(c, Watched)
    <2>1. PICK b \in BlocksAfter(c, chain[c], Watched) : chain' = [chain EXCEPT ![c] = Append(@, b)]
      BY <1>6 DEF Grow
    <2>2. orphans' = orphans
      BY <1>6 DEF Grow
    <2>3. CASE c = ETH
      <3>1. b \in EthereumBlocks(chain[ETH], Watched)
        BY <2>1, <2>3, Ids DEF BlocksAfter
      <3>2. BranchSound(Append(chain[ETH], b), settled)
        BY <1>4, <1>5, <3>1, NewEthereumBlock, BranchGrows
      <3>3. Branches(ETH)' \subseteq Branches(ETH) \cup {Append(chain[ETH], b)}
        BY <1>2, <1>3, <2>1, <2>2, <2>3 DEF Branches
      <3> QED BY <1>2, <1>4, <3>2, <3>3 DEF EthereumSound
    <2>4. CASE c # ETH
      <3>1. Branches(ETH)' = Branches(ETH)
        BY <1>2, <1>3, <2>1, <2>2, <2>4 DEF Branches
      <3> QED BY <1>2, <1>4, <3>1 DEF EthereumSound
    <2> QED BY <2>3, <2>4
  <1>7. CASE Reorg(c)
    <2>1. PICK n \in 1..(Len(chain[c]) - 1) : chain' = [chain EXCEPT ![c] = Upto(@, n)]
      BY <1>7 DEF Reorg
    <2>2. orphans' = [orphans EXCEPT ![c] = @ \cup {chain[c]}]
      BY <1>7 DEF Reorg
    <2>3. CASE c = ETH
      <3>1. BranchSound(Upto(chain[ETH], n), settled)
        <4>1. n \in 1..Len(chain[ETH])
          BY <1>5, <2>1, <2>3
        <4> QED BY <1>4, <1>5, <4>1, BranchCut
      <3>2. Branches(ETH)' \subseteq Branches(ETH) \cup {Upto(chain[ETH], n)}
        BY <1>2, <1>3, <2>1, <2>2, <2>3 DEF Branches
      <3> QED BY <1>2, <1>4, <3>1, <3>2 DEF EthereumSound
    <2>4. CASE c # ETH
      <3>1. Branches(ETH)' = Branches(ETH)
        BY <1>2, <1>3, <2>1, <2>2, <2>4 DEF Branches
      <3> QED BY <1>2, <1>4, <3>1 DEF EthereumSound
    <2> QED BY <2>3, <2>4
  <1> QED BY <1>1, <1>6, <1>7

LEMMA InitEthereum ==
    ASSUME Init PROVE EthereumSound
  <1> DEFINE E == EthereumStart
             N == StartNumber[ETH] + 1
  <1>1. /\ StartNumber[ETH] \in Nat /\ StartNumber[LINEA_CHAIN_ID] - ReorgLimit \in Int
    BY Bounds
  <1>2. Branches(ETH) = {E} /\ E = [i \in 1..N |-> E[i]] /\ Len(E) = N
    <2>1. Branches(ETH) = {E}
      BY Ids DEF Init, ChainsInit, Branches, StartOf
    <2>2. N \in Nat
      BY <1>1
    <2>3. E = [i \in 1..N |-> E[i]]
      BY <2>2 DEF EthereumStart, ETH
    <2> HIDE DEF E, N
    <2> QED BY <2>1, <2>2, <2>3, FunctionIsSeq
  <1>3. ASSUME NEW n \in 1..N
        PROVE  /\ E[n].posted = StartNumber[LINEA_CHAIN_ID] - ReorgLimit
               /\ E[n].portals = [c \in PortalChains |-> [games |-> InitialGames[c], updatedAt |-> 0]]
    BY DEF EthereumStart, ETH
  <1>4. ASSUME NEW c \in PortalChains, NEW n \in 1..N
        PROVE  /\ E[n].portals[c] \in PortalsOf(c) /\ Watchful(E[n].portals[c], n - 1)
    <2> DEFINE p == [games |-> InitialGames[c], updatedAt |-> 0]
    <2>1. E[n].portals[c] = p
      BY <1>3
    <2>2. InitialGames[c] \in Seq(GamesOf(c)) /\ Watchful(p, StartNumber[ETH])
      BY GamesAssumption DEF ETH
    <2>3. InitialGames[c] \in [DOMAIN InitialGames[c] -> GamesOf(c)]
      BY <2>2
    <2>4. p \in PortalsOf(c)
      BY <2>3 DEF PortalsOf
    <2>5. \A g \in DOMAIN p.games : p.games[g].resolvedAt \in Nat
      BY <2>3 DEF GamesOf
    <2>6. ProofMaturityDelay \in Int /\ n - 1 \in Int /\ n - 1 <= StartNumber[ETH]
      BY <1>1, Bounds
    <2> HIDE DEF p
    <2>7. Watchful(p, n - 1)
      BY <1>1, <2>2, <2>5, <2>6 DEF Watchful
    <2> QED BY <2>1, <2>4, <2>7
  <1> HIDE DEF E
  <1>5. \A n \in 1..N : BlockSound(E[n], n - 1, settled)
    BY <1>1, <1>3, <1>4 DEF BlockSound
  <1>6. ASSUME NEW n \in 1..N, NEW m \in 1..n PROVE Keeps(E[m], E[n])
    <2>1. m \in 1..N
      BY <1>1
    <2>2. E[m].posted = E[n].posted /\ E[m].portals = E[n].portals /\ E[n].posted \in Int
      BY <1>1, <1>3, <2>1
    <2> QED BY <2>2 DEF Keeps, GamesKept
  <1> QED BY <1>2, <1>5, <1>6 DEF EthereumSound, BranchSound

------------------------------------------------------------------------------
(* What the guest's checks imply.                                           *)

\* A commitment that some sequencer published.
Signed(k) ==
    \/ k = NoCommitment
    \/ \E c \in Live : \E h \in Published(c) : k = SignedCommitment(c, h)

\* A claim about chain c that was won at the Ethereum block env and is right,
\* unless the last slack of the maturity delay was still running then.
WonRightly(c, env, op) ==
    LET game == PortalOf(c, env).games[op.game] IN
    /\ c \in PortalChains /\ op.game \in DOMAIN InitialGames[c]
    /\ op.claim.of = c
    /\ game.status = "DEFENDER_WINS" /\ game.claim = op.claim
    /\ \/ op.claim.true
       \/ Number(env) - game.resolvedAt \in LastSlack

\* A journal that speaks of the chain it names and, if it says so, of what
\* Ethereum knows of that chain.
Right(j) ==
    /\ j.chain_id \in Live
    /\ j.op_env = NoOpEnv => ChainOf(j.env) = j.chain_id
    /\ j.op_env # NoOpEnv => ChainOf(j.env) = ETH /\ WonRightly(j.chain_id, j.env, j.op_env)
    /\ j.L1inclusion /\ is_linea_chain(j.chain_id) =>
           \E h \in Published(ETH) : Tip(h).posted >= Number(j.env)

\* A signature that verifies under a chain's key is of a block of that chain.
LEMMA SignedByVerified ==
    ASSUME NEW k, Signed(k), NEW c, NEW h, validate_opstack_env(c, k, h)
    PROVE  h \in Published(c)
  <1>1. /\ k # NoCommitment /\ k.data = h
        /\ Sequencer(c) = Recovered(k.signature, signature_msg(k.data, c))
    BY DEF validate_opstack_env, verify, ExecutionPayload
  <1>2. PICK d \in Live : \E g \in Published(d) : k = SignedCommitment(d, g)
    BY <1>1 DEF Signed
  <1>3. PICK g \in Published(d) : k = SignedCommitment(d, g)
    BY <1>2
  <1>4. k.data = g /\ k.signature.over = signature_msg(g, d)
    BY <1>3 DEF SignedCommitment
  <1>5. Sequencer(c) # NoOne
    <2>1. DOMAIN Sequencer(c) = {"sequencerOf"} /\ DOMAIN NoOne = {"nobody"}
      BY DEF Sequencer, NoOne
    <2>2. "sequencerOf" # "nobody"
      OBVIOUS
    <2> QED BY <2>1, <2>2
  <1>6. signature_msg(g, d) = signature_msg(g, c)
    BY <1>1, <1>4, <1>5 DEF Recovered
  <1>7. signature_msg(g, d).chain = d /\ signature_msg(g, c).chain = c
    BY DEF signature_msg
  <1> QED BY <1>1, <1>3, <1>4, <1>6, <1>7

\* The block that an OP-stack block names as its origin is published.
LEMMA OriginPublished ==
    ASSUME ChainsInv, NEW c \in Live, is_opstack_chain(c), NEW h \in Published(c)
    PROVE  Tip(h).origin \in Published(ETH)
  <1>1. PICK b \in Branches(c) : /\ Len(h) \in 1..Len(b) /\ Len(b) \in Nat
                                 /\ \A n \in 1..Len(h) : h[n] = b[n]
    BY PublishedProps DEF ChainsInv
  <1>2. Len(h) \in 1..Len(h)
    BY PublishedProps DEF ChainsInv
  <1>3. Tip(h) = b[Len(h)]
    BY <1>1, <1>2 DEF Tip
  <1> QED BY <1>1, <1>3 DEF ChainsInv, OriginsPublished

\* A block of Ethereum that is published is sound.
LEMMA PublishedSound ==
    ASSUME ChainsInv, EthereumSound, NEW e \in Published(ETH)
    PROVE  BlockSound(Tip(e), Number(e), settled)
  <1>1. PICK b \in Branches(ETH) : /\ Len(e) \in 1..Len(b) /\ Len(b) \in Nat
                                   /\ \A n \in 1..Len(e) : e[n] = b[n]
    BY Bounds, PublishedProps DEF ChainsInv
  <1>2. Len(e) \in 1..Len(e)
    BY Bounds, PublishedProps DEF ChainsInv
  <1>3. Tip(e) = b[Len(e)]
    BY <1>1, <1>2 DEF Tip
  <1>4. BlockSound(b[Len(e)], Len(e) - 1, settled)
    BY <1>1 DEF EthereumSound, BranchSound
  <1> QED BY <1>3, <1>4 DEF Number

\* A block below a published one is of its chain and published itself.
LEMMA UnderProps ==
    ASSUME ChainsInv, NEW c \in Live, NEW h \in Published(c), NEW e, Under(e, h)
    PROVE  e \in Published(c) /\ ChainOf(e) = c /\ Len(e) \in Nat \ {0}
  <1>1. PICK n \in 1..Len(h) : e = Upto(h, n)
    BY DEF Under
  <1>2. e \in Published(c)
    BY <1>1, PublishedProps DEF ChainsInv
  <1> QED BY <1>2, PublishedProps DEF ChainsInv, ChainOf

\* The Ethereum hash that the guest believes is of a published block.
LEMMA AttestedPublished ==
    ASSUME ChainsInv, NEW i, Signed(i.commitment), EthereumHashAttested(i, ETH)
    PROVE  EthereumHash(i) \in Published(ETH)
  <1> DEFINE via == get_default_sequencer_chain(FALSE)
  <1>1. /\ get_default_sequencer_chain(ETH \in SepoliaIds) = via
        /\ via \in Live /\ is_opstack_chain(via)
    BY Ids
  <1>2. validate_opstack_env(via, i.commitment, i.env_op_input)
    BY <1>1 DEF EthereumHashAttested
  <1>3. i.env_op_input \in Published(via)
    BY <1>2, SignedByVerified
  <1> HIDE DEF via
  <1> QED BY <1>1, <1>3, OriginPublished DEF EthereumHash

\* A game that the guest accepts at a published block was won rightly: after
\* the delay a false claim would have been blacklisted, and the guest accepts
\* none earlier than the slack before that.
LEMMA AcceptedGame ==
    ASSUME ChainsInv, EthereumSound, settled, NEW e \in Published(ETH), NEW c, NEW op,
           validate_opstack_dispute_game_commitment(c, e, op)
    PROVE  WonRightly(c, e, op)
  <1> DEFINE portal == PortalOf(c, e)
             game == portal.games[op.game]
  <1>1. /\ c \in DOMAIN Tip(e).portals /\ op.game \in DOMAIN portal.games
        /\ game.gameType = 0 /\ game.createdAt >= portal.updatedAt
        /\ game.status = "DEFENDER_WINS" /\ ~game.blacklisted
        /\ Number(e) - game.resolvedAt > ProofMaturityDelay - MaturitySlack
        /\ game.claim = op.claim
    BY DEF validate_opstack_dispute_game_commitment
  <1>2. BlockSound(Tip(e), Number(e), settled)
    BY PublishedSound
  <1>3. /\ c \in PortalChains /\ portal \in PortalsOf(c) /\ Watchful(portal, Number(e))
    BY <1>1, <1>2 DEF BlockSound, PortalOf
  <1>4. op.game \in DOMAIN InitialGames[c] /\ game \in GamesOf(c)
    <2>1. portal.games \in [DOMAIN InitialGames[c] -> GamesOf(c)]
      BY <1>3 DEF PortalsOf
    <2> QED BY <1>1, <2>1
  <1>5. op.claim.of = c /\ op.claim.true \in BOOLEAN /\ game.resolvedAt \in Nat
    BY <1>1, <1>4 DEF GamesOf
  <1>6. \/ op.claim.true
        \/ Number(e) - game.resolvedAt \in LastSlack
    <2>1. Respected(portal, op.game) /\ Won(portal, op.game)
      BY <1>1 DEF Respected, Won
    <2>2. Number(e) \in Int /\ ProofMaturityDelay \in Int /\ MaturitySlack \in Int
      BY Bounds, PublishedProps DEF ChainsInv, Number
    <2> HIDE DEF portal
    <2>3. ~game.claim.true => Number(e) - game.resolvedAt <= ProofMaturityDelay
      BY <1>1, <1>3, <2>1 DEF Watchful
    <2>4. CASE game.claim.true
      BY <1>1, <2>4
    <2>5. CASE ~game.claim.true
      <3> DEFINE m == Number(e) - game.resolvedAt
      <3>1. m \in Int /\ m > ProofMaturityDelay - MaturitySlack /\ m <= ProofMaturityDelay
        BY <1>1, <1>5, <2>2, <2>3, <2>5
      <3> HIDE DEF m
      <3>2. m \in LastSlack
        BY <2>2, <3>1 DEF LastSlack
      <3> QED BY <3>2 DEF m
    <2> QED BY <2>4, <2>5
  <1> QED BY <1>1, <1>3, <1>4, <1>5, <1>6 DEF WonRightly

\* Each kind of chain has a validation of its own.
LEMMA ValidatedByKind ==
    ASSUME NEW i, i.chain_id \in Live, GuestAccepts(i), NEW p, p = sort_and_verify_relevant_params(i)
    PROVE  /\ p.there
           /\ is_linea_chain(i.chain_id) => get_validated_block_hash_linea(i, p)
           /\ is_opstack_chain(i.chain_id) => get_validated_block_hash_opstack(i, p)
           /\ EthereumOf(i.chain_id) = ETH
  <1>1. p.there /\ BlockHashValidated(i, p)
    BY DEF GuestAccepts, validate_get_proof_data_call
  <1>2. /\ is_opstack_chain(i.chain_id)
              => ~is_ethereum_chain(i.chain_id) /\ ~is_linea_chain(i.chain_id)
        /\ is_linea_chain(i.chain_id) => ~is_ethereum_chain(i.chain_id)
        /\ EthereumOf(i.chain_id) = ETH
    BY Ids
  <1> QED BY <1>1, <1>2 DEF BlockHashValidated

\* No OP-stack chain: the headers are the chain's own and, for Linea, Ethereum
\* knew a number that is at least that of the block.
LEMMA OwnHeadersRight ==
    ASSUME ChainsInv, NEW i, i.chain_id \in Live, GuestAccepts(i), Signed(i.commitment),
           ~is_opstack_chain(i.chain_id),
           NEW header \in Published(i.chain_id), Under(JournalOf(i).env, header)
    PROVE  Right(JournalOf(i))
  <1> DEFINE p == sort_and_verify_relevant_params(i)
             j == JournalOf(i)
  <1>1. /\ j.chain_id = i.chain_id /\ j.env = p.env /\ j.op_env = NoOpEnv
        /\ j.L1inclusion = p.inclusion
    BY DEF JournalOf, sort_and_verify_relevant_params
  <1>2. ChainOf(j.env) = j.chain_id
    BY <1>1, UnderProps
  <1>3. ASSUME p.inclusion, is_linea_chain(i.chain_id)
        PROVE  \E h \in Published(ETH) : Tip(h).posted >= Number(p.env)
    <2>1. /\ EthereumHashAttested(i, ETH)
          /\ validate_linea_env_with_l1_inclusion(i, Number(p.env), EthereumHash(i))
      <3>1. get_validated_block_hash_linea(i, p) /\ EthereumOf(i.chain_id) = ETH
        BY <1>3, ValidatedByKind
      <3> HIDE DEF p
      <3> QED BY <1>3, <3>1 DEF get_validated_block_hash_linea
    <2>2. EthereumHash(i) \in Published(ETH)
      BY <2>1, AttestedPublished
    <2> HIDE DEF p
    <2>3. Tip(EthereumHash(i)).posted >= Number(p.env)
      BY <2>1 DEF validate_linea_env_with_l1_inclusion
    <2> QED BY <2>2, <2>3
  <1> HIDE DEF p, j
  <1>4. Right(j)
    BY <1>1, <1>2, <1>3 DEF Right
  <1> QED BY <1>4 DEF j

\* An OP-stack chain without inclusion: its own sequencer signed the header.
LEMMA SignedHeaderRight ==
    ASSUME ChainsInv, NEW i, i.chain_id \in Live, GuestAccepts(i), Signed(i.commitment),
           is_opstack_chain(i.chain_id), i.env_eth_input = None,
           NEW header, header = sort_and_verify_relevant_params(i).header,
           Under(JournalOf(i).env, header)
    PROVE  Right(JournalOf(i))
  <1> DEFINE p == sort_and_verify_relevant_params(i)
             j == JournalOf(i)
  <1>1. /\ j.chain_id = i.chain_id /\ j.op_env = NoOpEnv /\ ~j.L1inclusion /\ ~p.inclusion
    BY DEF JournalOf, sort_and_verify_relevant_params
  <1>2. validate_opstack_env(i.chain_id, i.commitment, header)
    <2>1. get_validated_block_hash_opstack(i, p)
      BY ValidatedByKind
    <2> HIDE DEF p
    <2> QED BY <1>1, <2>1 DEF get_validated_block_hash_opstack, p
  <1>3. header \in Published(i.chain_id)
    BY <1>2, SignedByVerified
  <1>4. ChainOf(j.env) = j.chain_id
    BY <1>1, <1>3, UnderProps
  <1> HIDE DEF p, j
  <1>5. Right(j)
    BY <1>1, <1>4 DEF Right
  <1> QED BY <1>5 DEF j

\* An OP-stack chain with inclusion: the game was won rightly at a block of
\* Ethereum.
LEMMA SettledHeaderRight ==
    ASSUME ChainsInv, EthereumSound, settled,
           NEW i, i.chain_id \in Live, GuestAccepts(i), Signed(i.commitment),
           is_opstack_chain(i.chain_id), i.env_eth_input # None,
           NEW header, header = sort_and_verify_relevant_params(i).header,
           Under(JournalOf(i).env, header)
    PROVE  Right(JournalOf(i))
  <1> DEFINE p == sort_and_verify_relevant_params(i)
             j == JournalOf(i)
  <1>1. /\ j.chain_id = i.chain_id /\ j.op_env = p.op_env /\ p.op_env = i.op_evm_input
        /\ j.env = i.env_eth_input /\ p.inclusion
        /\ p.there => i.op_evm_input # NoOpEnv
    BY DEF JournalOf, sort_and_verify_relevant_params
  <1>2. /\ p.there /\ EthereumHashAttested(i, ETH) /\ EthereumHash(i) = header
        /\ validate_opstack_dispute_game_commitment(i.chain_id, i.env_eth_input, p.op_env)
    <2>1. get_validated_block_hash_opstack(i, p) /\ EthereumOf(i.chain_id) = ETH /\ p.there
      BY ValidatedByKind
    <2> HIDE DEF p
    <2> QED BY <1>1, <2>1 DEF get_validated_block_hash_opstack, p
  <1>3. header \in Published(ETH)
    BY <1>2, AttestedPublished
  <1>4. j.env \in Published(ETH) /\ ChainOf(j.env) = ETH
    BY <1>3, Bounds, UnderProps
  <1>5. is_opstack_chain(i.chain_id) => ~is_linea_chain(i.chain_id)
    BY Ids
  <1> HIDE DEF p, j
  <1>6. WonRightly(j.chain_id, j.env, j.op_env)
    BY <1>1, <1>2, <1>4, AcceptedGame
  <1>7. Right(j)
    BY <1>1, <1>2, <1>4, <1>5, <1>6 DEF Right
  <1> QED BY <1>7 DEF j

\* What the guest accepts is right, if an OP-stack chain's own headers are not
\* needed and an Ethereum block is given with a request for inclusion only.
LEMMA AcceptedIsRight ==
    ASSUME ChainsInv, EthereumSound, request \in Requests,
           NEW i, i.chain_id = id, GuestAccepts(i), Signed(i.commitment),
           i.env_eth_input # None => inclusion,
           NEW header, header = sort_and_verify_relevant_params(i).header,
           Under(JournalOf(i).env, header),
           ~is_opstack_chain(id) => header \in Published(id)
    PROVE  Right(JournalOf(i)) /\ JournalOf(i) # NoJournal
  <1>1. i.chain_id \in Live
    BY RequestChains
  <1>2. Right(JournalOf(i))
    <2>1. CASE ~is_opstack_chain(id)
      BY <1>1, <2>1, OwnHeadersRight
    <2>2. CASE is_opstack_chain(id) /\ i.env_eth_input = None
      BY <1>1, <2>2, SignedHeaderRight
    <2>3. CASE is_opstack_chain(id) /\ i.env_eth_input # None
      <3>1. settled
        BY <2>3 DEF settled
      <3> QED BY <1>1, <2>3, <3>1, SettledHeaderRight
    <2> QED BY <2>1, <2>2, <2>3
  <1>3. JournalOf(i).chain_id = i.chain_id /\ i.chain_id # 0 /\ NoJournal.chain_id = 0
    BY <1>1, Ids DEF JournalOf, NoJournal
  <1> QED BY <1>2, <1>3

------------------------------------------------------------------------------
(* The facts that the host holds, and how far it has come.                  *)

Fields == DOMAIN NothingRead

Facts(r) ==
    /\ DOMAIN r = Fields
    /\ Signed(r.commitment)
    /\ r.env_eth_input # None => inclusion
    /\ r.op_checked # NoOpEnv \/ r.op_evm_input # NoOpEnv => settled

Steps == {"commitment", "l1hash", "l1number", "l1env", "game", "fetch",
          "accepted", "refused", "panicked"}

StepFacts ==
    /\ step \in Steps
    /\ step \in {"l1env", "game"} => inclusion
    /\ step = "game" => settled
    /\ Committed <=> step = "accepted"

JournalRight == Committed => Right(journal)

\* What a read leaves of the facts.
Kept(r, q) ==
    /\ DOMAIN q = Fields
    /\ q.commitment = r.commitment /\ q.env_eth_input = r.env_eth_input
    /\ q.op_checked = r.op_checked /\ q.op_evm_input = r.op_evm_input

LEMMA AskedKept ==
    ASSUME NEW r, DOMAIN r = Fields, NEW what, NEW url
    PROVE  Kept(r, Asks(r, what, url))
  BY DEF Asks, Kept, Fields, NothingRead

\* What a read adds to the facts.
LEMMA Reading ==
    ASSUME NEW r, DOMAIN r = Fields, NEW v, NEW n
    PROVE  /\ Kept(r, [r EXCEPT !.block = n]) /\ Kept(r, [r EXCEPT !.env_op_input = v])
           /\ Kept(r, [r EXCEPT !.linking = v]) /\ Kept(r, [r EXCEPT !.env_input = v])
           /\ Kept([r EXCEPT !.commitment = v], [r EXCEPT !.commitment = v, !.block = n])
           /\ Kept([r EXCEPT !.env_eth_input = v], [r EXCEPT !.env_eth_input = v, !.block = n])
  BY DEF Kept, Fields, NothingRead

LEMMA KeptFacts ==
    ASSUME NEW r, Facts(r), NEW q, Kept(r, q)
    PROVE  Facts(q)
  BY DEF Facts, Kept

\* The facts with one of those that matter replaced.
LEMMA FactsWith ==
    ASSUME NEW r, Facts(r), NEW v
    PROVE  /\ Signed(v) => Facts([r EXCEPT !.commitment = v])
           /\ inclusion => Facts([r EXCEPT !.env_eth_input = v])
           /\ settled => Facts([r EXCEPT !.op_checked = v])
           /\ settled => Facts([r EXCEPT !.op_evm_input = v])
  <1>1. DOMAIN r = {"commitment", "block", "env_op_input", "env_eth_input", "op_checked", "linking",
                    "env_input", "op_evm_input", "asked"}
    BY DEF Facts, Fields, NothingRead
  <1> QED BY <1>1 DEF Facts

LEMMA NothingFacts == Facts(NothingRead)
  BY DEF Facts, Fields, NothingRead, Signed

LEMMA GoesOn ==
    ASSUME NEW next, NEW facts, Goto(next, facts), Facts(facts),
           next \in Steps \ {"accepted"}, ~Committed, UNCHANGED <<chainVars, journal>>,
           next \in {"l1env", "game"} => inclusion, next = "game" => settled
    PROVE  Facts(got)' /\ StepFacts'
  <1>1. got' = facts /\ step' = next /\ inclusion' = inclusion /\ settled' = settled
    BY DEF Goto, inclusion, settled, id
  <1>2. \A c : Published(c)' = Published(c)
    BY DEF chainVars, Published, Branches
  <1>3. Facts(got)'
    BY <1>1, <1>2 DEF Facts, Signed
  <1>4. StepFacts'
    BY <1>1 DEF StepFacts, Committed
  <1> QED BY <1>3, <1>4

\* A read keeps what is known of the facts.
LEMMA ReadFacts ==
    ASSUME ChainsInv, request \in Requests, Facts(got), StepFacts, Read,
           UNCHANGED <<chainVars, journal>>
    PROVE  Facts(got)' /\ StepFacts'
  <1>1. DOMAIN got = Fields /\ Facts(got)
    BY DEF Facts
  <1>2. ASSUME NEW what, NEW url
        PROVE  DOMAIN Asks(got, what, url) = Fields /\ Facts(Asks(got, what, url))
    BY <1>1, AskedKept, KeptFacts DEF Kept
  <1>3. ASSUME NEW next, NEW facts, Goto(next, facts), Facts(facts), ~Ended,
               next \in Steps \ {"accepted"},
               next \in {"l1env", "game"} => inclusion, next = "game" => settled
        PROVE  Facts(got)' /\ StepFacts'
    <2>1. ~Committed
      BY <1>3 DEF StepFacts, Ended
    <2> QED BY <1>3, <2>1, GoesOn
  <1>4. /\ step \in {"commitment", "l1hash", "l1number", "l1env", "game", "fetch"} => ~Ended
        /\ {"l1hash", "l1number", "l1env", "game", "fetch", "refused", "panicked"}
               \subseteq Steps \ {"accepted"}
    BY DEF Ended, Steps
  <1>5. CASE get_sequencer_commitments_and_blocks
    <2> DEFINE c == IF is_opstack_chain(id) /\ ~inclusion THEN id
                    ELSE get_default_sequencer_chain(id \in SepoliaIds)
               commitment == get_current_sequencer_commitment(c)
    <2>1. Signed(commitment)
      <3>1. c \in Live
        BY RequestChains
      <3> HIDE DEF c
      <3>2. chain[c] \in Published(c)
        <4>1. 1 \in 1..Len(chain[c])
          BY <3>1, HeadProps DEF ChainsInv
        <4> QED BY <3>1, <4>1, BranchPublished DEF ChainsInv
      <3> QED BY <3>1, <3>2 DEF get_current_sequencer_commitment, Signed
    <2> HIDE DEF commitment
    <2>2. ASSUME NEW next \in {"l1hash", "fetch"}, NEW url, NEW n,
                 Goto(next, [Asks(got, "commitment", url) EXCEPT !.commitment = commitment, !.block = n])
          PROVE  Facts(got)' /\ StepFacts'
      <3> DEFINE r == Asks(got, "commitment", url)
                 q == [r EXCEPT !.commitment = commitment, !.block = n]
      <3>1. Facts(r) /\ DOMAIN r = Fields
        BY <1>2
      <3>2. Goto(next, q)
        BY <2>2
      <3> HIDE DEF r
      <3>3. Facts([r EXCEPT !.commitment = commitment])
        BY <2>1, <3>1, FactsWith
      <3>4. Kept([r EXCEPT !.commitment = commitment], q)
        BY <3>1, Reading
      <3>5. Facts(q)
        BY <3>3, <3>4, KeptFacts
      <3> HIDE DEF q
      <3> QED BY <1>3, <1>4, <1>5, <3>2, <3>5 DEF get_sequencer_commitments_and_blocks
    <2>3. ASSUME NEW url, NEW n, Goto("fetch", [Asks(got, "head", url) EXCEPT !.block = n])
          PROVE  Facts(got)' /\ StepFacts'
      <3> DEFINE r == Asks(got, "head", url)
                 q == [r EXCEPT !.block = n]
      <3>1. Facts(r) /\ DOMAIN r = Fields
        BY <1>2
      <3>2. Goto("fetch", q)
        BY <2>3
      <3> HIDE DEF r
      <3>3. Facts(q)
        BY <3>1, Reading, KeptFacts
      <3> HIDE DEF q
      <3> QED BY <1>3, <1>4, <1>5, <3>2, <3>3 DEF get_sequencer_commitments_and_blocks
    <2> QED BY <1>5, <2>2, <2>3 DEF get_sequencer_commitments_and_blocks, commitment
  <1>6. CASE get_l1block_hash
    <2>1. PICK env, url : /\ Goto("l1number", [Asks(got, "l1block", url) EXCEPT !.env_op_input = env])
                          /\ step = "l1hash"
      BY <1>6 DEF get_l1block_hash
    <2> DEFINE r == Asks(got, "l1block", url)
               q == [r EXCEPT !.env_op_input = env]
    <2>2. Facts(r) /\ DOMAIN r = Fields
      BY <1>2
    <2>3. Goto("l1number", q)
      BY <2>1
    <2> HIDE DEF r
    <2>4. Facts(q)
      BY <2>2, Reading, KeptFacts
    <2> HIDE DEF q
    <2> QED BY <1>3, <1>4, <2>1, <2>3, <2>4
  <1>7. CASE get_l1block_number
    <2>1. PICK n : /\ Goto(IF inclusion THEN "l1env" ELSE "fetch", [got EXCEPT !.block = n])
                   /\ step = "l1number"
      BY <1>7 DEF get_l1block_number
    <2>2. Facts([got EXCEPT !.block = n])
      BY <1>1, Reading, KeptFacts
    <2> QED BY <1>3, <1>4, <2>1, <2>2
  <1>8. CASE get_env_input_for_linea_l1_call
    <2>1. PICK env, url, n :
             /\ Goto("fetch", [Asks(got, "l1env", url) EXCEPT !.env_eth_input = env, !.block = n])
             /\ step = "l1env"
      BY <1>8 DEF get_env_input_for_linea_l1_call
    <2> DEFINE r == Asks(got, "l1env", url)
               q == [r EXCEPT !.env_eth_input = env, !.block = n]
    <2>2. Facts(r) /\ DOMAIN r = Fields /\ inclusion
      BY <1>2, <2>1 DEF StepFacts
    <2>3. Goto("fetch", q)
      BY <2>1
    <2> HIDE DEF r
    <2>4. Facts([r EXCEPT !.env_eth_input = env])
      BY <2>2, FactsWith
    <2>5. Kept([r EXCEPT !.env_eth_input = env], q)
      BY <2>2, Reading
    <2>6. Facts(q)
      BY <2>4, <2>5, KeptFacts
    <2> HIDE DEF q
    <2> QED BY <1>3, <1>4, <2>1, <2>3, <2>6
  <1>9. CASE get_env_input_for_l1_inclusion
    <2>1. PICK env, url : /\ Goto("game", [Asks(got, "l1env", url) EXCEPT !.env_eth_input = env])
                          /\ step = "l1env" /\ is_opstack_chain(id)
      BY <1>9 DEF get_env_input_for_l1_inclusion
    <2> DEFINE r == Asks(got, "l1env", url)
               q == [r EXCEPT !.env_eth_input = env]
    <2>2. Facts(r) /\ inclusion /\ settled
      BY <1>2, <2>1 DEF StepFacts, settled
    <2>3. Goto("game", q)
      BY <2>1
    <2> HIDE DEF r
    <2>4. Facts(q)
      BY <2>2, FactsWith
    <2> HIDE DEF q
    <2> QED BY <1>3, <1>4, <2>1, <2>2, <2>3, <2>4
  <1>10. CASE get_env_input_for_opstack_dispute_game
    <2>0. PICK env, url :
             /\ Goto(IF validate_opstack_dispute_game_commitment(id, got.env_eth_input, env)
                     THEN "fetch" ELSE "refused",
                     [Asks(got, "game", url) EXCEPT !.op_checked = env])
             /\ step = "game"
      BY <1>10 DEF get_env_input_for_opstack_dispute_game
    <2> DEFINE next == IF validate_opstack_dispute_game_commitment(id, got.env_eth_input, env)
                       THEN "fetch" ELSE "refused"
    <2>1. /\ Goto(next, [Asks(got, "game", url) EXCEPT !.op_checked = env])
          /\ step = "game" /\ next \in {"fetch", "refused"}
      BY <2>0
    <2> HIDE DEF next
    <2> DEFINE r == Asks(got, "game", url)
               q == [r EXCEPT !.op_checked = env]
    <2>2. Facts(r) /\ settled
      BY <1>2, <2>1 DEF StepFacts
    <2>3. Goto(next, q)
      BY <2>1
    <2> HIDE DEF r
    <2>4. Facts(q)
      BY <2>2, FactsWith
    <2> HIDE DEF q
    <2> QED BY <1>3, <1>4, <2>1, <2>3, <2>4
  <1>11. CASE get_linking_block
    <2>1. PICK l, url : /\ Goto("fetch", [Asks(got, "linking", url) EXCEPT !.linking = l])
                        /\ step = "fetch"
      BY <1>11 DEF get_linking_block
    <2> DEFINE r == Asks(got, "linking", url)
               q == [r EXCEPT !.linking = l]
    <2>2. Facts(r) /\ DOMAIN r = Fields
      BY <1>2
    <2>3. Goto("fetch", q)
      BY <2>1
    <2> HIDE DEF r
    <2>4. Facts(q)
      BY <2>2, Reading, KeptFacts
    <2> HIDE DEF q
    <2> QED BY <1>3, <1>4, <2>1, <2>3, <2>4
  <1>12. CASE get_game_call_input
    <2>1. PICK env, url : /\ Goto("fetch", [Asks(got, "call", url) EXCEPT !.op_evm_input = env])
                          /\ step = "fetch" /\ settled
      BY <1>12 DEF get_game_call_input
    <2> DEFINE r == Asks(got, "call", url)
               q == [r EXCEPT !.op_evm_input = env]
    <2>2. Facts(r)
      BY <1>2
    <2>3. Goto("fetch", q)
      BY <2>1
    <2> HIDE DEF r
    <2>4. Facts(q)
      BY <2>1, <2>2, FactsWith
    <2> HIDE DEF q
    <2> QED BY <1>3, <1>4, <2>1, <2>3, <2>4
  <1>13. CASE get_proof_data_call_input
    <2>1. PICK env, url : /\ Goto("fetch", [Asks(got, "call", url) EXCEPT !.env_input = env])
                          /\ step = "fetch"
      BY <1>13 DEF get_proof_data_call_input
    <2> DEFINE r == Asks(got, "call", url)
               q == [r EXCEPT !.env_input = env]
    <2>2. Facts(r) /\ DOMAIN r = Fields
      BY <1>2
    <2>3. Goto("fetch", q)
      BY <2>1
    <2> HIDE DEF r
    <2>4. Facts(q)
      BY <2>2, Reading, KeptFacts
    <2> HIDE DEF q
    <2> QED BY <1>3, <1>4, <2>1, <2>3, <2>4
  <1>14. CASE Panic
    BY <1>3, <1>4, <1>14, NothingFacts DEF Panic
  <1> QED BY <1>5, <1>6, <1>7, <1>8, <1>9, <1>10, <1>11, <1>12, <1>13, <1>14 DEF Read

------------------------------------------------------------------------------
(* The bounds of the chains.                                                *)

ChainBounds ==
    /\ \A c \in Live : Len(chain[c]) \in 1..(MaxNumber[c] + 1)
    /\ forks \in [Live -> Nat] /\ SumFunction(forks) <= MaxForks

LEMMA FiniteLive == IsFiniteSet(Live)
  <1>1. IsFiniteSet({})
    BY FS_EmptySet
  <1>2. IsFiniteSet({} \cup {ETHEREUM_CHAIN_ID})
    BY <1>1, FS_AddElement
  <1>3. IsFiniteSet(({} \cup {ETHEREUM_CHAIN_ID}) \cup {OPTIMISM_CHAIN_ID})
    BY <1>2, FS_AddElement
  <1>4. IsFiniteSet((({} \cup {ETHEREUM_CHAIN_ID}) \cup {OPTIMISM_CHAIN_ID}) \cup {LINEA_CHAIN_ID})
    BY <1>3, FS_AddElement
  <1>5. IsFiniteSet(((({} \cup {ETHEREUM_CHAIN_ID}) \cup {OPTIMISM_CHAIN_ID}) \cup {LINEA_CHAIN_ID})
                    \cup {BASE_CHAIN_ID})
    BY <1>4, FS_AddElement
  <1>6. MainnetIds = ((({} \cup {ETHEREUM_CHAIN_ID}) \cup {OPTIMISM_CHAIN_ID}) \cup {LINEA_CHAIN_ID})
                     \cup {BASE_CHAIN_ID}
    BY DEF MainnetIds
  <1> QED BY <1>5, <1>6, ChainsAssumption, FS_Subset

LEMMA InitBounds ==
    ASSUME Init PROVE ChainBounds
  <1>1. ASSUME NEW c \in Live PROVE Len(chain[c]) \in 1..(MaxNumber[c] + 1)
    <2> DEFINE n == StartNumber[c]
    <2>1. n \in Nat /\ MaxNumber[c] \in Nat /\ n <= MaxNumber[c]
      BY Bounds, StartBounds
    <2>2. Len(chain[c]) = n + 1
      <3>1. chain[c] = StartOf(c)
        BY DEF Init, ChainsInit
      <3>2. StartNumber[ETH] \in Nat
        BY Bounds
      <3>3. CASE c = ETH
        <4>1. chain[c] = EthereumStart
          BY <3>1, <3>3, Ids DEF StartOf
        <4> QED BY <2>1, <3>3, <4>1 DEF EthereumStart, ETH
      <3>4. CASE c # ETH
        <4>1. ~is_ethereum_chain(c)
          BY <3>4, Ids
        <4> QED BY <2>1, <3>1, <4>1 DEF StartOf
      <3> QED BY <3>3, <3>4
    <2> HIDE DEF n
    <2> QED BY <2>1, <2>2
  <1>2. forks \in [Live -> Nat] /\ \A c \in Live : forks[c] = 0
    BY DEF Init, ChainsInit
  <1>3. SumFunction(forks) = 0
    <2>1. SumFunctionOnSet(forks, Live) = 0
      BY <1>2, FiniteLive, SumZero
    <2> QED BY <1>2, <2>1 DEF SumFunction
  <1> QED BY <1>1, <1>2, <1>3, Bounds DEF ChainBounds

LEMMA ChainMovesBounds ==
    ASSUME ChainsInv, HostInv, ChainBounds, ChainMoves
    PROVE  ChainBounds'
  <1>1. PICK c \in Watched.chains : Grow(c, Watched) \/ Reorg(c)
    BY DEF ChainMoves
  <1>2. /\ c \in Live
        /\ chain = [d \in Live |-> chain[d]]
        /\ \A d \in Live : MaxNumber[d] \in Nat /\ Len(chain[d]) \in 1..(MaxNumber[d] + 1)
        /\ forks \in [Live -> Nat] /\ SumFunction(forks) <= MaxForks /\ MaxForks \in Nat
    BY RequestChains, Bounds DEF HostInv, ChainsInv, ChainTables, ChainBounds
  <1>3. IsSeq(chain[c]) /\ Len(chain[c]) \in Nat \ {0}
    BY <1>2, HeadProps DEF ChainsInv
  <1>4. CASE Grow(c, Watched)
    <2>1. PICK b \in BlocksAfter(c, chain[c], Watched) : chain' = [chain EXCEPT ![c] = Append(@, b)]
      BY <1>4 DEF Grow
    <2>2. Len(Append(chain[c], b)) = Len(chain[c]) + 1
      BY <1>3, AppendProps
    <2>3. Len(chain[c]) + 1 <= MaxNumber[c] + 1 /\ forks' = forks
      BY <1>2, <1>3, <1>4 DEF Grow, Number
    <2>4. /\ chain'[c] = Append(chain[c], b)
          /\ \A d \in Live : d # c => chain'[d] = chain[d]
      BY <1>2, <2>1
    <2>5. Len(chain'[c]) \in 1..(MaxNumber[c] + 1)
      BY <1>2, <1>3, <2>2, <2>3, <2>4
    <2> QED BY <1>2, <2>3, <2>4, <2>5 DEF ChainBounds
  <1>5. CASE Reorg(c)
    <2>1. PICK n \in 1..(Len(chain[c]) - 1) : chain' = [chain EXCEPT ![c] = Upto(@, n)]
      BY <1>5 DEF Reorg
    <2>2. Len(Upto(chain[c], n)) = n
      <3>1. n \in 1..Len(chain[c])
        BY <1>3
      <3> QED BY <1>3, <3>1, UptoProps
    <2>3. /\ chain'[c] = Upto(chain[c], n)
          /\ \A d \in Live : d # c => chain'[d] = chain[d]
      BY <1>2, <2>1
    <2>4. n \in 1..(MaxNumber[c] + 1)
      BY <1>2, <1>3
    <2>5. \A d \in Live : Len(chain'[d]) \in 1..(MaxNumber[d] + 1)
      BY <1>2, <2>2, <2>3, <2>4
    <2>6. forks' = [forks EXCEPT ![c] = @ + 1] /\ SumFunction(forks) < MaxForks
      BY <1>5 DEF Reorg
    <2>7. SumFunction(forks') = SumFunction(forks) + 1
      <3>1. 1 \in Int
        OBVIOUS
      <3> QED BY <1>2, <2>6, <3>1, FiniteLive, SumAdded, ZenonT(60)
    <2>8. SumFunction(forks) \in Nat
      BY <1>2, FiniteLive, SumOfNat
    <2>9. forks' \in [Live -> Nat] /\ SumFunction(forks') <= MaxForks
      BY <1>2, <2>6, <2>7, <2>8
    <2> QED BY <2>5, <2>9 DEF ChainBounds
  <1> QED BY <1>1, <1>4, <1>5

------------------------------------------------------------------------------
(* Every step keeps it.                                                     *)

RInv == Facts(got) /\ StepFacts /\ EthereumSound /\ JournalRight /\ ChainBounds

LEMMA InitRInv ==
    ASSUME Init PROVE RInv
  <1>1. got = NothingRead /\ step = "commitment" /\ journal = NoJournal
    BY DEF Init, HostInit
  <1>2. Facts(got)
    BY <1>1, NothingFacts
  <1>3. StepFacts /\ JournalRight
    BY <1>1 DEF StepFacts, Steps, JournalRight, Committed
  <1> QED BY <1>2, <1>3, InitEthereum, InitBounds DEF RInv

\* A journal that is right stays so as long as published blocks do.
LEMMA RightStays ==
    ASSUME JournalRight, UNCHANGED journal, Published(ETH) \subseteq Published(ETH)'
    PROVE  JournalRight'
  BY DEF JournalRight, Committed, Right, WonRightly

LEMMA ChainsStay ==
    ASSUME EthereumSound, ChainBounds, UNCHANGED chainVars, UNCHANGED request
    PROVE  /\ EthereumSound' /\ ChainBounds'
           /\ \A c : Published(c)' = Published(c)
  <1>1. /\ \A c : Published(c)' = Published(c) /\ Branches(c)' = Branches(c)
        /\ settled' = settled /\ chain' = chain /\ forks' = forks
    BY DEF chainVars, Published, Branches, settled, inclusion, id
  <1> QED BY <1>1 DEF EthereumSound, ChainBounds

LEMMA CommitRight ==
    ASSUME RInv, step # "accepted", UNCHANGED chainVars, NEW i,
           \/ Commit(i)
           \/ UNCHANGED journal /\ Goto("refused", got),
           GuestAccepts(i) => Right(JournalOf(i)) /\ JournalOf(i) # NoJournal
    PROVE  RInv'
  <1>1. got' = got /\ request' = request /\ inclusion' = inclusion /\ settled' = settled
    BY DEF Commit, Goto, inclusion, settled, id
  <1>2. EthereumSound' /\ ChainBounds' /\ \A c : Published(c)' = Published(c)
    BY <1>1, ChainsStay DEF RInv
  <1>3. Facts(got)'
    BY <1>1, <1>2 DEF RInv, Facts, Signed
  <1>4. ~Committed
    BY DEF RInv, StepFacts
  <1>5. CASE GuestAccepts(i) /\ journal' = JournalOf(i) /\ Goto("accepted", got)
    <2>1. Right(journal)'
      BY <1>2, <1>5 DEF Right, WonRightly
    <2>2. Committed' /\ step' = "accepted"
      BY <1>5 DEF Committed, Goto
    <2>3. StepFacts'
      BY <2>2 DEF StepFacts, Steps
    <2> QED BY <1>2, <1>3, <2>1, <2>3 DEF RInv, JournalRight
  <1>6. CASE UNCHANGED journal /\ Goto("refused", got)
    <2>1. ~Committed' /\ step' = "refused"
      BY <1>4, <1>6 DEF Committed, Goto
    <2>2. StepFacts' /\ JournalRight'
      BY <2>1 DEF StepFacts, Steps, JournalRight
    <2> QED BY <1>2, <1>3, <2>2 DEF RInv
  <1> QED BY <1>5, <1>6 DEF Commit

LEMMA HostProvesRight ==
    ASSUME IInv, RInv, HostProves
    PROVE  RInv'
  <1>1. ChainsInv /\ HostInv /\ EthereumSound /\ Facts(got) /\ request \in Requests
    BY DEF IInv, RInv, HostInv
  <1>2. id \in Live /\ LinkingChain \in Live
    BY <1>1, RequestChains
  <1> DEFINE i == ZkvmInput
  <1>3. /\ i.chain_id = id /\ i.linking_blocks = LinkingBlocks
        /\ i.commitment = got.commitment /\ i.env_eth_input = got.env_eth_input
    BY DEF ZkvmInput
  <1>4. /\ DOMAIN LinkingBlocks = 1..2 /\ Len(LinkingBlocks) = 2
        /\ LinkingBlocks[1] \in Published(LinkingChain)
        /\ LinkingBlocks[2] \in Published(LinkingChain)
    BY <1>1, HostLinksTwo DEF HostProves
  <1> HIDE DEF i
  <1>5. ASSUME GuestAccepts(i)
        PROVE  Right(JournalOf(i)) /\ JournalOf(i) # NoJournal
    <2>1. /\ Under(JournalOf(i).env, LinkingBlocks[2])
          /\ sort_and_verify_relevant_params(i).header = LinkingBlocks[2]
      BY <1>1, <1>2, <1>3, <1>4, <1>5, HostIsDeep
    <2>2. Signed(i.commitment) /\ (i.env_eth_input # None => inclusion)
      BY <1>1, <1>3 DEF Facts
    <2>3. ~is_opstack_chain(id) => LinkingBlocks[2] \in Published(id)
      BY <1>4 DEF LinkingChain, settled
    <2> QED BY <1>1, <1>3, <1>5, <2>1, <2>2, <2>3, AcceptedIsRight
  <1>6. /\ step # "accepted" /\ UNCHANGED chainVars
        /\ Commit(i) \/ (UNCHANGED journal /\ Goto("refused", got))
    BY DEF HostProves, AllFetched, i
  <1> QED BY <1>5, <1>6, CommitRight

\* A chain that is no OP-stack chain links up to its own headers.
LEMMA OwnHeads ==
    ASSUME ChainsInv, request \in Requests, ~is_opstack_chain(id), NEW head \in LinkedHeads
    PROVE  head \in Published(id)
  <1>1. id \in Live /\ LinkingChain = id
    BY RequestChains DEF LinkingChain, settled
  <1>2. CASE is_ethereum_chain(id)
    <2>1. PICK h \in Published(get_default_sequencer_chain(FALSE)) : head = Tip(h).origin
      BY <1>1, <1>2 DEF LinkedHeads
    <2>2. id = ETH
      BY <1>1, <1>2, Ids
    <2>3. /\ get_default_sequencer_chain(FALSE) \in Live
          /\ is_opstack_chain(get_default_sequencer_chain(FALSE))
      BY Ids
    <2>4. Tip(h).origin \in Published(ETH)
      BY <2>3, OriginPublished
    <2> QED BY <2>1, <2>2, <2>4
  <1>3. CASE ~is_ethereum_chain(id)
    <2>1. is_linea_chain(id) /\ id = LINEA_CHAIN_ID
      BY <1>1, <1>3, Ids
    <2>2. PICK x \in Kin(id) : head \in Published(x)
      BY <1>1, <1>3 DEF LinkedHeads, PublishedKin
    <2>3. x \in Live /\ is_linea_chain(x) = is_linea_chain(id)
      BY <2>2 DEF Kin
    <2>4. x = LINEA_CHAIN_ID
      BY <2>1, <2>3, Ids
    <2> QED BY <2>1, <2>2, <2>4
  <1> QED BY <1>2, <1>3

LEMMA OtherProvesRight ==
    ASSUME IInv, RInv, OtherProves
    PROVE  RInv'
  <1>1. ChainsInv /\ EthereumSound /\ request \in Requests
    BY DEF IInv, RInv, HostInv
  <1>2. id \in Live
    BY <1>1, RequestChains
  <1> DEFINE via == get_default_sequencer_chain(FALSE)
             signers == IF inclusion THEN Published(via)
                        ELSE IF is_linea_chain(id) THEN {None} ELSE PublishedKin(via)
  <1>3. PICK signed \in signers,
             eth \in IF inclusion THEN Published(ETH) ELSE {None} :
          \E op \in IF settled THEN OpEnvs ELSE {NoOpEnv} :
          \E env \in IF settled THEN {None} ELSE PublishedKin(id) :
          \E head \in LinkedHeads : \E k \in 0..(Len(head) - 1) :
              LET i == [env_input |-> env, chain_id |-> id,
                        commitment |-> IF signed = None THEN NoCommitment
                                       ELSE SignedCommitment(ChainOf(signed), signed),
                        env_op_input |-> signed, linking_blocks |-> LinkedUpto(head, k),
                        env_eth_input |-> eth, op_evm_input |-> op]
              IN GuestAccepts(i) /\ Commit(i)
    BY DEF OtherProves, ETH
  <1>4. PICK op \in IF settled THEN OpEnvs ELSE {NoOpEnv},
             env \in IF settled THEN {None} ELSE PublishedKin(id),
             head \in LinkedHeads :
          \E k \in 0..(Len(head) - 1) :
              LET i == [env_input |-> env, chain_id |-> id,
                        commitment |-> IF signed = None THEN NoCommitment
                                       ELSE SignedCommitment(ChainOf(signed), signed),
                        env_op_input |-> signed, linking_blocks |-> LinkedUpto(head, k),
                        env_eth_input |-> eth, op_evm_input |-> op]
              IN GuestAccepts(i) /\ Commit(i)
    BY <1>3
  <1>5. PICK k \in 0..(Len(head) - 1) :
              LET i == [env_input |-> env, chain_id |-> id,
                        commitment |-> IF signed = None THEN NoCommitment
                                       ELSE SignedCommitment(ChainOf(signed), signed),
                        env_op_input |-> signed, linking_blocks |-> LinkedUpto(head, k),
                        env_eth_input |-> eth, op_evm_input |-> op]
              IN GuestAccepts(i) /\ Commit(i)
    BY <1>4
  <1> DEFINE i == [env_input |-> env, chain_id |-> id,
                   commitment |-> IF signed = None THEN NoCommitment
                                  ELSE SignedCommitment(ChainOf(signed), signed),
                   env_op_input |-> signed, linking_blocks |-> LinkedUpto(head, k),
                   env_eth_input |-> eth, op_evm_input |-> op]
  <1>6. GuestAccepts(i) /\ Commit(i)
    BY <1>5
  <1>7. /\ i.linking_blocks = LinkedUpto(head, k)
        /\ i.commitment = IF signed = None THEN NoCommitment
                          ELSE SignedCommitment(ChainOf(signed), signed)
        /\ i.env_eth_input # None => inclusion
        /\ i.chain_id = id
    BY <1>3
  <1> HIDE DEF i
  <1>8. PICK c \in Live : head \in Published(c)
    BY <1>1, LinkedHeadsPublished
  <1>9. Under(JournalOf(i).env, head) /\ sort_and_verify_relevant_params(i).header = head
    BY <1>1, <1>2, <1>6, <1>7, <1>8, OtherIsDeep
  <1>10. Signed(i.commitment)
    <2>1. CASE signed = None
      BY <1>7, <2>1 DEF Signed
    <2>2. CASE signed # None
      <3>1. PICK d \in Live : signed \in Published(d)
        BY <2>2, Ids DEF PublishedKin, Kin
      <3>2. ChainOf(signed) = d
        BY <1>1, <3>1, PublishedProps DEF ChainsInv, ChainOf
      <3> QED BY <1>7, <2>2, <3>1, <3>2 DEF Signed
    <2> QED BY <2>1, <2>2
  <1>11. ~is_opstack_chain(id) => head \in Published(id)
    BY <1>1, OwnHeads
  <1>12. Right(JournalOf(i)) /\ JournalOf(i) # NoJournal
    BY <1>1, <1>6, <1>7, <1>9, <1>10, <1>11, AcceptedIsRight
  <1>13. step # "accepted" /\ UNCHANGED chainVars
    BY DEF OtherProves
  <1> QED BY <1>6, <1>12, <1>13, CommitRight

LEMMA NextRight ==
    ASSUME IInv, RInv, [Next]_vars
    PROVE  RInv'
  <1>1. ChainsInv /\ HostInv /\ request \in Requests
    BY DEF IInv, HostInv
  <1>2. CASE ChainMoves
    <2>1. UNCHANGED <<request, step, got, journal>>
      BY <1>2 DEF ChainMoves, hostVars
    <2>2. \A d \in Live : Published(d) \subseteq Published(d)'
      <3>1. PICK c \in Watched.chains : Grow(c, Watched) \/ Reorg(c)
        BY <1>2 DEF ChainMoves
      <3>2. c \in Live
        BY <1>1, RequestChains
      <3> QED BY <1>1, <3>1, <3>2, GrowKeeps, ReorgKeeps
    <2>3. Facts(got)'
      BY <2>1, <2>2 DEF RInv, Facts, Signed, inclusion, settled, id
    <2>4. StepFacts'
      BY <2>1 DEF RInv, StepFacts, Committed, inclusion, settled, id
    <2>5. JournalRight'
      BY <2>1, <2>2, Bounds, RightStays DEF RInv
    <2>6. EthereumSound' /\ ChainBounds'
      BY <1>1, <1>2, ChainMovesEthereum, ChainMovesBounds DEF RInv
    <2> QED BY <2>3, <2>4, <2>5, <2>6 DEF RInv
  <1>3. CASE HostReads
    <2>1. Read /\ UNCHANGED <<chainVars, journal>>
      BY <1>3 DEF HostReads
    <2>2. Facts(got)' /\ StepFacts'
      BY <1>1, <2>1, ReadFacts DEF RInv
    <2>3. UNCHANGED request
      BY <2>1, ReadAsks DEF HostInv, IInv, AsksFine
    <2>4. EthereumSound' /\ ChainBounds' /\ \A c : Published(c)' = Published(c)
      BY <2>1, <2>3, ChainsStay DEF RInv
    <2>5. JournalRight'
      BY <2>1, <2>4, RightStays DEF RInv
    <2> QED BY <2>2, <2>4, <2>5 DEF RInv
  <1>4. CASE HostProves
    BY <1>4, HostProvesRight
  <1>5. CASE OtherProves
    BY <1>5, OtherProvesRight
  <1>6. CASE UNCHANGED vars
    <2>1. UNCHANGED <<request, step, got, journal>> /\ UNCHANGED chainVars
      BY <1>6 DEF vars, hostVars
    <2>2. EthereumSound' /\ ChainBounds' /\ \A c : Published(c)' = Published(c)
      BY <2>1, ChainsStay DEF RInv
    <2>3. JournalRight'
      BY <2>1, <2>2, RightStays DEF RInv
    <2>4. Facts(got)'
      BY <2>1, <2>2 DEF RInv, Facts, Signed, inclusion, settled, id
    <2>5. StepFacts'
      BY <2>1 DEF RInv, StepFacts, Committed, inclusion, settled, id
    <2> QED BY <2>2, <2>3, <2>4, <2>5 DEF RInv
  <1> QED BY <1>2, <1>3, <1>4, <1>5, <1>6 DEF Next

------------------------------------------------------------------------------
(* What follows for journals.                                               *)

\* What was published stays right, and every journal with it: a signed header
\* is one of its chain, an attested block one that Ethereum or the chain
\* published, a claim one that was won rightly.
THEOREM FactsHold == Spec => [](IInv /\ RInv)
  <1>1. Init => IInv /\ RInv
    BY InitIInv, InitRInv
  <1>2. (IInv /\ RInv) /\ [Next]_vars => (IInv /\ RInv)'
    BY NextKeeps, NextRight
  <1> QED BY <1>1, <1>2, PTL DEF Spec

\* What Ethereum's head keeps of a block in its chain.
LEMMA HeadKeeps ==
    ASSUME ChainsInv, EthereumSound, NEW e, Len(e) \in Nat \ {0}, Ancestor(e, chain[ETH])
    PROVE  BlockSound(Tip(e), Number(e), settled) /\ Keeps(Tip(e), Tip(chain[ETH]))
  <1> DEFINE h == chain[ETH]
  <1>1. IsSeq(h) /\ Len(h) \in Nat \ {0} /\ h \in Branches(ETH)
    BY HeadProps, Bounds DEF ChainsInv
  <1> HIDE DEF h
  <1>2. Len(e) \in 1..Len(h) /\ e = Upto(h, Len(e))
    BY <1>1 DEF Ancestor, h
  <1>3. Tip(e) = h[Len(e)]
    BY <1>1, <1>2, UptoProps DEF Tip
  <1>4. BlockSound(h[Len(e)], Len(e) - 1, settled) /\ Keeps(h[Len(e)], h[Len(h)])
    BY <1>1, <1>2 DEF EthereumSound, BranchSound
  <1> QED BY <1>3, <1>4 DEF Number, Tip, h

LEMMA JournalEnv ==
    ASSUME IInv, Committed
    PROVE  Len(journal.env) \in Nat \ {0} /\ Ancestor(journal.env, chain[ChainOf(journal.env)])
  <1>1. Deep(journal.env) /\ ChainsInv
    BY DEF IInv, JournalDeep
  <1>2. PICK c \in Live : \E h \in Published(c) : Under(journal.env, h)
    BY <1>1 DEF Deep
  <1> QED BY <1>1, <1>2, UnderProps, DeepIsAncestor

\* A journal speaks of the chain it names, whoever made it and from whatever
\* blocks: signatures tell the chains apart (validators.rs:839, 902).
THEOREM JournalsNameTheirChain == Spec => []JournalNamesItsChain
  <1>1. ASSUME RInv PROVE JournalNamesItsChain
    <2>1. SUFFICES ASSUME Committed
                   PROVE  IF journal.op_env = NoOpEnv
                          THEN journal.chain_id = ChainOf(journal.env)
                          ELSE /\ journal.chain_id = journal.op_env.claim.of
                               /\ EthereumOf(journal.chain_id) = ChainOf(journal.env)
      BY DEF JournalNamesItsChain
    <2>2. Right(journal)
      BY <1>1, <2>1 DEF RInv, JournalRight
    <2>3. EthereumOf(journal.chain_id) = ETH
      BY <2>2, Ids DEF Right
    <2> QED BY <2>2, <2>3 DEF Right, WonRightly
  <1> QED BY <1>1, FactsHold, PTL

\* A journal marked as included rests on Ethereum: the claim of an OP-stack
\* chain is that of a game that stays won, and is right unless the guest took
\* it in the last slack of the maturity delay, and Linea had posted a block
\* with at least that number on some branch (validators.rs:409, 786).
THEOREM InclusionIsSound == Spec => []InclusionRestsOnEthereum
  <1>1. ASSUME IInv, RInv PROVE InclusionRestsOnEthereum
    <2> DEFINE head == chain[ETH]
               game == PortalOf(journal.chain_id, head).games[journal.op_env.game]
               early == Number(journal.env) - game.resolvedAt \in LastSlack
    <2>1. SUFFICES ASSUME Committed, journal.L1inclusion
                   PROVE  /\ journal.op_env # NoOpEnv =>
                                 /\ game.status = "DEFENDER_WINS"
                                 /\ game.claim = journal.op_env.claim
                                 /\ journal.op_env.claim.true \/ early
                          /\ is_linea_chain(journal.chain_id) =>
                                 \E h \in Branches(ETH) : Tip(h).posted >= Number(journal.env)
      BY DEF InclusionRestsOnEthereum, GameOf, Matured, ETH
    <2>2. Right(journal) /\ ChainsInv /\ EthereumSound
      BY <1>1, <2>1 DEF RInv, JournalRight, IInv
    <2>3. /\ Len(journal.env) \in Nat \ {0}
          /\ Ancestor(journal.env, chain[ChainOf(journal.env)])
      BY <1>1, <2>1, JournalEnv
    <2>4. ASSUME journal.op_env # NoOpEnv
          PROVE  /\ game.status = "DEFENDER_WINS" /\ game.claim = journal.op_env.claim
                 /\ journal.op_env.claim.true \/ early
      <3> DEFINE c == journal.chain_id
                 g == journal.op_env.game
                 p == PortalOf(c, journal.env)
      <3>1. ChainOf(journal.env) = ETH /\ WonRightly(c, journal.env, journal.op_env)
        BY <2>2, <2>4 DEF Right
      <3>2. /\ c \in PortalChains /\ g \in DOMAIN InitialGames[c]
            /\ p.games[g].status = "DEFENDER_WINS" /\ p.games[g].claim = journal.op_env.claim
            /\ \/ journal.op_env.claim.true
               \/ Number(journal.env) - p.games[g].resolvedAt
                      \in LastSlack
        BY <3>1 DEF WonRightly
      <3>3. /\ BlockSound(Tip(journal.env), Number(journal.env), settled)
            /\ Keeps(Tip(journal.env), Tip(chain[ETH]))
        BY <2>2, <2>3, <3>1, HeadKeeps
      <3>4. p = Tip(journal.env).portals[c] /\ PortalOf(c, head) = Tip(chain[ETH]).portals[c]
        BY DEF PortalOf
      <3> HIDE DEF c, g, p, head
      <3>5. p \in PortalsOf(c) /\ GamesKept(p, PortalOf(c, head))
        BY <3>2, <3>3, <3>4 DEF BlockSound, Keeps
      <3>6. DOMAIN p.games = DOMAIN InitialGames[c]
        BY <3>5 DEF PortalsOf
      <3>7. /\ PortalOf(c, head).games[g].claim = p.games[g].claim
            /\ PortalOf(c, head).games[g].status = "DEFENDER_WINS"
            /\ PortalOf(c, head).games[g].resolvedAt = p.games[g].resolvedAt
        BY <3>2, <3>5, <3>6 DEF GamesKept
      <3> QED BY <3>2, <3>7 DEF c, g
    <2>5. ASSUME is_linea_chain(journal.chain_id)
          PROVE  \E h \in Branches(ETH) : Tip(h).posted >= Number(journal.env)
      <3>1. PICK h \in Published(ETH) : Tip(h).posted >= Number(journal.env)
        BY <2>1, <2>2, <2>5 DEF Right
      <3>2. PICK b \in Branches(ETH) :
               /\ Len(h) \in 1..Len(b) /\ Len(b) \in Nat
               /\ \A n \in 1..Len(h) : h[n] = b[n]
        BY <2>2, PublishedProps, Bounds DEF ChainsInv
      <3>3. Len(h) \in Nat \ {0}
        BY <2>2, PublishedProps, Bounds DEF ChainsInv
      <3>4. Tip(h) = b[Len(h)] /\ Tip(b) = b[Len(b)]
        BY <3>2, <3>3 DEF Tip
      <3>5. /\ b[Len(h)].posted \in Int /\ b[Len(b)].posted \in Int
            /\ b[Len(h)].posted <= b[Len(b)].posted
        <4>1. Len(b) \in 1..Len(b)
          BY <3>2, <3>3
        <4>2. BranchSound(b, settled)
          BY <2>2 DEF EthereumSound
        <4>3. BlockSound(b[Len(h)], Len(h) - 1, settled) /\ BlockSound(b[Len(b)], Len(b) - 1, settled)
          BY <3>2, <4>1, <4>2 DEF BranchSound
        <4>4. Keeps(b[Len(h)], b[Len(b)])
          BY <3>2, <4>1, <4>2 DEF BranchSound
        <4> QED BY <4>3, <4>4 DEF BlockSound, Keeps
      <3>6. Number(journal.env) \in Int
        BY <2>3 DEF Number
      <3> QED BY <3>1, <3>4, <3>5, <3>6
    <2> QED BY <2>4, <2>5
  <1> QED BY <1>1, FactsHold, PTL

\* The host's steps and what it holds go together, and chains stay in their
\* bounds.
THEOREM CoprocessorTypes == Spec => []TypeOK
  <1>1. ASSUME IInv, RInv PROVE TypeOK
    <2>1. request \in Requests
      BY <1>1 DEF IInv, HostInv
    <2>2. /\ step \in Steps
          /\ Committed <=> step = "accepted"
      BY <1>1 DEF RInv, StepFacts
    <2>3. /\ got.env_eth_input # None => inclusion
          /\ got.op_checked # NoOpEnv \/ got.op_evm_input # NoOpEnv => settled
      BY <1>1 DEF RInv, Facts
    <2>4. ASSUME NEW c \in Live
          PROVE  Len(chain[c]) \in 1..(MaxNumber[c] + 1) /\ forks[c] \in 0..MaxForks
      <3>1. /\ Len(chain[c]) \in 1..(MaxNumber[c] + 1)
            /\ forks \in [Live -> Nat] /\ SumFunction(forks) <= MaxForks
        BY <1>1 DEF RInv, ChainBounds
      <3>2. forks[c] <= SumFunction(forks) /\ SumFunction(forks) \in Nat
        BY <3>1, FiniteLive, SumOneEntry, SumOfNat
      <3> QED BY <3>1, <3>2, Bounds
    <2> QED BY <2>1, <2>2, <2>3, <2>4 DEF TypeOK, Steps
  <1> QED BY <1>1, FactsHold, PTL

------------------------------------------------------------------------------
(* An honest host while no chain reorganises: what it has read are blocks   *)
(* of the chains as they are.                                               *)

NoForks == \A c \in Live : forks[c] = 0

Canon(c, h) == Len(h) \in 1..Len(chain[c]) /\ h = Upto(chain[c], Len(h))

\* The chain whose sequencer is asked, and the Ethereum block that its block
\* names.
Signer == IF is_opstack_chain(id) /\ ~inclusion THEN id ELSE get_default_sequencer_chain(FALSE)

OriginOf(r) == Tip(r.env_op_input).origin

HeldCommitment(r) ==
    /\ Canon(Signer, r.commitment.data)
    /\ r.commitment = SignedCommitment(Signer, r.commitment.data)

HeldOrigin(r) ==
    viaEthereumHash /\ HeldCommitment(r) /\ r.env_op_input = r.commitment.data

\* The Ethereum environment for a dispute game, two blocks below the origin.
HeldPortal(r) ==
    /\ settled /\ HeldOrigin(r)
    /\ r.block = Number(OriginOf(r))
    /\ Canon(ETH, r.env_eth_input) /\ Len(r.env_eth_input) = r.block - 1

\* A game that is the latest final one at a block.
Latest(h, env) ==
    /\ id \in PortalChains
    /\ \E g \in FinalizedGames(id, h) :
           /\ \A other \in FinalizedGames(id, h) : other <= g
           /\ env = [game |-> g, claim |-> PortalOf(id, h).games[g].claim]

\* The game that was checked was the latest at some head, and the game called
\* was at a later one.
HeldGames(r) ==
    /\ validate_opstack_dispute_game_commitment(id, r.env_eth_input, r.op_checked)
    /\ \E m \in Len(r.env_eth_input)..Len(chain[ETH]) :
           /\ Latest(Upto(chain[ETH], m), r.op_checked)
           /\ r.op_evm_input # NoOpEnv =>
                  \E k \in m..Len(chain[ETH]) : Latest(Upto(chain[ETH], k), r.op_evm_input)

\* The block up to which headers are linked, for each kind of request.
HeldHead(r) ==
    \/ is_ethereum_chain(id) /\ ~inclusion /\ HeldOrigin(r) /\ r.block = Number(OriginOf(r))
    \/ is_linea_chain(id) /\ ~inclusion
    \/ /\ is_linea_chain(id) /\ inclusion /\ HeldOrigin(r)
       /\ Canon(ETH, r.env_eth_input) /\ r.env_eth_input = OriginOf(r)
       /\ r.block = Tip(r.env_eth_input).posted
    \/ /\ is_opstack_chain(id) /\ ~inclusion /\ HeldCommitment(r)
       /\ r.block = Number(r.commitment.data)
    \/ HeldPortal(r) /\ HeldGames(r)

HeldPieces(r) ==
    /\ \A h \in r.linking : Canon(LinkingChain, h)
    /\ r.env_input # None => Canon(id, r.env_input) /\ Len(r.env_input) = r.block - 1

NoPieces(r) == r.linking = {} /\ r.env_input = None /\ r.op_evm_input = NoOpEnv

\* What the host holds before a step.
Held(s, r) ==
    /\ s = "commitment" => NoPieces(r)
    /\ s = "l1hash" => /\ NoPieces(r) /\ viaEthereumHash /\ HeldCommitment(r)
                       /\ r.block = Number(r.commitment.data)
    /\ s = "l1number" => /\ NoPieces(r) /\ HeldOrigin(r)
                         /\ r.block = Number(r.commitment.data)
    /\ s = "l1env" => NoPieces(r) /\ inclusion /\ HeldOrigin(r) /\ r.block = Number(OriginOf(r))
    /\ s = "game" => NoPieces(r) /\ HeldPortal(r)
    /\ s = "fetch" => HeldHead(r) /\ HeldPieces(r)

\* Origins are blocks of Ethereum, and Linea's headers are signed.
OriginsCanon ==
    \A c \in Live : is_opstack_chain(c) =>
        \A n \in 1..Len(chain[c]) : Canon(ETH, chain[c][n].origin)

LineaSigned ==
    \A n \in 1..Len(chain[LINEA_CHAIN_ID]) :
        chain[LINEA_CHAIN_ID][n]
            = LineaBlock(LINEA_CHAIN_ID, chain[LINEA_CHAIN_ID][n].fork, n - 1)

\* A portal's games and its last retirement only ever move on: a portal that
\* is the same at two blocks was the same in between.
GameGrew(a, b) ==
    /\ b.gameType = a.gameType /\ b.createdAt = a.createdAt /\ b.claim = a.claim
    /\ a.status # "IN_PROGRESS" => b.status = a.status /\ b.resolvedAt = a.resolvedAt
    /\ b.status = "IN_PROGRESS" => b.resolvedAt = a.resolvedAt
    /\ a.blacklisted => b.blacklisted

PortalGrew(p, q) ==
    /\ \A g \in DOMAIN p.games : GameGrew(p.games[g], q.games[g])
    /\ p.updatedAt # 0 => q.updatedAt = p.updatedAt

PortalsGrow ==
    settled => \A n \in 1..Len(chain[ETH]) : \A m \in 1..n : \A c \in PortalChains :
        PortalGrew(chain[ETH][m].portals[c], chain[ETH][n].portals[c])

ChainsHonest == LineaSigned /\ PortalsGrow /\ (NoForks => OriginsCanon)

HostHonest ==
    /\ request.by # "host" => step \notin {"l1hash", "l1number", "l1env", "game", "fetch", "refused"}
    /\ NoForks => Held(step, got)
    /\ HonestInputsAccepted

\* Together.
QInv == ChainsHonest /\ HostHonest

------------------------------------------------------------------------------
(* Blocks of the chain as it is.                                            *)

LEMMA CanonProps ==
    ASSUME BranchesTyped, NEW c \in Live, NEW h, Canon(c, h)
    PROVE  /\ IsSeq(h) /\ Len(h) \in Nat \ {0} /\ Len(h) <= Len(chain[c])
           /\ Tip(h) = chain[c][Len(h)] /\ ChainOf(h) = c
           /\ Len(h) >= 2 => ParentHash(h) = Upto(chain[c], Len(h) - 1)
           /\ h # None
  <1>1. IsSeq(chain[c]) /\ Len(chain[c]) \in Nat \ {0} /\ chain[c][1].chain = c
    BY HeadProps
  <1> DEFINE k == chain[c]
             n == Len(h)
  <1>2. n \in 1..Len(k) /\ h = Upto(k, n)
    BY DEF Canon
  <1> HIDE DEF k, n
  <1>3. IsSeq(h) /\ Len(h) = n /\ (\A j \in 1..n : h[j] = k[j])
        /\ \A m \in 1..n : Upto(h, m) = Upto(k, m)
    BY <1>1, <1>2, UptoProps DEF k
  <1>4. n \in Nat \ {0} /\ n <= Len(k) /\ n \in 1..n /\ 1 \in 1..n
    BY <1>1, <1>2 DEF k
  <1>5. n >= 2 => ParentHash(h) = Upto(k, n - 1)
    <2>1. n >= 2 => n - 1 \in 1..n
      BY <1>4
    <2> QED BY <1>3, <2>1 DEF ParentHash
  <1>6. h # None
    <2>1. Len(None) = 0
      BY DEF None
    <2> QED BY <1>3, <1>4, <2>1
  <1> QED BY <1>1, <1>3, <1>4, <1>5, <1>6 DEF k, n, Tip, ChainOf

\* Two of the same number are the same.
LEMMA CanonSame ==
    ASSUME NEW c, NEW h, NEW k, Canon(c, h), Canon(c, k), Len(h) = Len(k)
    PROVE  h = k
  BY DEF Canon

LEMMA CanonUpto ==
    ASSUME BranchesTyped, NEW c \in Live, NEW n \in 1..Len(chain[c])
    PROVE  Canon(c, Upto(chain[c], n)) /\ Len(Upto(chain[c], n)) = n
  <1>1. IsSeq(chain[c])
    BY HeadProps
  <1>2. Len(Upto(chain[c], n)) = n
    BY <1>1, UptoProps
  <1> QED BY <1>2 DEF Canon

\* A block asked for by number, and the head.
LEMMA CanonRead ==
    ASSUME BranchesTyped, NEW c \in Live
    PROVE  /\ \A n \in Nat : Exists(c, n) => /\ Canon(c, AtNumber(c, n))
                                             /\ Len(AtNumber(c, n)) = n + 1
           /\ Canon(c, chain[c])
  <1>1. IsSeq(chain[c]) /\ Len(chain[c]) \in Nat \ {0}
    BY HeadProps
  <1>2. ASSUME NEW n \in Nat, Exists(c, n)
        PROVE  Canon(c, AtNumber(c, n)) /\ Len(AtNumber(c, n)) = n + 1
    <2>1. n + 1 \in 1..Len(chain[c])
      BY <1>1, <1>2 DEF Exists
    <2> QED BY <2>1, CanonUpto DEF AtNumber
  <1>3. Canon(c, chain[c])
    BY <1>1, UptoFull DEF Canon
  <1> QED BY <1>2, <1>3

\* The origin of such a block.
LEMMA CanonOrigin ==
    ASSUME BranchesTyped, OriginsCanon, NEW c \in Live, is_opstack_chain(c), NEW h, Canon(c, h)
    PROVE  /\ Canon(ETH, Tip(h).origin) /\ Len(Tip(h).origin) \in Nat \ {0}
           /\ IsSeq(Tip(h).origin)
  <1>1. Tip(h) = chain[c][Len(h)] /\ Len(h) \in 1..Len(chain[c])
    BY CanonProps DEF Canon
  <1>2. Canon(ETH, Tip(h).origin)
    BY <1>1 DEF OriginsCanon
  <1> QED BY <1>2, CanonProps, Bounds

\* Growth keeps them.
LEMMA CanonStays ==
    ASSUME ChainsInv, NEW c \in Live, NEW watch, Grow(c, watch)
    PROVE  /\ \A d \in Live : \A h : Canon(d, h) => Canon(d, h)'
           /\ \A d \in Live : \A n : n \in 1..Len(chain[d]) =>
                  /\ n \in 1..Len(chain'[d])
                  /\ Upto(chain'[d], n) = Upto(chain[d], n)
                  /\ chain'[d][n] = chain[d][n]
  <1> PICK b \in BlocksAfter(c, chain[c], watch) : chain' = [chain EXCEPT ![c] = Append(@, b)]
    BY DEF Grow
  <1>1. IsSeq(chain[c]) /\ Len(chain[c]) \in Nat \ {0} /\ DOMAIN chain = Live
    BY HeadProps DEF ChainsInv, ChainTables
  <1> DEFINE k == Append(chain[c], b)
  <1>2. /\ Len(k) = Len(chain[c]) + 1
        /\ \A i \in 1..Len(chain[c]) : k[i] = chain[c][i]
        /\ \A n \in 1..Len(chain[c]) : Upto(k, n) = Upto(chain[c], n)
    BY <1>1, AppendProps
  <1>3. chain'[c] = k /\ \A d \in Live \ {c} : chain'[d] = chain[d]
    BY <1>1
  <1> HIDE DEF k
  <1>4. ASSUME NEW d \in Live, NEW n, n \in 1..Len(chain[d])
        PROVE  /\ n \in 1..Len(chain'[d]) /\ Upto(chain'[d], n) = Upto(chain[d], n)
               /\ chain'[d][n] = chain[d][n]
    <2>1. CASE d = c
      <3>1. n \in 1..Len(k)
        BY <1>1, <1>2, <1>4, <2>1
      <3> QED BY <1>2, <1>3, <1>4, <2>1, <3>1
    <2>2. CASE d # c
      BY <1>3, <1>4, <2>2
    <2> QED BY <2>1, <2>2
  <1>5. ASSUME NEW d \in Live, NEW h, Canon(d, h)
        PROVE  Canon(d, h)'
    BY <1>4, <1>5 DEF Canon
  <1> QED BY <1>4, <1>5

------------------------------------------------------------------------------
(* How portals move.                                                        *)

LEMMA GameGrewOrder ==
    /\ \A a : GameGrew(a, a)
    /\ \A a, b, d : GameGrew(a, b) /\ GameGrew(b, d) => GameGrew(a, d)
    /\ \A c : \A a, b \in GamesOf(c) : GameGrew(a, b) /\ GameGrew(b, a) => a = b
  <1>1. \A a : GameGrew(a, a)
    BY DEF GameGrew
  <1>2. ASSUME NEW a, NEW b, NEW d, GameGrew(a, b), GameGrew(b, d)
        PROVE  GameGrew(a, d)
    BY <1>2 DEF GameGrew
  <1>3. ASSUME NEW c, NEW a \in GamesOf(c), NEW b \in GamesOf(c), GameGrew(a, b), GameGrew(b, a)
        PROVE  a = b
    <2>1. /\ a.blacklisted \in BOOLEAN /\ b.blacklisted \in BOOLEAN
      BY DEF GamesOf
    <2>2. a.blacklisted = b.blacklisted
      BY <1>3, <2>1 DEF GameGrew
    <2>3. a.status = b.status /\ a.resolvedAt = b.resolvedAt
      BY <1>3 DEF GameGrew
    <2>4. a.gameType = b.gameType /\ a.createdAt = b.createdAt /\ a.claim = b.claim
      BY <1>3 DEF GameGrew
    <2> QED BY <2>2, <2>3, <2>4 DEF GamesOf
  <1> QED BY <1>1, <1>2, <1>3

LEMMA PortalGrewOrder ==
    ASSUME NEW c, NEW p \in PortalsOf(c), NEW q \in PortalsOf(c), NEW r \in PortalsOf(c)
    PROVE  /\ PortalGrew(p, p)
           /\ PortalGrew(p, q) /\ PortalGrew(q, r) => PortalGrew(p, r)
           /\ PortalGrew(p, q) /\ PortalGrew(q, p) => p = q
  <1> DEFINE D == DOMAIN InitialGames[c]
  <1>1. /\ p.games \in [D -> GamesOf(c)] /\ q.games \in [D -> GamesOf(c)]
        /\ r.games \in [D -> GamesOf(c)]
        /\ p.updatedAt \in Nat /\ q.updatedAt \in Nat /\ r.updatedAt \in Nat
    BY DEF PortalsOf
  <1>2. PortalGrew(p, p)
    BY GameGrewOrder DEF PortalGrew
  <1>3. ASSUME PortalGrew(p, q), PortalGrew(q, r)
        PROVE  PortalGrew(p, r)
    <2>1. ASSUME NEW g \in D PROVE GameGrew(p.games[g], r.games[g])
      <3>1. GameGrew(p.games[g], q.games[g]) /\ GameGrew(q.games[g], r.games[g])
        BY <1>1, <1>3 DEF PortalGrew
      <3> QED BY <3>1, GameGrewOrder
    <2> QED BY <1>1, <1>3, <2>1 DEF PortalGrew
  <1>4. ASSUME PortalGrew(p, q), PortalGrew(q, p)
        PROVE  p = q
    <2>1. ASSUME NEW g \in D PROVE p.games[g] = q.games[g]
      <3>1. GameGrew(p.games[g], q.games[g]) /\ GameGrew(q.games[g], p.games[g])
        BY <1>1, <1>4 DEF PortalGrew
      <3>2. p.games[g] \in GamesOf(c) /\ q.games[g] \in GamesOf(c)
        BY <1>1
      <3> QED BY <3>1, <3>2, GameGrewOrder
    <2>2. p.games = q.games
      BY <1>1, <2>1
    <2>3. p.updatedAt = q.updatedAt
      BY <1>1, <1>4 DEF PortalGrew
    <2> QED BY <2>2, <2>3 DEF PortalsOf
  <1> QED BY <1>2, <1>3, <1>4

\* What a block does to a portal moves it on.
LEMMA PortalStepGrows ==
    ASSUME NEW c \in PortalChains, NEW p \in PortalsOf(c), NEW t, NEW q \in PortalSteps(p, t)
    PROVE  PortalGrew(p, q)
  <1> DEFINE D == DOMAIN InitialGames[c]
  <1>1. p.games \in [D -> GamesOf(c)] /\ DOMAIN p = {"games", "updatedAt"} /\ DOMAIN p.games = D
    BY DEF PortalsOf
  <1>2. CASE q = p
    BY <1>2, GameGrewOrder DEF PortalGrew
  <1>3. CASE q = Retired(p, t)
    <2>1. q.games = p.games /\ (p.updatedAt # 0 => q.updatedAt = p.updatedAt)
      BY <1>1, <1>3 DEF Retired
    <2> QED BY <2>1, GameGrewOrder DEF PortalGrew
  <1>4. ASSUME NEW g \in D, NEW s \in {"DEFENDER_WINS", "CHALLENGER_WINS"},
               p.games[g].status = "IN_PROGRESS", q = Resolved(p, g, s, t)
        PROVE  PortalGrew(p, q)
    <2> DEFINE new == [[p.games[g] EXCEPT !.status = s] EXCEPT !.resolvedAt = t]
    <2>1. /\ q.games = [p.games EXCEPT ![g] = new] /\ q.updatedAt = p.updatedAt
      BY <1>1, <1>4 DEF Resolved
    <2>2. GameGrew(p.games[g], new)
      <3>1. p.games[g] \in GamesOf(c)
        BY <1>1
      <3>2. /\ new.gameType = p.games[g].gameType /\ new.createdAt = p.games[g].createdAt
            /\ new.claim = p.games[g].claim /\ new.blacklisted = p.games[g].blacklisted
            /\ new.status = s
        BY <3>1 DEF GamesOf
      <3>3. s # "IN_PROGRESS"
        OBVIOUS
      <3> HIDE DEF new
      <3> QED BY <1>4, <3>2, <3>3 DEF GameGrew
    <2> HIDE DEF new
    <2>3. ASSUME NEW x \in D PROVE GameGrew(p.games[x], q.games[x])
      <3>1. q.games[x] = IF x = g THEN new ELSE p.games[x]
        BY <1>1, <2>1
      <3> QED BY <2>2, <3>1, GameGrewOrder
    <2> QED BY <1>1, <2>1, <2>3 DEF PortalGrew
  <1>5. ASSUME NEW g \in D, q = Blacklisted(p, g)
        PROVE  PortalGrew(p, q)
    <2> DEFINE new == [p.games[g] EXCEPT !.blacklisted = TRUE]
    <2>1. /\ q.games = [p.games EXCEPT ![g] = new] /\ q.updatedAt = p.updatedAt
      BY <1>1, <1>5 DEF Blacklisted
    <2>2. GameGrew(p.games[g], new)
      <3>1. p.games[g] \in GamesOf(c)
        BY <1>1
      <3> QED BY <3>1 DEF GamesOf, GameGrew
    <2> HIDE DEF new
    <2>3. ASSUME NEW x \in D PROVE GameGrew(p.games[x], q.games[x])
      <3>1. q.games[x] = IF x = g THEN new ELSE p.games[x]
        BY <1>1, <2>1
      <3> QED BY <2>2, <3>1, GameGrewOrder
    <2> QED BY <1>1, <2>1, <2>3 DEF PortalGrew
  <1>6. \/ q = p \/ q = Retired(p, t)
        \/ \E g \in D, s \in {"DEFENDER_WINS", "CHALLENGER_WINS"} :
             /\ p.games[g].status = "IN_PROGRESS"
             /\ q = Resolved(p, g, s, t)
        \/ \E g \in D : q = Blacklisted(p, g)
    <2>1. q \in PortalChanges(p, t)
      BY DEF PortalSteps
    <2> QED BY <1>1, <2>1 DEF PortalChanges
  <1> QED BY <1>2, <1>3, <1>4, <1>5, <1>6

\* The same portal at two blocks was the same in between.
LEMMA PortalBetween ==
    ASSUME ChainsInv, EthereumSound, PortalsGrow, settled, NEW c \in PortalChains,
           NEW n \in 1..Len(chain[ETH]), NEW m \in 1..n, NEW k \in m..n,
           PortalOf(c, Upto(chain[ETH], m)) = PortalOf(c, Upto(chain[ETH], n))
    PROVE  PortalOf(c, Upto(chain[ETH], k)) = PortalOf(c, Upto(chain[ETH], n))
  <1> DEFINE h == chain[ETH]
  <1>1. IsSeq(h) /\ Len(h) \in Nat \ {0} /\ h \in Branches(ETH)
    BY HeadProps, Bounds DEF ChainsInv
  <1>2. m \in 1..Len(h) /\ k \in 1..Len(h) /\ m \in 1..k /\ k \in 1..n
    BY <1>1
  <1>3. \A j \in 1..Len(h) : PortalOf(c, Upto(h, j)) = h[j].portals[c]
    <2> SUFFICES ASSUME NEW j \in 1..Len(h) PROVE PortalOf(c, Upto(h, j)) = h[j].portals[c]
      OBVIOUS
    <2>1. Len(Upto(h, j)) = j /\ Upto(h, j)[j] = h[j]
      <3>1. j \in 1..j
        BY <1>1
      <3> QED BY <1>1, <3>1, UptoProps
    <2> QED BY <2>1 DEF PortalOf, Tip
  <1>4. \A j \in 1..Len(h) : h[j].portals[c] \in PortalsOf(c)
    BY <1>1 DEF EthereumSound, BranchSound, BlockSound
  <1>5. /\ PortalGrew(h[m].portals[c], h[k].portals[c])
        /\ PortalGrew(h[k].portals[c], h[n].portals[c])
    BY <1>1, <1>2 DEF PortalsGrow
  <1>6. h[m].portals[c] = h[n].portals[c]
    BY <1>2, <1>3
  <1>7. h[k].portals[c] = h[n].portals[c]
    BY <1>2, <1>4, <1>5, <1>6, PortalGrewOrder
  <1> QED BY <1>2, <1>3, <1>7

------------------------------------------------------------------------------
(* The chains stay as honest hosts find them.                               *)

\* Without reorganisations there is growth only.
LEMMA OnlyGrowth ==
    ASSUME ChainBounds, NEW c \in Live, NEW watch, Grow(c, watch) \/ Reorg(c), NoForks'
    PROVE  NoForks /\ Grow(c, watch)
  <1>1. forks \in [Live -> Nat]
    BY DEF ChainBounds
  <1>2. CASE Grow(c, watch)
    BY <1>2 DEF Grow, NoForks
  <1>3. CASE Reorg(c)
    <2>1. forks'[c] = forks[c] + 1 /\ forks[c] \in Nat
      BY <1>1, <1>3 DEF Reorg
    <2>2. forks'[c] = 0
      BY DEF NoForks
    <2> QED BY <2>1, <2>2
  <1> QED BY <1>2, <1>3

LEMMA OriginsStay ==
    ASSUME ChainsInv, OriginsCanon, NEW c \in Live, NEW watch, Grow(c, watch)
    PROVE  OriginsCanon'
  <1> PICK b \in BlocksAfter(c, chain[c], watch) : chain' = [chain EXCEPT ![c] = Append(@, b)]
    BY DEF Grow
  <1> DEFINE h == chain[c]
             e == chain[ETH]
  <1>1. /\ IsSeq(h) /\ Len(h) \in Nat \ {0} /\ DOMAIN chain = Live /\ BranchesTyped
        /\ IsSeq(e) /\ Len(e) \in Nat \ {0} /\ ETH \in Live
    BY HeadProps, Bounds DEF ChainsInv, ChainTables
  <1>2. ASSUME is_opstack_chain(c) PROVE Canon(ETH, b.origin)
    <2>1. b \in OpstackBlocks(c, h)
      BY <1>2, Ids DEF BlocksAfter
    <2>2. PICK n \in {Len(e) - 1, Len(e)} : n >= Len(Tip(h).origin) /\ b.origin = Upto(e, n)
      <3>1. e = chain[ETHEREUM_CHAIN_ID]
        BY DEF ETH
      <3> HIDE DEF e, h
      <3> QED BY <2>1, <3>1 DEF OpstackBlocks
    <2>3. Len(Tip(h).origin) \in Nat \ {0}
      BY <1>1, <1>2, CanonRead, CanonOrigin
    <2>4. n \in 1..Len(e)
      <3> HIDE DEF h, e
      <3> QED BY <1>1, <2>2, <2>3
    <2> QED BY <1>1, <2>2, <2>4, CanonUpto
  <1>3. /\ chain'[c] = Append(h, b) /\ \A d \in Live \ {c} : chain'[d] = chain[d]
        /\ Len(Append(h, b)) = Len(h) + 1 /\ Append(h, b)[Len(h) + 1] = b
        /\ \A i \in 1..Len(h) : Append(h, b)[i] = h[i]
    BY <1>1, AppendProps
  <1>4. \A x : Canon(ETH, x) => Canon(ETH, x)'
    BY <1>1, CanonStays
  <1> SUFFICES ASSUME NEW d \in Live, is_opstack_chain(d), NEW n \in 1..Len(chain'[d])
               PROVE  Canon(ETH, chain'[d][n].origin)
    BY <1>4 DEF OriginsCanon
  <1>5. CASE n \in 1..Len(chain[d])
    <2>1. Canon(ETH, chain[d][n].origin)
      BY <1>5 DEF OriginsCanon
    <2>2. chain'[d][n] = chain[d][n]
      BY <1>3, <1>5
    <2> QED BY <2>1, <2>2
  <1>6. CASE d = c /\ n = Len(h) + 1
    BY <1>2, <1>3, <1>6
  <1>7. n \in 1..Len(chain[d]) \/ (d = c /\ n = Len(h) + 1)
    <2>1. CASE d = c
      <3> HIDE DEF h, e
      <3>1. n \in 1..(Len(h) + 1)
        BY <1>3, <2>1
      <3>2. n \in 1..Len(h) \/ n = Len(h) + 1
        BY <1>1, <3>1
      <3> QED BY <2>1, <3>2 DEF h
    <2>2. CASE d # c
      BY <1>3, <2>2
    <2> QED BY <2>1, <2>2
  <1> QED BY <1>5, <1>6, <1>7

LEMMA LineaStays ==
    ASSUME ChainsInv, LineaSigned, NEW c \in Live, NEW watch, Grow(c, watch) \/ Reorg(c)
    PROVE  LineaSigned'
  <1> DEFINE L == LINEA_CHAIN_ID
             h == chain[L]
  <1>1. IsSeq(h) /\ Len(h) \in Nat \ {0} /\ L \in Live /\ DOMAIN chain = Live
    BY HeadProps, Bounds DEF ChainsInv, ChainTables
  <1>2. \A n \in 1..Len(h) : h[n] = LineaBlock(L, h[n].fork, n - 1)
    BY DEF LineaSigned
  <1>3. CASE chain'[L] = h
    BY <1>3, <1>2 DEF LineaSigned
  <1>4. ASSUME NEW b, b \in BlocksAfter(L, h, watch), chain'[L] = Append(h, b)
        PROVE  LineaSigned'
    <2>1. b = LineaBlock(L, forks[L], Number(h) + 1)
      <3>1. ~is_ethereum_chain(L) /\ ~is_opstack_chain(L)
        BY DEF is_ethereum_chain, is_opstack_chain, LINEA_CHAIN_ID, ETHEREUM_CHAIN_ID,
           OPTIMISM_CHAIN_ID, BASE_CHAIN_ID, ETHEREUM_SEPOLIA_CHAIN_ID,
           OPTIMISM_SEPOLIA_CHAIN_ID, BASE_SEPOLIA_CHAIN_ID
      <3> QED BY <1>4, <3>1 DEF BlocksAfter
    <2>2. b.fork = forks[L] /\ Number(h) + 1 = Len(h)
      BY <1>1, <2>1 DEF LineaBlock, Number
    <2>3. b = LineaBlock(L, b.fork, Len(h))
      BY <2>1, <2>2
    <2>4. /\ Len(Append(h, b)) = Len(h) + 1 /\ Append(h, b)[Len(h) + 1] = b
          /\ \A i \in 1..Len(h) : Append(h, b)[i] = h[i]
      BY <1>1, AppendProps
    <2> DEFINE k == Append(h, b)
    <2> HIDE DEF k
    <2>5. ASSUME NEW n \in 1..(Len(h) + 1) PROVE k[n] = LineaBlock(L, k[n].fork, n - 1)
      <3>1. CASE n \in 1..Len(h)
        BY <1>2, <2>4, <3>1 DEF k
      <3>2. CASE n = Len(h) + 1
        <4>1. n - 1 = Len(h)
          BY <1>1, <3>2
        <4> QED BY <2>3, <2>4, <3>2, <4>1 DEF k
      <3> QED BY <1>1, <3>1, <3>2
    <2> QED BY <1>4, <2>4, <2>5 DEF LineaSigned, k
  <1>5. ASSUME NEW n \in 1..Len(h), chain'[L] = Upto(h, n)
        PROVE  LineaSigned'
    <2>1. Len(Upto(h, n)) = n /\ \A j \in 1..n : Upto(h, n)[j] = h[j]
      BY <1>1, UptoProps
    <2>2. \A j \in 1..n : j \in 1..Len(h)
      BY <1>1
    <2> QED BY <1>2, <1>5, <2>1, <2>2 DEF LineaSigned
  <1>6. CASE Grow(c, watch)
    <2> PICK b \in BlocksAfter(c, chain[c], watch) : chain' = [chain EXCEPT ![c] = Append(@, b)]
      BY <1>6 DEF Grow
    <2>1. CASE c = L
      BY <1>1, <1>4, <2>1
    <2>2. CASE c # L
      BY <1>1, <1>3, <2>2
    <2> QED BY <2>1, <2>2
  <1>7. CASE Reorg(c)
    <2> PICK n \in 1..(Len(chain[c]) - 1) : chain' = [chain EXCEPT ![c] = Upto(@, n)]
      BY <1>7 DEF Reorg
    <2>1. CASE c = L
      <3>1. n \in 1..Len(h) /\ chain'[L] = Upto(h, n)
        BY <1>1, <2>1
      <3> QED BY <3>1, <1>5
    <2>2. CASE c # L
      BY <1>1, <1>3, <2>2
    <2> QED BY <2>1, <2>2
  <1> QED BY <1>6, <1>7

LEMMA PortalsStay ==
    ASSUME ChainsInv, EthereumSound, PortalsGrow, NEW c \in Live,
           Grow(c, Watched) \/ Reorg(c), settled' = settled
    PROVE  PortalsGrow'
  <1> DEFINE h == chain[ETH]
             Moved(k) == \A n \in 1..Len(k) : \A m \in 1..n : \A d \in PortalChains :
                             PortalGrew(k[m].portals[d], k[n].portals[d])
  <1> SUFFICES ASSUME settled PROVE Moved(chain'[ETH])
    BY DEF PortalsGrow
  <1>1. /\ IsSeq(h) /\ Len(h) \in Nat \ {0} /\ ETH \in Live /\ DOMAIN chain = Live
        /\ h \in Branches(ETH)
    BY HeadProps, Bounds DEF ChainsInv, ChainTables
  <1>2. Moved(h)
    BY DEF PortalsGrow
  <1>3. \A n \in 1..Len(h) : \A d \in PortalChains : h[n].portals[d] \in PortalsOf(d)
    BY <1>1 DEF EthereumSound, BranchSound, BlockSound
  <1>4. ASSUME NEW b \in EthereumBlocks(h, Watched), chain'[ETH] = Append(h, b)
        PROVE  Moved(chain'[ETH])
    <2> DEFINE L == Len(h)
               k == Append(h, b)
    <2>1. Len(k) = L + 1 /\ k[L + 1] = b /\ \A i \in 1..L : k[i] = h[i]
      BY <1>1, AppendProps
    <2>2. \A d \in PortalChains : b.portals[d] \in PortalSteps(PortalOf(d, h), Number(h) + 1)
      BY DEF EthereumBlocks, Watched
    <2>3. Len(h) \in 1..Len(h) /\ \A d \in PortalChains : PortalOf(d, h) = h[L].portals[d]
      BY <1>1 DEF PortalOf, Tip
    <2>4. ASSUME NEW d \in PortalChains
          PROVE  /\ b.portals[d] \in PortalsOf(d)
                 /\ PortalGrew(h[L].portals[d], b.portals[d])
      <3>1. h[L].portals[d] \in PortalsOf(d) /\ Number(h) + 1 \in Nat
        BY <1>1, <1>3, <2>3 DEF Number
      <3>2. b.portals[d] \in PortalSteps(h[L].portals[d], Number(h) + 1)
        BY <2>2, <2>3
      <3> QED BY <3>1, <3>2, PortalStepGrows, PortalStepKept
    <2> HIDE DEF k, L
    <2>5. ASSUME NEW n \in 1..(L + 1), NEW m \in 1..n, NEW d \in PortalChains
          PROVE  PortalGrew(k[m].portals[d], k[n].portals[d])
      <3>1. CASE n \in 1..L
        <4>1. m \in 1..L
          BY <1>1, <3>1 DEF L
        <4>2. PortalGrew(h[m].portals[d], h[n].portals[d])
          BY <1>2, <3>1 DEF L
        <4> QED BY <2>1, <3>1, <4>1, <4>2
      <3>2. CASE n = L + 1 /\ m \in 1..L
        <4>1. PortalGrew(h[m].portals[d], h[L].portals[d])
          BY <1>2, <2>3, <3>2 DEF L
        <4>2. h[m].portals[d] \in PortalsOf(d) /\ h[L].portals[d] \in PortalsOf(d)
          BY <1>3, <2>3, <3>2 DEF L
        <4>3. PortalGrew(h[m].portals[d], b.portals[d])
          BY <2>4, <4>1, <4>2, PortalGrewOrder
        <4> QED BY <2>1, <3>2, <4>3
      <3>3. CASE n = L + 1 /\ m = L + 1
        BY <2>1, <2>4, <3>3, PortalGrewOrder
      <3>4. L \in Nat
        BY <1>1 DEF L
      <3> QED BY <3>1, <3>2, <3>3, <3>4
    <2>6. chain'[ETH] = k
      BY <1>4 DEF k
    <2> QED BY <2>1, <2>5, <2>6
  <1>5. ASSUME NEW n \in 1..Len(h), chain'[ETH] = Upto(h, n)
        PROVE  Moved(chain'[ETH])
    <2>1. Len(Upto(h, n)) = n /\ \A j \in 1..n : Upto(h, n)[j] = h[j]
      BY <1>1, UptoProps
    <2>2. \A j \in 1..n : j \in 1..Len(h) /\ \A m \in 1..j : m \in 1..n
      BY <1>1
    <2>3. ASSUME NEW j \in 1..n, NEW m \in 1..j, NEW d \in PortalChains
          PROVE  PortalGrew(Upto(h, n)[m].portals[d], Upto(h, n)[j].portals[d])
      BY <1>2, <2>1, <2>2
    <2> QED BY <1>5, <2>1, <2>3
  <1>6. CASE Grow(c, Watched)
    <2> PICK b \in BlocksAfter(c, chain[c], Watched) : chain' = [chain EXCEPT ![c] = Append(@, b)]
      BY <1>6 DEF Grow
    <2>1. CASE c = ETH
      <3>1. b \in EthereumBlocks(h, Watched)
        BY <2>1, Ids DEF BlocksAfter
      <3>2. chain'[ETH] = Append(h, b)
        BY <1>1, <2>1
      <3> QED BY <1>4, <3>1, <3>2
    <2>2. CASE c # ETH
      <3>1. chain'[ETH] = h
        BY <1>1, <2>2
      <3> QED BY <1>2, <3>1
    <2> QED BY <2>1, <2>2
  <1>7. CASE Reorg(c)
    <2> PICK n \in 1..(Len(chain[c]) - 1) : chain' = [chain EXCEPT ![c] = Upto(@, n)]
      BY <1>7 DEF Reorg
    <2>1. CASE c = ETH
      <3>1. n \in 1..Len(h) /\ chain'[ETH] = Upto(h, n)
        BY <1>1, <2>1
      <3> QED BY <3>1, <1>5
    <2>2. CASE c # ETH
      <3>1. chain'[ETH] = h
        BY <1>1, <2>2
      <3> QED BY <1>2, <3>1
    <2> QED BY <2>1, <2>2
  <1> QED BY <1>6, <1>7

LEMMA InitHonest ==
    ASSUME Init
    PROVE  QInv
  <1>1. /\ \A c \in Live : chain[c] = StartOf(c)
        /\ step = "commitment" /\ got = NothingRead
    BY DEF Init, ChainsInit, HostInit
  <1>2. HostHonest
    BY <1>1 DEF HostHonest, Held, NoPieces, NothingRead, HonestInputsAccepted
  <1>3. LineaSigned
    <2> DEFINE L == LINEA_CHAIN_ID
               N == StartNumber[L] + 1
    <2>1. ~is_ethereum_chain(L) /\ ~is_opstack_chain(L) /\ L \in Live /\ N \in Nat
      BY Bounds DEF is_ethereum_chain, is_opstack_chain, LINEA_CHAIN_ID, ETHEREUM_CHAIN_ID,
         OPTIMISM_CHAIN_ID, BASE_CHAIN_ID, ETHEREUM_SEPOLIA_CHAIN_ID,
         OPTIMISM_SEPOLIA_CHAIN_ID, BASE_SEPOLIA_CHAIN_ID
    <2>2. chain[L] = [i \in 1..N |-> LineaBlock(L, 0, i - 1)]
      BY <1>1, <2>1 DEF StartOf
    <2>3. Len(chain[L]) = N /\ \A n \in 1..N : chain[L][n] = LineaBlock(L, 0, n - 1)
      <3> HIDE DEF N, L
      <3>1. \A n \in 1..N : chain[L][n] = LineaBlock(L, 0, n - 1)
        BY <2>2
      <3>2. chain[L] = [i \in 1..N |-> chain[L][i]]
        BY <2>2
      <3> QED BY <2>1, <3>1, <3>2, FunctionIsSeq
    <2>4. \A n : LineaBlock(L, 0, n - 1).fork = 0
      BY DEF LineaBlock
    <2> HIDE DEF N
    <2> QED BY <2>3, <2>4 DEF LineaSigned
  <1> DEFINE E == EthereumStart
             N == StartNumber[ETH] + 1
  <1>4. /\ chain[ETH] = E /\ N \in Nat /\ E = [i \in 1..N |-> E[i]]
        /\ \A i \in 1..N : E[i].portals = [c \in PortalChains |-> [games |-> InitialGames[c], updatedAt |-> 0]]
    <2>1. chain[ETH] = E /\ N \in Nat
      <3>1. ETH \in Live /\ is_ethereum_chain(ETH) /\ StartNumber \in [Live -> Nat]
        BY Bounds, Ids
      <3>2. StartOf(ETH) = E
        BY <3>1 DEF StartOf
      <3>3. N \in Nat
        BY <3>1
      <3> QED BY <1>1, <3>1, <3>2, <3>3
    <2>2. /\ DOMAIN E = 1..N
          /\ \A i \in 1..N : E[i].portals = [c \in PortalChains |-> [games |-> InitialGames[c], updatedAt |-> 0]]
      BY DEF EthereumStart, ETH
    <2>3. E = [i \in 1..N |-> E[i]]
      BY DEF EthereumStart, ETH
    <2> QED BY <2>1, <2>2, <2>3
  <1> HIDE DEF E, N
  <1>5. IsSeq(E) /\ Len(E) = N
    BY <1>4, FunctionIsSeq
  <1>6. PortalsGrow
    <2> SUFFICES ASSUME NEW n \in 1..N, NEW m \in 1..n, NEW c \in PortalChains
                 PROVE  PortalGrew(E[m].portals[c], E[n].portals[c])
      BY <1>4, <1>5 DEF PortalsGrow
    <2>1. m \in 1..N
      BY <1>4
    <2>2. E[m].portals[c] = E[n].portals[c]
      BY <1>4, <2>1
    <2> QED BY <2>2, GameGrewOrder DEF PortalGrew
  <1>7. OriginsCanon
    <2> SUFFICES ASSUME NEW c \in Live, is_opstack_chain(c), NEW n \in 1..Len(chain[c])
                 PROVE  Canon(ETH, chain[c][n].origin)
      BY DEF OriginsCanon
    <2> DEFINE M == StartNumber[c] + 1
    <2>1. M \in Nat /\ M <= N
      BY StartBounds, Bounds DEF N
    <2>2. chain[c] = [i \in 1..M |-> [chain |-> c, fork |-> 0, origin |-> Upto(E, i)]]
      BY <1>1, Ids DEF StartOf, E
    <2> HIDE DEF M
    <2>3. Len(chain[c]) = M /\ \A i \in 1..M : chain[c][i].origin = Upto(E, i)
      <3>1. chain[c] = [i \in 1..M |-> chain[c][i]]
        BY <2>2
      <3>2. Len(chain[c]) = M
        BY <2>1, <3>1, FunctionIsSeq
      <3>3. \A i \in 1..M : chain[c][i] = [chain |-> c, fork |-> 0, origin |-> Upto(E, i)]
        BY <2>2
      <3>4. ASSUME NEW i \in 1..M PROVE chain[c][i].origin = Upto(E, i)
        <4> DEFINE block == [chain |-> c, fork |-> 0, origin |-> Upto(E, i)]
        <4>1. block.origin = Upto(E, i)
          OBVIOUS
        <4>2. chain[c][i] = block
          BY <3>3
        <4> HIDE DEF block
        <4> QED BY <4>1, <4>2
      <3> QED BY <3>2, <3>4
    <2>4. n \in 1..N
      BY <1>4, <2>1, <2>3
    <2>5. Len(Upto(E, n)) = n
      BY <1>5, <2>4, UptoProps
    <2> QED BY <1>4, <1>5, <2>3, <2>4, <2>5 DEF Canon
  <1> QED BY <1>2, <1>3, <1>6, <1>7 DEF QInv, ChainsHonest

LEMMA ChainsHonestStay ==
    ASSUME ChainsInv, HostInv, EthereumSound, ChainBounds, ChainsHonest, ChainMoves
    PROVE  ChainsHonest' /\ (NoForks' => NoForks)
  <1>1. PICK c \in Watched.chains : Grow(c, Watched) \/ Reorg(c)
    BY DEF ChainMoves
  <1>2. c \in Live /\ settled' = settled
    BY RequestChains DEF HostInv, ChainMoves, hostVars, settled, inclusion, id
  <1>3. LineaSigned'
    BY <1>1, <1>2, LineaStays DEF ChainsHonest
  <1>4. PortalsGrow'
    BY <1>1, <1>2, PortalsStay DEF ChainsHonest
  <1>5. NoForks' => NoForks /\ OriginsCanon'
    BY <1>1, <1>2, OnlyGrowth, OriginsStay DEF ChainsHonest
  <1> QED BY <1>3, <1>4, <1>5 DEF ChainsHonest

------------------------------------------------------------------------------
(* What the host holds stays so while chains grow.                          *)

LEMMA HeldStays ==
    ASSUME ChainsInv, request \in Requests, NEW c \in Live, NEW watch, Grow(c, watch),
           UNCHANGED <<request, step, got>>, Held(step, got)
    PROVE  Held(step, got)'
  <1> DEFINE e == chain[ETH]
  <1>0. request' = request /\ step' = step /\ got' = got
    OBVIOUS
  <1>1. /\ \A d \in Live : \A h : Canon(d, h) => Canon(d, h)'
        /\ \A n : n \in 1..Len(e) => n \in 1..Len(chain'[ETH]) /\ Upto(chain'[ETH], n) = Upto(e, n)
    BY CanonStays, Bounds
  <1>2. /\ id' = id /\ inclusion' = inclusion /\ settled' = settled
        /\ viaEthereumHash' = viaEthereumHash /\ LinkingChain' = LinkingChain /\ Signer' = Signer
    BY DEF id, inclusion, settled, viaEthereumHash, LinkingChain, Signer
  <1>3. /\ id \in Live /\ LinkingChain \in Live /\ ETH \in Live /\ Signer \in Live
        /\ Len(e) \in Nat \ {0} /\ Len(chain'[ETH]) >= Len(e)
    <2>1. id \in Live /\ LinkingChain \in Live /\ ETH \in Live /\ Signer \in Live
      BY RequestChains, Ids DEF Signer
    <2>2. Len(e) \in Nat \ {0}
      BY <2>1, HeadProps DEF ChainsInv
    <2>3. Len(e) \in 1..Len(e)
      BY <2>2
    <2> QED BY <1>1, <2>1, <2>2, <2>3
  <1>4. HeldCommitment(got) => HeldCommitment(got)'
    BY <1>1, <1>2, <1>3 DEF HeldCommitment
  <1>5. HeldOrigin(got) => HeldOrigin(got)'
    BY <1>2, <1>4 DEF HeldOrigin
  <1>6. OriginOf(got)' = OriginOf(got)
    BY DEF OriginOf
  <1>7. HeldPortal(got) => HeldPortal(got)'
    BY <1>1, <1>2, <1>3, <1>5, <1>6 DEF HeldPortal
  <1>8. HeldPieces(got) => HeldPieces(got)'
    BY <1>1, <1>2, <1>3 DEF HeldPieces
  <1>9. ASSUME NEW h, NEW env, Latest(h, env) PROVE Latest(h, env)'
    BY <1>2, <1>9 DEF Latest
  <1>10. ASSUME HeldPortal(got), HeldGames(got) PROVE HeldGames(got)'
    <2>1. Len(got.env_eth_input) \in 1..Len(e)
      BY <1>10 DEF HeldPortal, Canon
    <2>2. PICK m \in Len(got.env_eth_input)..Len(e) :
             /\ Latest(Upto(e, m), got.op_checked)
             /\ got.op_evm_input # NoOpEnv =>
                    \E k \in m..Len(e) : Latest(Upto(e, k), got.op_evm_input)
      BY <1>10 DEF HeldGames
    <2>3. m \in 1..Len(e)
      BY <1>3, <2>1
    <2>4. m \in Len(got.env_eth_input)..Len(chain'[ETH]) /\ Upto(chain'[ETH], m) = Upto(e, m)
      BY <1>1, <2>1, <2>3
    <2>5. ASSUME got.op_evm_input # NoOpEnv
          PROVE  (\E k \in m..Len(chain[ETH]) : Latest(Upto(chain[ETH], k), got.op_evm_input))'
      <3>1. PICK k \in m..Len(e) : Latest(Upto(e, k), got.op_evm_input)
        BY <2>2, <2>5
      <3>2. k \in 1..Len(e)
        BY <1>3, <2>3
      <3>3. k \in m..Len(chain'[ETH]) /\ Upto(chain'[ETH], k) = Upto(e, k)
        BY <1>1, <2>3, <3>2
      <3> QED BY <1>0, <1>9, <3>1, <3>3
    <2>6. Latest(Upto(chain[ETH], m), got.op_checked)'
      BY <1>0, <1>9, <2>2, <2>4
    <2>7. validate_opstack_dispute_game_commitment(id, got.env_eth_input, got.op_checked)'
      BY <1>2, <1>10 DEF HeldGames, validate_opstack_dispute_game_commitment
    <2> QED BY <1>0, <2>4, <2>5, <2>6, <2>7 DEF HeldGames
  <1>11. HeldHead(got) => HeldHead(got)'
    BY <1>1, <1>2, <1>3, <1>4, <1>5, <1>6, <1>7, <1>10 DEF HeldHead
  <1>12. NoPieces(got) => NoPieces(got)'
    BY DEF NoPieces
  <1> QED BY <1>2, <1>4, <1>5, <1>6, <1>7, <1>8, <1>11, <1>12 DEF Held

------------------------------------------------------------------------------
(* What the host holds after a read.                                        *)

\* A step that leaves the chains alone goes on with facts that are held.
LEMMA GoesHeld ==
    ASSUME UNCHANGED chainVars, NEW next, NEW facts, Goto(next, facts), Held(next, facts)
    PROVE  Held(step, got)'
  <1>1. /\ request' = request /\ step' = next /\ got' = facts /\ chain' = chain
        /\ id' = id /\ inclusion' = inclusion /\ settled' = settled
        /\ viaEthereumHash' = viaEthereumHash /\ LinkingChain' = LinkingChain /\ Signer' = Signer
    BY DEF Goto, chainVars, id, inclusion, settled, viaEthereumHash, LinkingChain, Signer
  <1>2. \A d, h : Canon(d, h)' = Canon(d, h)
    BY <1>1 DEF Canon
  <1>3. HeldCommitment(got)' = HeldCommitment(facts)
    BY <1>1, <1>2 DEF HeldCommitment
  <1>4. HeldOrigin(got)' = HeldOrigin(facts)
    BY <1>1, <1>3 DEF HeldOrigin
  <1>5. OriginOf(got)' = OriginOf(facts)
    BY <1>1 DEF OriginOf
  <1>6. HeldPortal(got)' = HeldPortal(facts)
    BY <1>1, <1>2, <1>4, <1>5 DEF HeldPortal
  <1>7. \A h, env : Latest(h, env)' = Latest(h, env)
    BY <1>1 DEF Latest
  <1>8. HeldGames(got)' = HeldGames(facts)
    BY <1>1, <1>7 DEF HeldGames
  <1>9. HeldHead(got)' = HeldHead(facts)
    BY <1>1, <1>2, <1>3, <1>4, <1>5, <1>6, <1>8 DEF HeldHead
  <1>10. HeldPieces(got)' = HeldPieces(facts)
    BY <1>1, <1>2 DEF HeldPieces
  <1>11. NoPieces(got)' = NoPieces(facts)
    BY <1>1 DEF NoPieces
  <1> QED BY <1>1, <1>3, <1>4, <1>5, <1>6, <1>9, <1>10, <1>11 DEF Held

\* Asking adds to what was asked and to nothing else.
Same(r, q) ==
    /\ DOMAIN r = Fields /\ DOMAIN q = Fields
    /\ q.commitment = r.commitment /\ q.block = r.block /\ q.env_op_input = r.env_op_input
    /\ q.env_eth_input = r.env_eth_input /\ q.op_checked = r.op_checked
    /\ q.linking = r.linking /\ q.env_input = r.env_input /\ q.op_evm_input = r.op_evm_input

LEMMA AskedSame ==
    ASSUME NEW r, DOMAIN r = Fields, NEW what, NEW url
    PROVE  Same(r, Asks(r, what, url))
  BY DEF Asks, Same, Fields, NothingRead

LEMMA CommitmentHeld ==
    ASSUME ChainsInv, request \in Requests, NoForks, DOMAIN got = Fields, Held(step, got),
           get_sequencer_commitments_and_blocks, UNCHANGED chainVars
    PROVE  Held(step, got)'
  <1> DEFINE c == IF is_opstack_chain(id) /\ ~inclusion THEN id
                  ELSE get_default_sequencer_chain(id \in SepoliaIds)
             commitment == get_current_sequencer_commitment(c)
  <1>1. /\ NoPieces(got) /\ c = Signer /\ Signer \in Live /\ id \in Live
        /\ is_linea_chain(id) => ~is_opstack_chain(id) /\ ~is_ethereum_chain(id)
        /\ is_opstack_chain(id) => ~is_ethereum_chain(id)
    <2>1. step = "commitment" /\ id \in Live
      BY RequestChains DEF get_sequencer_commitments_and_blocks
    <2> QED BY <2>1, Ids DEF Held, Signer
  <1>2. commitment = SignedCommitment(Signer, chain[Signer]) /\ Canon(Signer, chain[Signer])
    BY <1>1, CanonRead DEF get_current_sequencer_commitment, ChainsInv
  <1>3. commitment.data = chain[Signer] /\ ExecutionPayload(commitment).block_number = Number(chain[Signer])
    BY <1>2 DEF SignedCommitment, ExecutionPayload
  <1> HIDE DEF commitment, c
  <1>4. CASE /\ is_opstack_chain(id) \/ viaEthereumHash
             /\ Goto(IF viaEthereumHash THEN "l1hash" ELSE "fetch",
                     [Asks(got, "commitment", SequencerUrl(c)) EXCEPT
                          !.commitment = commitment,
                          !.block = ExecutionPayload(commitment).block_number])
    <2> DEFINE r == Asks(got, "commitment", SequencerUrl(c))
               q == [r EXCEPT !.commitment = commitment,
                              !.block = ExecutionPayload(commitment).block_number]
               next == IF viaEthereumHash THEN "l1hash" ELSE "fetch"
    <2>1. Same(got, r) /\ Goto(next, q)
      BY <1>4, AskedSame
    <2> HIDE DEF r
    <2>2. /\ q.commitment = commitment /\ q.block = Number(chain[Signer])
          /\ q.linking = got.linking /\ q.env_input = got.env_input
          /\ q.op_evm_input = got.op_evm_input
      BY <1>3, <2>1 DEF Same, Fields, NothingRead
    <2> HIDE DEF q
    <2>3. HeldCommitment(q) /\ q.block = Number(q.commitment.data)
      BY <1>2, <1>3, <2>2 DEF HeldCommitment
    <2>4. NoPieces(q)
      BY <1>1, <2>2 DEF NoPieces
    <2>5. CASE viaEthereumHash
      <3>1. Held("l1hash", q)
        BY <2>3, <2>4, <2>5 DEF Held
      <3> QED BY <2>1, <2>5, <3>1, GoesHeld
    <2>6. CASE ~viaEthereumHash
      <3>1. HeldHead(q)
        BY <1>4, <2>3, <2>6 DEF HeldHead, viaEthereumHash
      <3>2. HeldPieces(q)
        BY <2>4 DEF HeldPieces, NoPieces
      <3>3. Held("fetch", q)
        BY <3>1, <3>2 DEF Held
      <3> QED BY <2>1, <2>6, <3>3, GoesHeld
    <2> QED BY <2>5, <2>6
  <1>5. CASE /\ is_linea_chain(id) /\ ~inclusion
             /\ Goto("fetch", [Asks(got, "head", RpcOf(id, request.fallback)) EXCEPT
                                   !.block = Number(chain[id])])
    <2> DEFINE r == Asks(got, "head", RpcOf(id, request.fallback))
               q == [r EXCEPT !.block = Number(chain[id])]
    <2>1. Same(got, r) /\ Goto("fetch", q)
      BY <1>5, AskedSame
    <2> HIDE DEF r
    <2>2. q.linking = got.linking /\ q.env_input = got.env_input /\ q.op_evm_input = got.op_evm_input
      BY <2>1 DEF Same, Fields, NothingRead
    <2> HIDE DEF q
    <2>3. HeldHead(q) /\ HeldPieces(q)
      BY <1>1, <1>5, <2>2 DEF HeldHead, HeldPieces, NoPieces
    <2>4. Held("fetch", q)
      BY <2>3 DEF Held
    <2> QED BY <2>1, <2>4, GoesHeld
  <1> QED BY <1>4, <1>5 DEF get_sequencer_commitments_and_blocks, commitment, c

\* The chain whose sequencer is asked attests Ethereum's hashes, and the block
\* built of its number is the one that was signed.
LEMMA SignedBlockRead ==
    ASSUME ChainsInv, request \in Requests, viaEthereumHash, NEW r, HeldCommitment(r),
           NEW n, n = Number(r.commitment.data)
    PROVE  /\ Signer = get_default_sequencer_chain(id \in SepoliaIds)
           /\ Signer \in Live /\ is_opstack_chain(Signer)
           /\ Exists(Signer, n) => AtNumber(Signer, n) = r.commitment.data
           /\ n \in Nat
  <1>1. /\ id \in Live /\ ~(is_opstack_chain(id) /\ ~inclusion)
    <2>1. id \in Live
      BY RequestChains
    <2> QED BY <2>1, Ids DEF viaEthereumHash
  <1>2. /\ Signer = get_default_sequencer_chain(FALSE)
        /\ Signer = get_default_sequencer_chain(id \in SepoliaIds)
        /\ Signer \in Live /\ is_opstack_chain(Signer)
    BY <1>1, Ids DEF Signer
  <1>3. Canon(Signer, r.commitment.data) /\ Len(r.commitment.data) \in Nat \ {0}
    BY <1>2, CanonProps DEF HeldCommitment, ChainsInv
  <1>4. n \in Nat /\ n + 1 = Len(r.commitment.data)
    BY <1>3 DEF Number
  <1>5. Exists(Signer, n) => AtNumber(Signer, n) = r.commitment.data
    <2> SUFFICES ASSUME Exists(Signer, n) PROVE AtNumber(Signer, n) = r.commitment.data
      OBVIOUS
    <2>1. Canon(Signer, AtNumber(Signer, n)) /\ Len(AtNumber(Signer, n)) = n + 1
      BY <1>2, <1>4, CanonRead DEF ChainsInv
    <2> QED BY <1>3, <1>4, <2>1, CanonSame
  <1> QED BY <1>2, <1>4, <1>5

LEMMA HashHeld ==
    ASSUME ChainsInv, request \in Requests, DOMAIN got = Fields, Held(step, got),
           get_l1block_hash, UNCHANGED chainVars
    PROVE  Held(step, got)'
  <1> DEFINE via == get_default_sequencer_chain(id \in SepoliaIds)
             r == Asks(got, "l1block", RpcOf(via, request.fallback))
             q == [r EXCEPT !.env_op_input = AtNumber(via, got.block)]
  <1>1. step = "l1hash" /\ Exists(via, got.block) /\ Goto("l1number", q)
    BY DEF get_l1block_hash
  <1>2. /\ NoPieces(got) /\ viaEthereumHash /\ HeldCommitment(got)
        /\ got.block = Number(got.commitment.data)
    BY <1>1 DEF Held
  <1>3. AtNumber(via, got.block) = got.commitment.data
    BY <1>1, <1>2, SignedBlockRead
  <1>4. Same(got, r)
    BY AskedSame
  <1> HIDE DEF r, via
  <1>5. /\ q.commitment = got.commitment /\ q.env_op_input = got.commitment.data
        /\ q.block = got.block /\ q.linking = got.linking /\ q.env_input = got.env_input
        /\ q.op_evm_input = got.op_evm_input
    BY <1>3, <1>4 DEF Same, Fields, NothingRead
  <1> HIDE DEF q
  <1>6. Held("l1number", q)
    BY <1>2, <1>5 DEF Held, HeldOrigin, HeldCommitment, NoPieces
  <1> QED BY <1>1, <1>6, GoesHeld

LEMMA NumberHeld ==
    ASSUME ChainsInv, request \in Requests, DOMAIN got = Fields, Held(step, got),
           get_l1block_number, UNCHANGED chainVars
    PROVE  Held(step, got)'
  <1> DEFINE via == get_default_sequencer_chain(id \in SepoliaIds)
             q == [got EXCEPT !.block = Number(Tip(AtNumber(via, got.block)).origin)]
             next == IF inclusion THEN "l1env" ELSE "fetch"
  <1>1. step = "l1number" /\ Exists(via, got.block) /\ Goto(next, q)
    BY DEF get_l1block_number
  <1>2. NoPieces(got) /\ HeldOrigin(got) /\ got.block = Number(got.commitment.data)
    BY <1>1 DEF Held
  <1>3. AtNumber(via, got.block) = got.env_op_input
    BY <1>1, <1>2, SignedBlockRead DEF HeldOrigin
  <1> HIDE DEF via
  <1>4. /\ q.commitment = got.commitment /\ q.env_op_input = got.env_op_input
        /\ q.block = Number(OriginOf(got)) /\ q.linking = got.linking
        /\ q.env_input = got.env_input /\ q.op_evm_input = got.op_evm_input
    BY <1>3 DEF Fields, NothingRead, OriginOf
  <1> HIDE DEF q
  <1>5. HeldOrigin(q) /\ NoPieces(q) /\ q.block = Number(OriginOf(q))
    BY <1>2, <1>4 DEF HeldOrigin, HeldCommitment, NoPieces, OriginOf
  <1>6. CASE inclusion
    <2>1. Held("l1env", q)
      BY <1>5, <1>6 DEF Held
    <2> QED BY <1>1, <1>6, <2>1, GoesHeld
  <1>7. CASE ~inclusion
    <2>1. HeldHead(q) /\ HeldPieces(q)
      BY <1>5, <1>7 DEF HeldHead, HeldPieces, HeldOrigin, viaEthereumHash, NoPieces
    <2>2. Held("fetch", q)
      BY <2>1 DEF Held
    <2> QED BY <1>1, <1>7, <2>2, GoesHeld
  <1> QED BY <1>6, <1>7

\* The origin of the block that was signed.
LEMMA HeldOriginProps ==
    ASSUME ChainsInv, OriginsCanon, request \in Requests, NEW r, HeldOrigin(r)
    PROVE  /\ Canon(ETH, OriginOf(r)) /\ Len(OriginOf(r)) \in Nat \ {0}
           /\ Number(OriginOf(r)) \in Nat /\ Number(OriginOf(r)) + 1 = Len(OriginOf(r))
  <1>1. HeldCommitment(r) /\ viaEthereumHash /\ r.env_op_input = r.commitment.data
    BY DEF HeldOrigin
  <1>2. Signer \in Live /\ is_opstack_chain(Signer)
    BY <1>1, SignedBlockRead
  <1>3. Canon(Signer, r.env_op_input)
    BY <1>1 DEF HeldCommitment
  <1>4. Canon(ETH, OriginOf(r)) /\ Len(OriginOf(r)) \in Nat \ {0}
    BY <1>2, <1>3, CanonOrigin DEF OriginOf, ChainsInv
  <1> QED BY <1>4 DEF Number

LEMMA LineaCallHeld ==
    ASSUME ChainsInv, OriginsCanon, request \in Requests, DOMAIN got = Fields, Held(step, got),
           get_env_input_for_linea_l1_call, UNCHANGED chainVars
    PROVE  Held(step, got)'
  <1> DEFINE env == AtNumber(ETH, got.block)
             r == Asks(got, "l1env", RpcOf(ETH, request.fallback))
             q == [r EXCEPT !.env_eth_input = env, !.block = Tip(env).posted]
  <1>1. EthereumOf(id) = ETH /\ ETH \in Live
    BY RequestChains, Bounds
  <1>2. step = "l1env" /\ is_linea_chain(id) /\ Exists(ETH, got.block) /\ Goto("fetch", q)
    BY <1>1 DEF get_env_input_for_linea_l1_call
  <1>3. NoPieces(got) /\ inclusion /\ HeldOrigin(got) /\ got.block = Number(OriginOf(got))
    BY <1>2 DEF Held
  <1>4. Canon(ETH, env) /\ env = OriginOf(got)
    <2>1. /\ Canon(ETH, OriginOf(got)) /\ got.block \in Nat
          /\ got.block + 1 = Len(OriginOf(got))
      BY <1>3, HeldOriginProps
    <2>2. Canon(ETH, env) /\ Len(env) = got.block + 1
      BY <1>1, <1>2, <2>1, CanonRead DEF ChainsInv
    <2> HIDE DEF env
    <2> QED BY <2>1, <2>2, CanonSame
  <1>5. Same(got, r)
    BY AskedSame
  <1> HIDE DEF r, env
  <1>6. /\ q.commitment = got.commitment /\ q.env_op_input = got.env_op_input
        /\ q.env_eth_input = env /\ q.block = Tip(env).posted
        /\ q.linking = got.linking /\ q.env_input = got.env_input
        /\ q.op_evm_input = got.op_evm_input
    BY <1>5 DEF Same, Fields, NothingRead
  <1> HIDE DEF q
  <1>7. HeldOrigin(q) /\ OriginOf(q) = OriginOf(got) /\ NoPieces(q)
    BY <1>3, <1>6 DEF HeldOrigin, HeldCommitment, NoPieces, OriginOf
  <1>8. HeldHead(q) /\ HeldPieces(q)
    BY <1>2, <1>3, <1>4, <1>6, <1>7 DEF HeldHead, HeldPieces, NoPieces
  <1>9. Held("fetch", q)
    BY <1>8 DEF Held
  <1> QED BY <1>2, <1>9, GoesHeld

LEMMA InclusionHeld ==
    ASSUME ChainsInv, request \in Requests, DOMAIN got = Fields, Held(step, got),
           get_env_input_for_l1_inclusion, UNCHANGED chainVars,
           OriginsCanon
    PROVE  Held(step, got)'
  <1> DEFINE url == get_opstack_config(id, request.fallback).l1_rpc_url
             env == AtNumber(ETH, got.block - 2)
             r == Asks(got, "l1env", url)
             q == [r EXCEPT !.env_eth_input = env]
  <1>1. EthereumOf(id) = ETH /\ ETH \in Live /\ REORG_PROTECTION_DEPTH[ETH] = 2
    BY RequestChains, Bounds, Ids
  <1>2. /\ step = "l1env" /\ is_opstack_chain(id) /\ got.block >= 2
        /\ Exists(ETH, got.block - 2) /\ Goto("game", q)
    BY <1>1 DEF get_env_input_for_l1_inclusion
  <1>3. NoPieces(got) /\ inclusion /\ HeldOrigin(got) /\ got.block = Number(OriginOf(got))
    BY <1>2 DEF Held
  <1>4. Canon(ETH, env) /\ Len(env) = got.block - 1
    <2>1. got.block \in Nat
      BY <1>3, HeldOriginProps
    <2>2. got.block - 2 \in Nat
      BY <1>2, <2>1
    <2>3. Canon(ETH, env) /\ Len(env) = got.block - 2 + 1
      BY <1>1, <1>2, <2>2, CanonRead DEF ChainsInv
    <2> HIDE DEF env
    <2> QED BY <2>1, <2>3
  <1>5. Same(got, r)
    BY AskedSame
  <1> HIDE DEF r, env
  <1>6. /\ q.commitment = got.commitment /\ q.env_op_input = got.env_op_input
        /\ q.env_eth_input = env /\ q.block = got.block
        /\ q.linking = got.linking /\ q.env_input = got.env_input
        /\ q.op_evm_input = got.op_evm_input
    BY <1>5 DEF Same, Fields, NothingRead
  <1> HIDE DEF q
  <1>7. HeldOrigin(q) /\ OriginOf(q) = OriginOf(got) /\ NoPieces(q)
    BY <1>3, <1>6 DEF HeldOrigin, HeldCommitment, NoPieces, OriginOf
  <1>8. HeldPortal(q)
    BY <1>2, <1>3, <1>4, <1>6, <1>7 DEF HeldPortal, settled
  <1>9. Held("game", q)
    BY <1>7, <1>8 DEF Held
  <1> QED BY <1>2, <1>9, GoesHeld

\* The head is its own prefix, and its portals have games of their chains.
LEMMA HeadPortal ==
    ASSUME ChainsInv, EthereumSound, NEW h, Canon(ETH, h)
    PROVE  /\ Upto(chain[ETH], Len(chain[ETH])) = chain[ETH]
           /\ Len(h) \in 1..Len(chain[ETH]) /\ Len(chain[ETH]) \in Nat \ {0}
           /\ h = Upto(chain[ETH], Len(h))
           /\ DOMAIN Tip(h).portals = PortalChains
           /\ \A c \in PortalChains : PortalOf(c, h) \in PortalsOf(c)
  <1>1. /\ IsSeq(chain[ETH]) /\ Len(chain[ETH]) \in Nat \ {0} /\ chain[ETH] \in Branches(ETH)
        /\ ETH \in Live
    BY HeadProps, Bounds DEF ChainsInv
  <1>2. Len(h) \in 1..Len(chain[ETH]) /\ h = Upto(chain[ETH], Len(h))
    BY DEF Canon
  <1>3. Tip(h) = chain[ETH][Len(h)]
    BY <1>1, CanonProps DEF ChainsInv
  <1>4. BlockSound(Tip(h), Len(h) - 1, settled)
    BY <1>1, <1>2, <1>3 DEF EthereumSound, BranchSound
  <1> QED BY <1>1, <1>2, <1>4, UptoFull DEF BlockSound, PortalOf

\* A game that is final at the head passes the check two blocks below the
\* origin, unless the portal changed or the head is ahead by more than the slack.
LEMMA FinalGamePasses ==
    ASSUME ChainsInv, EthereumSound, NEW eth, Canon(ETH, eth), NEW env, Latest(chain[ETH], env),
           PortalOf(id, chain[ETH]) = PortalOf(id, eth),
           Number(chain[ETH]) - Number(eth) <= MaturitySlack
    PROVE  validate_opstack_dispute_game_commitment(id, eth, env)
  <1> DEFINE h == chain[ETH]
             p == PortalOf(id, h)
  <1>1. id \in PortalChains
    BY DEF Latest
  <1>2. PICK g \in FinalizedGames(id, h) : env = [game |-> g, claim |-> p.games[g].claim]
    BY DEF Latest
  <1>3. /\ g \in DOMAIN p.games /\ Respected(p, g) /\ Won(p, g)
        /\ Number(h) - p.games[g].resolvedAt > ProofMaturityDelay
    BY <1>2 DEF FinalizedGames
  <1>4. /\ DOMAIN Tip(eth).portals = PortalChains /\ PortalOf(id, eth) = p
        /\ p \in PortalsOf(id)
        /\ Number(h) \in Nat /\ Number(eth) \in Nat
    <2>1. /\ DOMAIN Tip(eth).portals = PortalChains /\ PortalOf(id, eth) \in PortalsOf(id)
          /\ Len(eth) \in 1..Len(h) /\ Len(h) \in Nat \ {0}
      BY <1>1, HeadPortal
    <2> QED BY <2>1 DEF Number
  <1> HIDE DEF h, p
  <1>5. p.games[g] \in GamesOf(id) /\ p.games[g].resolvedAt \in Nat
    <2>1. p.games \in [DOMAIN InitialGames[id] -> GamesOf(id)]
      BY <1>4 DEF PortalsOf
    <2>2. p.games[g] \in GamesOf(id)
      BY <1>3, <2>1
    <2> QED BY <2>2 DEF GamesOf
  <1>6. Number(eth) - p.games[g].resolvedAt > ProofMaturityDelay - MaturitySlack
    <2> DEFINE a == Number(eth)
               b == Number(h)
               t == p.games[g].resolvedAt
    <2>1. a \in Int /\ b \in Int /\ t \in Int /\ b - a <= MaturitySlack /\ b - t > ProofMaturityDelay
      BY <1>3, <1>4, <1>5 DEF h
    <2>2. MaturitySlack \in Int /\ ProofMaturityDelay \in Int
      BY Bounds
    <2> HIDE DEF a, b, t
    <2>3. a - t > ProofMaturityDelay - MaturitySlack
      BY <2>1, <2>2
    <2> QED BY <2>3 DEF a, t
  <1>7. env.game = g /\ env.claim = p.games[g].claim
    BY <1>2
  <1> QED BY <1>1, <1>3, <1>4, <1>6, <1>7
          DEF validate_opstack_dispute_game_commitment, Respected, Won

LEMMA GameHeld ==
    ASSUME ChainsInv, EthereumSound, request \in Requests, DOMAIN got = Fields, Held(step, got),
           get_env_input_for_opstack_dispute_game, UNCHANGED chainVars
    PROVE  Held(step, got)' /\ HonestInputsAccepted'
  <1>1. EthereumOf(id) = ETH
    BY RequestChains
  <1>2. PICK env \in OpEnvs :
           /\ LatestFinalized(id, env)
           /\ Goto(IF validate_opstack_dispute_game_commitment(id, got.env_eth_input, env)
                   THEN "fetch" ELSE "refused",
                   [Asks(got, "game", get_opstack_config(id, request.fallback).l2_rpc_url) EXCEPT
                        !.op_checked = env])
    BY DEF get_env_input_for_opstack_dispute_game
  <1> DEFINE r == Asks(got, "game", get_opstack_config(id, request.fallback).l2_rpc_url)
             q == [r EXCEPT !.op_checked = env]
             h == chain[ETH]
             eth == got.env_eth_input
             valid == validate_opstack_dispute_game_commitment(id, eth, env)
             next == IF valid THEN "fetch" ELSE "refused"
  <1>3. NoPieces(got) /\ HeldPortal(got)
    BY DEF Held, get_env_input_for_opstack_dispute_game
  <1>4. Latest(h, env)
    BY <1>1, <1>2 DEF LatestFinalized, Latest
  <1>5. Same(got, r) /\ Goto(next, q)
    BY <1>2, AskedSame
  <1> HIDE DEF r
  <1>6. /\ q.commitment = got.commitment /\ q.env_op_input = got.env_op_input
        /\ q.env_eth_input = eth /\ q.block = got.block /\ q.linking = got.linking
        /\ q.env_input = got.env_input /\ q.op_evm_input = got.op_evm_input
        /\ q.op_checked = env
    BY <1>5 DEF Same, Fields, NothingRead
  <1> HIDE DEF q
  <1>7. Canon(ETH, eth) /\ settled
    BY <1>3 DEF HeldPortal
  <1>8. CASE valid
    <2>1. HeldPortal(q)
      BY <1>3, <1>6 DEF HeldPortal, HeldOrigin, HeldCommitment, OriginOf
    <2>2. HeldGames(q)
      <3>1. Len(h) \in Len(eth)..Len(h) /\ Upto(h, Len(h)) = h
        BY <1>7, HeadPortal
      <3>2. q.op_evm_input = NoOpEnv
        BY <1>3, <1>6 DEF NoPieces
      <3>3. Latest(Upto(h, Len(h)), q.op_checked)
        BY <1>4, <1>6, <3>1
      <3> QED BY <1>6, <1>8, <3>1, <3>2, <3>3 DEF HeldGames
    <2>3. HeldPieces(q)
      BY <1>3, <1>6 DEF NoPieces, HeldPieces
    <2>4. Held("fetch", q)
      BY <2>1, <2>2, <2>3 DEF Held, HeldHead
    <2>5. Goto("fetch", q)
      BY <1>5, <1>8
    <2>6. Held(step, got)'
      BY <2>4, <2>5, GoesHeld
    <2> QED BY <2>5, <2>6 DEF HonestInputsAccepted, Goto
  <1>9. CASE ~valid
    <2>1. Goto("refused", q) /\ Held("refused", q)
      BY <1>5, <1>9 DEF Held
    <2>2. PortalOf(id, h) # PortalOf(id, eth) \/ ~(Number(h) - Number(eth) <= MaturitySlack)
      BY <1>4, <1>7, <1>9, FinalGamePasses
    <2>3. /\ got'.env_eth_input = eth /\ chain' = chain /\ request' = request
          /\ settled' = settled /\ id' = id
      BY <1>6, <2>1 DEF Goto, chainVars, settled, inclusion, id
    <2>4. Number(h) \in Int /\ Number(eth) \in Int /\ MaturitySlack \in Int
      <3>1. Len(eth) \in 1..Len(h) /\ Len(h) \in Nat \ {0}
        BY <1>7, HeadPortal
      <3> QED BY <3>1, Bounds DEF Number
    <2>5. ChainsGotInTheWay'
      <3>1. chain[ETHEREUM_CHAIN_ID] = h
        BY DEF ETH
      <3>2. \/ PortalOf(id, h) # PortalOf(id, eth)
            \/ Number(h) - Number(eth) > MaturitySlack
        BY <2>2, <2>4
      <3> QED BY <1>7, <2>3, <3>1, <3>2 DEF ChainsGotInTheWay
    <2> QED BY <2>1, <2>5, GoesHeld DEF HonestInputsAccepted
  <1> QED BY <1>8, <1>9

\* The fetches add linking blocks and the call's input to the facts.
LEMMA HeadStays ==
    ASSUME NEW r, NEW q, HeldHead(r), q.commitment = r.commitment, q.block = r.block,
           q.env_op_input = r.env_op_input, q.env_eth_input = r.env_eth_input,
           q.op_checked = r.op_checked,
           q.op_evm_input = r.op_evm_input \/ ~settled
    PROVE  HeldHead(q)
  <1>1. /\ HeldCommitment(r) => HeldCommitment(q)
        /\ HeldOrigin(r) => HeldOrigin(q)
        /\ OriginOf(r) = OriginOf(q)
    BY DEF HeldCommitment, HeldOrigin, OriginOf
  <1>2. HeldPortal(r) => HeldPortal(q)
    BY <1>1 DEF HeldPortal
  <1>3. HeldPortal(r) => settled
    BY DEF HeldPortal
  <1>4. settled /\ HeldGames(r) => HeldGames(q)
    BY DEF HeldGames
  <1> QED BY <1>1, <1>2, <1>3, <1>4 DEF HeldHead

LEMMA FetchHeld ==
    ASSUME ChainsInv, HostInv, EthereumSound, DOMAIN got = Fields, Held(step, got),
           get_linking_block \/ get_game_call_input \/ get_proof_data_call_input,
           UNCHANGED chainVars
    PROVE  Held(step, got)' /\ step' = "fetch"
  <1>1. /\ id \in Live /\ LinkingChain \in Live /\ EthereumOf(id) = ETH
        /\ get_reorg_protection_depth(LinkingChain) = 2 /\ get_reorg_protection_depth(id) = 2
    BY RequestChains, Ids DEF HostInv
  <1>2. step = "fetch" /\ got.block >= 2 /\ got.block \in Nat
    <2>1. step = "fetch" /\ got.block >= 2
      BY <1>1 DEF get_linking_block, get_game_call_input, get_proof_data_call_input, CanSubtract
    <2> QED BY <2>1 DEF HostInv
  <1>3. HeldHead(got) /\ HeldPieces(got)
    BY <1>2 DEF Held
  <1>4. CASE get_linking_block
    <2> DEFINE r == Asks(got, "linking", RpcOf(LinkingChain, request.fallback))
    <2>1. PICK n \in LinkingNumbers(got.block) :
             /\ Exists(LinkingChain, n)
             /\ Goto("fetch", [r EXCEPT !.linking = @ \cup {AtNumber(LinkingChain, n)}])
      BY <1>4 DEF get_linking_block
    <2> DEFINE q == [r EXCEPT !.linking = @ \cup {AtNumber(LinkingChain, n)}]
    <2>2. Same(got, r) /\ Goto("fetch", q)
      BY <2>1, AskedSame
    <2> HIDE DEF r
    <2>3. /\ q.commitment = got.commitment /\ q.env_op_input = got.env_op_input
          /\ q.env_eth_input = got.env_eth_input /\ q.block = got.block
          /\ q.linking = got.linking \cup {AtNumber(LinkingChain, n)}
          /\ q.env_input = got.env_input /\ q.op_evm_input = got.op_evm_input
          /\ q.op_checked = got.op_checked
      BY <2>2 DEF Same, Fields, NothingRead
    <2> HIDE DEF q
    <2>4. Canon(LinkingChain, AtNumber(LinkingChain, n))
      <3>1. n \in Nat
        BY <1>1, <1>2 DEF LinkingNumbers
      <3> QED BY <1>1, <2>1, <3>1, CanonRead DEF ChainsInv
    <2>5. HeldHead(q)
      BY <1>3, <2>3, HeadStays
    <2>6. HeldPieces(q)
      BY <1>3, <2>3, <2>4 DEF HeldPieces
    <2>7. Held("fetch", q)
      BY <2>5, <2>6 DEF Held
    <2> QED BY <2>2, <2>7, GoesHeld DEF Goto
  <1>5. CASE get_game_call_input
    <2> DEFINE r == Asks(got, "call", get_opstack_config(id, ~request.fallback).l2_rpc_url)
               h == chain[ETH]
    <2>1. PICK env \in OpEnvs : /\ LatestFinalized(id, env)
                                /\ Goto("fetch", [r EXCEPT !.op_evm_input = env])
      BY <1>5 DEF get_game_call_input
    <2> DEFINE q == [r EXCEPT !.op_evm_input = env]
    <2>2. Same(got, r) /\ Goto("fetch", q)
      BY <2>1, AskedSame
    <2> HIDE DEF r
    <2>3. /\ q.commitment = got.commitment /\ q.env_op_input = got.env_op_input
          /\ q.env_eth_input = got.env_eth_input /\ q.block = got.block
          /\ q.linking = got.linking
          /\ q.env_input = got.env_input /\ q.op_evm_input = env
          /\ q.op_checked = got.op_checked
      BY <2>2 DEF Same, Fields, NothingRead
    <2> HIDE DEF q
    <2>4. settled /\ HeldPortal(got) /\ HeldGames(got)
      <3>1. settled /\ is_opstack_chain(id) /\ inclusion
        BY <1>5 DEF get_game_call_input, settled
      <3>2. ~is_ethereum_chain(id) /\ ~is_linea_chain(id)
        BY <1>1, <3>1, Ids
      <3> QED BY <1>3, <3>1, <3>2 DEF HeldHead
    <2>5. HeldPortal(q)
      BY <2>3, <2>4 DEF HeldPortal, HeldOrigin, HeldCommitment, OriginOf
    <2>6. Latest(h, env)
      BY <1>1, <2>1 DEF LatestFinalized, Latest
    <2>7. HeldGames(q)
      <3>1. PICK m \in Len(got.env_eth_input)..Len(h) : Latest(Upto(h, m), got.op_checked)
        BY <2>4 DEF HeldGames
      <3>2. Upto(h, Len(h)) = h /\ Len(h) \in m..Len(h)
        <4>1. /\ Upto(h, Len(h)) = h /\ Len(h) \in Nat
              /\ Len(got.env_eth_input) \in 1..Len(h)
          BY <2>4, HeadPortal DEF HeldPortal
        <4> HIDE DEF h
        <4> QED BY <4>1, <3>1
      <3>3. \E k \in m..Len(h) : Latest(Upto(h, k), q.op_evm_input)
        BY <2>3, <2>6, <3>2
      <3>4. validate_opstack_dispute_game_commitment(id, q.env_eth_input, q.op_checked)
        BY <2>3, <2>4 DEF HeldGames
      <3> QED BY <2>3, <3>1, <3>3, <3>4 DEF HeldGames
    <2>8. HeldPieces(q)
      BY <1>3, <2>3 DEF HeldPieces
    <2>9. Held("fetch", q)
      BY <2>5, <2>7, <2>8 DEF Held, HeldHead
    <2> QED BY <2>2, <2>9, GoesHeld DEF Goto
  <1>6. CASE get_proof_data_call_input
    <2> DEFINE r == Asks(got, "call", RpcOf(id, request.fallback))
               env == AtNumber(id, got.block - 2)
               q == [r EXCEPT !.env_input = env]
    <2>1. ~settled /\ Exists(id, got.block - 2) /\ Goto("fetch", q)
      BY <1>1, <1>6 DEF get_proof_data_call_input
    <2>2. Same(got, r)
      BY AskedSame
    <2>3. Canon(id, env) /\ Len(env) = got.block - 1
      <3>1. got.block - 2 \in Nat /\ got.block - 2 + 1 = got.block - 1
        BY <1>2
      <3> QED BY <1>1, <2>1, <3>1, CanonRead DEF ChainsInv
    <2> HIDE DEF r, env
    <2>4. /\ q.commitment = got.commitment /\ q.env_op_input = got.env_op_input
          /\ q.env_eth_input = got.env_eth_input /\ q.block = got.block
          /\ q.linking = got.linking
          /\ q.env_input = env /\ q.op_evm_input = got.op_evm_input
          /\ q.op_checked = got.op_checked
      BY <2>2 DEF Same, Fields, NothingRead
    <2> HIDE DEF q
    <2>5. HeldHead(q)
      BY <1>3, <2>4, HeadStays
    <2>6. HeldPieces(q)
      BY <1>3, <2>3, <2>4 DEF HeldPieces
    <2>7. Held("fetch", q)
      BY <2>5, <2>6 DEF Held
    <2> QED BY <2>1, <2>7, GoesHeld DEF Goto
  <1> QED BY <1>4, <1>5, <1>6

LEMMA ReadHeld ==
    ASSUME IInv, RInv, ChainsHonest, NoForks, Held(step, got), Read, UNCHANGED chainVars
    PROVE  Held(step, got)' /\ HonestInputsAccepted'
  <1>1. /\ ChainsInv /\ HostInv /\ EthereumSound /\ request \in Requests
        /\ DOMAIN got = Fields /\ OriginsCanon
    BY DEF IInv, RInv, HostInv, Facts, ChainsHonest
  <1>2. step' # "refused" => HonestInputsAccepted'
    BY DEF HonestInputsAccepted
  <1>3. CASE get_sequencer_commitments_and_blocks
    <2>1. step' # "refused"
      BY <1>3 DEF get_sequencer_commitments_and_blocks, Goto
    <2> QED BY <1>1, <1>2, <1>3, <2>1, CommitmentHeld
  <1>4. CASE get_l1block_hash
    <2>1. step' # "refused"
      BY <1>4 DEF get_l1block_hash, Goto
    <2> QED BY <1>1, <1>2, <1>4, <2>1, HashHeld
  <1>5. CASE get_l1block_number
    <2>1. step' # "refused"
      BY <1>5 DEF get_l1block_number, Goto
    <2> QED BY <1>1, <1>2, <1>5, <2>1, NumberHeld
  <1>6. CASE get_env_input_for_linea_l1_call
    <2>1. step' # "refused"
      BY <1>6 DEF get_env_input_for_linea_l1_call, Goto
    <2> QED BY <1>1, <1>2, <1>6, <2>1, LineaCallHeld
  <1>7. CASE get_env_input_for_l1_inclusion
    <2>1. step' # "refused"
      BY <1>7 DEF get_env_input_for_l1_inclusion, Goto
    <2> QED BY <1>1, <1>2, <1>7, <2>1, InclusionHeld
  <1>8. CASE get_env_input_for_opstack_dispute_game
    BY <1>1, <1>8, GameHeld
  <1>9. CASE get_linking_block \/ get_game_call_input \/ get_proof_data_call_input
    <2>1. Held(step, got)' /\ step' = "fetch"
      BY <1>1, <1>9, FetchHeld
    <2> QED BY <1>2, <2>1
  <1>10. CASE Panic
    <2>1. Held("panicked", NothingRead) /\ Goto("panicked", NothingRead)
      BY <1>10 DEF Held, Panic
    <2>2. step' # "refused"
      BY <2>1 DEF Goto
    <2> QED BY <1>2, <2>1, <2>2, GoesHeld
  <1> QED BY <1>3, <1>4, <1>5, <1>6, <1>7, <1>8, <1>9, <1>10 DEF Read

------------------------------------------------------------------------------
(* What an honest host hands over passes the guest's checks.                *)

\* A commitment of the chain's sequencer verifies.
LEMMA HeldVerifies ==
    ASSUME NEW r, HeldCommitment(r)
    PROVE  validate_opstack_env(Signer, r.commitment, r.commitment.data)
  <1> DEFINE k == SignedCommitment(Signer, r.commitment.data)
  <1>1. r.commitment = k
    BY DEF HeldCommitment
  <1>2. /\ k.data = r.commitment.data
        /\ k.signature.key = Sequencer(Signer)
        /\ k.signature.over = signature_msg(r.commitment.data, Signer)
        /\ DOMAIN k = {"data", "signature"}
    BY DEF SignedCommitment
  <1>3. k # NoCommitment
    <2>1. DOMAIN NoCommitment = {"data"}
      BY DEF NoCommitment
    <2>2. "signature" \notin {"data"}
      OBVIOUS
    <2> QED BY <1>2, <2>1, <2>2
  <1> HIDE DEF k
  <1> QED BY <1>1, <1>2, <1>3 DEF validate_opstack_env, verify, Recovered, ExecutionPayload

\* The linking blocks are the block proved up to and its parent.
LEMMA LinkedPair ==
    ASSUME ChainsInv, HostInv, AllFetched, HeldPieces(got)
    PROVE  /\ Canon(LinkingChain, LinkingBlocks[2]) /\ Len(LinkingBlocks[2]) = got.block + 1
           /\ ParentHash(LinkingBlocks[2]) = LinkingBlocks[1]
           /\ ParentHash(LinkingBlocks[1]) = Upto(chain[LinkingChain], got.block - 1)
           /\ DOMAIN LinkingBlocks = 1..2 /\ Len(LinkingBlocks) = 2
           /\ Tip(LinkingBlocks) = LinkingBlocks[2] /\ LinkingBlocks # <<>>
           /\ got.block \in Nat /\ got.block >= 2
  <1> DEFINE c == LinkingChain
             a == LinkingBlocks[1]
             b == LinkingBlocks[2]
             n == got.block
  <1>1. c \in Live /\ BranchesTyped
    BY RequestChains DEF HostInv, ChainsInv
  <1>2. n \in Nat /\ n >= 2
    <2>1. n >= 2
      BY <1>1, Ids DEF AllFetched, CanSubtract
    <2> QED BY <2>1 DEF HostInv
  <1>3. /\ DOMAIN LinkingBlocks = 1..2 /\ Len(LinkingBlocks) = 2
        /\ \A j \in 1..2 : LinkingBlocks[j] \in got.linking /\ Number(LinkingBlocks[j]) = n - 2 + j
    BY HostLinksTwo
  <1>4. /\ a \in got.linking /\ Number(a) = n - 2 + 1
        /\ b \in got.linking /\ Number(b) = n - 2 + 2
    BY <1>3
  <1>5. Canon(c, a) /\ Canon(c, b)
    BY <1>4 DEF HeldPieces
  <1> HIDE DEF a, b, n, c
  <1>6. Len(a) \in Nat \ {0} /\ Len(b) \in Nat \ {0}
    BY <1>1, <1>5, CanonProps
  <1>7. Len(a) = n /\ Len(b) = n + 1
    BY <1>2, <1>4, <1>6 DEF Number
  <1>8. ParentHash(b) = Upto(chain[c], n) /\ ParentHash(a) = Upto(chain[c], n - 1)
    <2>1. Len(b) >= 2 /\ Len(a) >= 2 /\ Len(b) - 1 = n /\ Len(a) - 1 = n - 1
      BY <1>2, <1>7
    <2>2. /\ ParentHash(b) = Upto(chain[c], Len(b) - 1)
          /\ ParentHash(a) = Upto(chain[c], Len(a) - 1)
      BY <1>1, <1>5, <2>1, CanonProps
    <2> QED BY <2>1, <2>2
  <1>9. a = Upto(chain[c], n)
    BY <1>5, <1>7 DEF Canon
  <1>10. LinkingBlocks # <<>> /\ Tip(LinkingBlocks) = b
    <2>1. Len(<<>>) = 0
      OBVIOUS
    <2> QED BY <1>3, <2>1 DEF Tip, b
  <1> QED BY <1>2, <1>3, <1>5, <1>7, <1>8, <1>9, <1>10 DEF a, b, c, n

\* The guest's view of the input.
LEMMA GuestSees ==
    ASSUME ChainsInv, HostInv, Facts(got), AllFetched, HeldHead(got), HeldPieces(got),
           NEW i, i = ZkvmInput, NEW p, p = sort_and_verify_relevant_params(i)
    PROVE  /\ i.chain_id = id /\ i.commitment = got.commitment
           /\ i.env_op_input = got.env_op_input /\ i.env_eth_input = got.env_eth_input
           /\ i.op_evm_input = got.op_evm_input /\ i.linking_blocks = LinkingBlocks
           /\ p.inclusion = inclusion /\ p.there
           /\ p.header = LinkingBlocks[2] /\ p.lengthChain = LinkingChain
           /\ p.env = Upto(chain[LinkingChain], got.block - 1)
           /\ Len(p.env) = got.block - 1
           /\ settled => p.op_env = got.op_evm_input
  <1>1. /\ i.chain_id = id /\ i.commitment = got.commitment /\ i.env_input = got.env_input
        /\ i.env_op_input = got.env_op_input /\ i.env_eth_input = got.env_eth_input
        /\ i.op_evm_input = got.op_evm_input /\ i.linking_blocks = LinkingBlocks
    BY DEF ZkvmInput
  <1>2. /\ id \in Live /\ LinkingChain \in Live /\ EthereumOf(id) = ETH /\ ETH \in Live
        /\ inclusion \in BOOLEAN
        /\ is_opstack_chain(id) => ~is_ethereum_chain(id) /\ ~is_linea_chain(id)
    BY RequestChains, Ids, RequestsAssumption DEF HostInv, inclusion
  <1>3. inclusion <=> got.env_eth_input # None
    <2>1. got.env_eth_input # None => inclusion
      BY DEF Facts
    <2>2. ASSUME inclusion PROVE got.env_eth_input # None
      <3>1. Canon(ETH, got.env_eth_input)
        BY <2>2 DEF HeldHead, HeldPortal
      <3> QED BY <1>2, <3>1, CanonProps DEF ChainsInv
    <2> QED BY <2>1, <2>2
  <1>4. LinkingBlocks # <<>> /\ Tip(LinkingBlocks) = LinkingBlocks[2]
    BY LinkedPair
  <1>5. /\ p.inclusion = inclusion
        /\ p.header = LinkingBlocks[2] /\ p.lengthChain = LinkingChain
        /\ p.env = IF settled THEN got.env_eth_input ELSE got.env_input
        /\ settled => p.op_env = got.op_evm_input
        /\ p.there = (p.env # None /\ (settled => got.op_evm_input # NoOpEnv))
    BY <1>1, <1>2, <1>3, <1>4 DEF sort_and_verify_relevant_params, settled, LinkingChain
  <1>6. Canon(LinkingChain, p.env) /\ Len(p.env) = got.block - 1
    <2>1. CASE settled
      <3>1. LinkingChain = ETH /\ is_opstack_chain(id) /\ inclusion
        BY <1>2, <2>1 DEF LinkingChain, settled
      <3>2. HeldPortal(got)
        BY <1>2, <3>1 DEF HeldHead
      <3> QED BY <1>5, <2>1, <3>1, <3>2 DEF HeldPortal
    <2>2. CASE ~settled
      <3>1. got.env_input # None /\ LinkingChain = id
        BY <2>2 DEF AllFetched, LinkingChain
      <3> QED BY <1>5, <2>2, <3>1 DEF HeldPieces
    <2> QED BY <2>1, <2>2
  <1>7. p.env # None /\ p.env = Upto(chain[LinkingChain], got.block - 1)
    <2>1. p.env # None
      BY <1>2, <1>6, CanonProps DEF ChainsInv
    <2> QED BY <1>6, <2>1 DEF Canon
  <1>8. settled => got.op_evm_input # NoOpEnv
    BY DEF AllFetched
  <1> QED BY <1>1, <1>5, <1>6, <1>7, <1>8

------------------------------------------------------------------------------
(* The game called for and the game checked.                                *)

\* Portals along the chain.
LEMMA PortalAt ==
    ASSUME ChainsInv, EthereumSound, PortalsGrow, settled, NEW c \in PortalChains,
           NEW j \in 1..Len(chain[ETH]), NEW k \in j..Len(chain[ETH])
    PROVE  /\ PortalOf(c, Upto(chain[ETH], j)) \in PortalsOf(c)
           /\ Number(Upto(chain[ETH], j)) = j - 1
           /\ PortalGrew(PortalOf(c, Upto(chain[ETH], j)), PortalOf(c, Upto(chain[ETH], k)))
  <1> DEFINE h == chain[ETH]
  <1>1. IsSeq(h) /\ Len(h) \in Nat \ {0} /\ h \in Branches(ETH)
    BY HeadProps, Bounds DEF ChainsInv
  <1>2. k \in 1..Len(h) /\ j \in 1..k
    BY <1>1
  <1>3. \A n \in 1..Len(h) : /\ PortalOf(c, Upto(h, n)) = h[n].portals[c]
                             /\ Number(Upto(h, n)) = n - 1
    <2> SUFFICES ASSUME NEW n \in 1..Len(h)
                 PROVE  PortalOf(c, Upto(h, n)) = h[n].portals[c] /\ Number(Upto(h, n)) = n - 1
      OBVIOUS
    <2>1. Len(Upto(h, n)) = n /\ Upto(h, n)[n] = h[n]
      <3>1. n \in 1..n
        BY <1>1
      <3> QED BY <1>1, <3>1, UptoProps
    <2> QED BY <2>1 DEF PortalOf, Tip, Number
  <1>4. h[j].portals[c] \in PortalsOf(c)
    BY <1>1 DEF EthereumSound, BranchSound, BlockSound
  <1>5. PortalGrew(h[j].portals[c], h[k].portals[c])
    BY <1>1, <1>2 DEF PortalsGrow
  <1> QED BY <1>2, <1>3, <1>4, <1>5

\* The games that were final at the two heads.
LEMMA TwoGames ==
    ASSUME ChainsInv, EthereumSound, PortalsGrow, HeldPortal(got), HeldGames(got),
           got.op_evm_input # NoOpEnv
    PROVE  /\ id \in PortalChains /\ settled
           /\ \E m \in Len(got.env_eth_input)..Len(chain[ETH]) : \E k \in m..Len(chain[ETH]) :
                  /\ Latest(Upto(chain[ETH], m), got.op_checked)
                  /\ Latest(Upto(chain[ETH], k), got.op_evm_input)
                  /\ m \in 1..Len(chain[ETH]) /\ k \in 1..Len(chain[ETH])
           /\ Len(got.env_eth_input) \in 1..Len(chain[ETH])
           /\ got.env_eth_input = Upto(chain[ETH], Len(got.env_eth_input))
           /\ Len(chain[ETH]) \in Nat \ {0} /\ Upto(chain[ETH], Len(chain[ETH])) = chain[ETH]
  <1> DEFINE h == chain[ETH]
             n == Len(got.env_eth_input)
  <1>1. PICK m \in n..Len(h) :
           /\ Latest(Upto(h, m), got.op_checked)
           /\ \E k \in m..Len(h) : Latest(Upto(h, k), got.op_evm_input)
    BY DEF HeldGames
  <1>2. PICK k \in m..Len(h) : Latest(Upto(h, k), got.op_evm_input)
    BY <1>1
  <1>3. /\ n \in 1..Len(h) /\ Len(h) \in Nat \ {0} /\ got.env_eth_input = Upto(h, n)
        /\ Upto(h, Len(h)) = h
    BY HeadPortal DEF HeldPortal
  <1>4. m \in 1..Len(h) /\ k \in 1..Len(h)
    <2> HIDE DEF h, n
    <2> QED BY <1>3
  <1> QED BY <1>1, <1>2, <1>3, <1>4 DEF Latest, HeldPortal

\* The game called for passes if it is the one that was checked: a game never
\* changes its claim.
LEMMA CalledGamePasses ==
    ASSUME ChainsInv, EthereumSound, PortalsGrow, HeldPortal(got), HeldGames(got),
           got.op_evm_input # NoOpEnv, StateCovers
    PROVE  validate_opstack_dispute_game_commitment(id, got.env_eth_input, got.op_evm_input)
  <1> DEFINE h == chain[ETH]
             a == got.op_checked
             b == got.op_evm_input
  <1>1. /\ id \in PortalChains /\ settled
        /\ \E m \in 1..Len(h) : \E k \in m..Len(h) : Latest(Upto(h, m), a) /\ Latest(Upto(h, k), b)
    BY TwoGames
  <1>2. PICK m \in 1..Len(h) : \E k \in m..Len(h) : Latest(Upto(h, m), a) /\ Latest(Upto(h, k), b)
    BY <1>1
  <1>3. PICK k \in m..Len(h) : Latest(Upto(h, m), a) /\ Latest(Upto(h, k), b)
    BY <1>2
  <1> DEFINE p == PortalOf(id, Upto(h, m))
             q == PortalOf(id, Upto(h, k))
  <1>4. PortalGrew(p, q)
    BY <1>1, PortalAt
  <1>5. a.game \in DOMAIN p.games /\ a.claim = p.games[a.game].claim /\ b.claim = q.games[b.game].claim
    <2>1. PICK g \in FinalizedGames(id, Upto(h, m)) : a = [game |-> g, claim |-> p.games[g].claim]
      BY <1>3 DEF Latest
    <2>2. PICK x \in FinalizedGames(id, Upto(h, k)) : b = [game |-> x, claim |-> q.games[x].claim]
      BY <1>3 DEF Latest
    <2>3. g \in DOMAIN p.games
      BY DEF FinalizedGames
    <2> HIDE DEF p, q
    <2> QED BY <2>1, <2>2, <2>3
  <1>6. b.game = a.game
    BY <1>1 DEF StateCovers
  <1>7. b.claim = a.claim
    <2> HIDE DEF p, q, a, b
    <2> QED BY <1>4, <1>5, <1>6 DEF PortalGrew, GameGrew
  <1>8. validate_opstack_dispute_game_commitment(id, got.env_eth_input, a)
    BY DEF HeldGames
  <1> QED BY <1>6, <1>7, <1>8 DEF validate_opstack_dispute_game_commitment

\* If it is another one, then the portal changed or a newer game became final.
LEMMA NewerGameInTheWay ==
    ASSUME ChainsInv, EthereumSound, PortalsGrow, HeldPortal(got), HeldGames(got),
           got.op_evm_input # NoOpEnv, ~StateCovers
    PROVE  /\ settled
           /\ \/ PortalOf(id, chain[ETH]) # PortalOf(id, got.env_eth_input)
              \/ \E g \in FinalizedGames(id, chain[ETH]) : g > got.op_checked.game
  <1> DEFINE h == chain[ETH]
             n == Len(got.env_eth_input)
             a == got.op_checked
             b == got.op_evm_input
             p == PortalOf(id, h)
  <1>1. /\ id \in PortalChains /\ settled /\ n \in 1..Len(h) /\ got.env_eth_input = Upto(h, n)
        /\ Len(h) \in Nat \ {0} /\ Upto(h, Len(h)) = h
    BY TwoGames
  <1>2. PICK m \in n..Len(h) : \E k \in m..Len(h) :
            /\ Latest(Upto(h, m), a) /\ Latest(Upto(h, k), b)
            /\ m \in 1..Len(h) /\ k \in 1..Len(h)
    BY TwoGames
  <1>3. PICK k \in m..Len(h) : /\ Latest(Upto(h, m), a) /\ Latest(Upto(h, k), b)
                               /\ m \in 1..Len(h) /\ k \in 1..Len(h)
    BY <1>2
  <1> SUFFICES ASSUME p = PortalOf(id, got.env_eth_input)
               PROVE  \E g \in FinalizedGames(id, h) : g > a.game
    BY <1>1
  <1>4. PortalOf(id, Upto(h, m)) = p /\ PortalOf(id, Upto(h, k)) = p
    <2>1. Len(h) \in 1..Len(h) /\ n \in 1..Len(h) /\ m \in n..Len(h) /\ k \in n..Len(h)
      <3> HIDE DEF h, n
      <3> QED BY <1>1, <1>3
    <2>2. PortalOf(id, Upto(h, n)) = PortalOf(id, Upto(h, Len(h)))
      BY <1>1
    <2>3. \A j \in n..Len(h) : PortalOf(id, Upto(h, j)) = PortalOf(id, Upto(h, Len(h)))
      BY <1>1, <2>1, <2>2, PortalBetween
    <2> QED BY <1>1, <2>1, <2>3
  <1>5. /\ Number(Upto(h, m)) = m - 1 /\ Number(Upto(h, k)) = k - 1 /\ Number(h) = Len(h) - 1
        /\ p \in PortalsOf(id)
    <2>1. m \in m..Len(h) /\ k \in k..Len(h)
      <3> HIDE DEF h, n
      <3> QED BY <1>3
    <2>2. Number(Upto(h, m)) = m - 1 /\ PortalOf(id, Upto(h, m)) \in PortalsOf(id)
      BY <1>1, <1>3, <2>1, PortalAt
    <2>3. Number(Upto(h, k)) = k - 1
      BY <1>1, <1>3, <2>1, PortalAt
    <2> QED BY <1>4, <2>2, <2>3 DEF Number
  <1> DEFINE Ok(g, j) == /\ g \in DOMAIN p.games /\ Respected(p, g) /\ Won(p, g)
                         /\ j - 1 - p.games[g].resolvedAt > ProofMaturityDelay
  <1>6. /\ \A g : g \in FinalizedGames(id, Upto(h, m)) <=> Ok(g, m)
        /\ \A g : g \in FinalizedGames(id, Upto(h, k)) <=> Ok(g, k)
        /\ \A g : g \in FinalizedGames(id, h) <=> Ok(g, Len(h))
    <2>1. p = PortalOf(id, h)
      OBVIOUS
    <2> HIDE DEF p, h
    <2> QED BY <1>4, <1>5, <2>1 DEF FinalizedGames
  <1>7. /\ DOMAIN p.games \subseteq Nat
        /\ \A g \in DOMAIN p.games : p.games[g].resolvedAt \in Nat
    <2>1. p.games \in [DOMAIN InitialGames[id] -> GamesOf(id)]
      BY <1>5 DEF PortalsOf
    <2>2. DOMAIN InitialGames[id] \subseteq Nat
      <3>1. InitialGames[id] \in Seq(GamesOf(id))
        BY <1>1, GamesAssumption
      <3> QED BY <3>1
    <2> HIDE DEF p
    <2>3. \A g \in DOMAIN p.games : p.games[g] \in GamesOf(id)
      BY <2>1
    <2> QED BY <2>1, <2>2, <2>3 DEF GamesOf
  <1>8. ASSUME NEW g, NEW i \in Nat, NEW j \in Nat, i <= j, Ok(g, i)
        PROVE  Ok(g, j)
    <2> DEFINE t == p.games[g].resolvedAt
    <2>1. t \in Nat /\ i - 1 - t > ProofMaturityDelay /\ ProofMaturityDelay \in Nat
      BY <1>7, <1>8, Bounds
    <2> HIDE DEF t
    <2>2. j - 1 - t > ProofMaturityDelay
      BY <1>8, <2>1
    <2> QED BY <1>8, <2>2 DEF t
  <1>9. /\ Ok(a.game, m) /\ Ok(b.game, k)
        /\ \A other : Ok(other, k) => other <= b.game
    <2>1. PICK g \in FinalizedGames(id, Upto(h, m)) :
              a = [game |-> g, claim |-> PortalOf(id, Upto(h, m)).games[g].claim]
      BY <1>3 DEF Latest
    <2>2. PICK x \in FinalizedGames(id, Upto(h, k)) :
              /\ \A other \in FinalizedGames(id, Upto(h, k)) : other <= x
              /\ b = [game |-> x, claim |-> PortalOf(id, Upto(h, k)).games[x].claim]
      BY <1>3 DEF Latest
    <2>3. a.game = g /\ b.game = x
      BY <2>1, <2>2
    <2> HIDE DEF Ok
    <2> QED BY <1>6, <2>2, <2>3
  <1>10. m \in Nat /\ k \in Nat /\ Len(h) \in Nat /\ m <= k /\ k <= Len(h)
    <2> HIDE DEF h, n
    <2> QED BY <1>1, <1>3
  <1>11. a.game \in Nat /\ b.game \in Nat
    BY <1>7, <1>9
  <1> HIDE DEF Ok, h
  <1>12. a.game <= b.game /\ Ok(b.game, Len(h))
    BY <1>8, <1>9, <1>10
  <1>13. a.game # b.game
    BY <1>1 DEF StateCovers
  <1>14. b.game > a.game
    <2> DEFINE u == a.game
               v == b.game
    <2> HIDE DEF u, v
    <2>1. u \in Nat /\ v \in Nat /\ u <= v /\ u # v
      BY <1>11, <1>12, <1>13 DEF u, v
    <2>2. v > u
      BY <2>1
    <2> QED BY <2>2 DEF u, v
  <1> QED BY <1>6, <1>12, <1>14

------------------------------------------------------------------------------
(* So the guest accepts what an honest host hands over.                     *)

\* The hash of Ethereum that a signed block of Optimism attests.
LEMMA OriginAttested ==
    ASSUME ChainsInv, request \in Requests, HeldOrigin(got), NEW i,
           i.commitment = got.commitment, i.env_op_input = got.env_op_input,
           NEW e, e \in Live
    PROVE  EthereumHashAttested(i, e) /\ EthereumHash(i) = OriginOf(got)
  <1>1. /\ viaEthereumHash /\ HeldCommitment(got)
        /\ got.env_op_input = got.commitment.data
    BY DEF HeldOrigin
  <1>2. /\ Signer = get_default_sequencer_chain(id \in SepoliaIds) /\ Signer \in Live
        /\ id \in Live
    BY <1>1, SignedBlockRead, RequestChains
  <1>3. get_default_sequencer_chain(e \in SepoliaIds) = Signer
    BY <1>2, Ids
  <1>4. got.env_op_input # None
    BY <1>1, <1>2, CanonProps DEF HeldCommitment, ChainsInv
  <1>5. validate_opstack_env(Signer, i.commitment, i.env_op_input)
    BY <1>1, HeldVerifies
  <1> QED BY <1>3, <1>4, <1>5 DEF EthereumHashAttested, EthereumHash, OriginOf

\* A header of Linea carries its sequencer's signature.
LEMMA LineaHeaderPasses ==
    ASSUME ChainsInv, LineaSigned, NEW h, Canon(LINEA_CHAIN_ID, h)
    PROVE  validate_linea_env(LINEA_CHAIN_ID, h)
  <1> DEFINE c == LINEA_CHAIN_ID
             f == Tip(h).fork
             block == LineaBlock(c, f, Number(h))
  <1>1. /\ Len(h) \in Nat \ {0} /\ Tip(h) = chain[c][Len(h)] /\ ChainOf(h) = c
        /\ Len(h) \in 1..Len(chain[c])
    BY CanonProps, Bounds DEF ChainsInv, Canon
  <1>2. Tip(h) = block
    BY <1>1 DEF LineaSigned, Number
  <1>3. /\ "extra_data" \in DOMAIN block
        /\ block.extra_data = [key |-> Sequencer(c), low_s |-> TRUE,
                               over |-> [chain |-> c, fork |-> f, number |-> Number(h)]]
    BY DEF LineaBlock
  <1> HIDE DEF block, c, f
  <1>4. recover_signer(block.extra_data, [chain |-> c, fork |-> f, number |-> Number(h)])
            = Sequencer(c)
    BY <1>3 DEF recover_signer, recover_signer_unchecked, Recovered
  <1>5. recover_signer(Tip(h).extra_data,
                       [chain |-> ChainOf(h), fork |-> Tip(h).fork, number |-> Number(h)])
            = Sequencer(c)
    BY <1>1, <1>2, <1>4 DEF f
  <1> QED BY <1>2, <1>3, <1>5 DEF validate_linea_env, c

LEMMA HonestAccepted ==
    ASSUME IInv, RInv, ChainsHonest, NoForks, Held(step, got), AllFetched, StateCovers
    PROVE  GuestAccepts(ZkvmInput)
  <1> DEFINE i == ZkvmInput
             p == sort_and_verify_relevant_params(i)
             head == LinkingBlocks[2]
  <1>1. /\ ChainsInv /\ HostInv /\ EthereumSound /\ request \in Requests /\ Facts(got)
        /\ OriginsCanon /\ LineaSigned /\ PortalsGrow /\ step = "fetch"
    BY DEF IInv, RInv, HostInv, ChainsHonest, AllFetched
  <1>2. HeldHead(got) /\ HeldPieces(got)
    BY <1>1 DEF Held
  <1>3. /\ i.chain_id = id /\ i.commitment = got.commitment
        /\ i.env_op_input = got.env_op_input /\ i.env_eth_input = got.env_eth_input
        /\ i.op_evm_input = got.op_evm_input /\ i.linking_blocks = LinkingBlocks
        /\ p.inclusion = inclusion /\ p.there /\ p.header = head /\ p.lengthChain = LinkingChain
        /\ p.env = Upto(chain[LinkingChain], got.block - 1)
        /\ Len(p.env) = got.block - 1 /\ (settled => p.op_env = got.op_evm_input)
    BY <1>1, <1>2, GuestSees
  <1>4. /\ Canon(LinkingChain, head) /\ Len(head) = got.block + 1
        /\ ParentHash(head) = LinkingBlocks[1]
        /\ ParentHash(LinkingBlocks[1]) = Upto(chain[LinkingChain], got.block - 1)
        /\ DOMAIN LinkingBlocks = 1..2 /\ Len(LinkingBlocks) = 2
        /\ Tip(LinkingBlocks) = head /\ LinkingBlocks # <<>>
        /\ got.block \in Nat /\ got.block >= 2
    BY <1>1, <1>2, LinkedPair
  <1>5. /\ id \in Live /\ id \in MainnetIds /\ LinkingChain \in Live /\ EthereumOf(id) = ETH
        /\ ETH \in Live /\ REORG_PROTECTION_DEPTH[LinkingChain] = 2
        /\ (is_ethereum_chain(id) <=> id = ETH)
        /\ (is_linea_chain(id) => ~is_ethereum_chain(id) /\ id = LINEA_CHAIN_ID)
        /\ (is_opstack_chain(id) => ~is_ethereum_chain(id) /\ ~is_linea_chain(id))
    BY <1>1, RequestChains, Ids, ChainsAssumption
  <1> HIDE DEF i, p, head
  \* The origin is the block proved up to, wherever that is a block of Ethereum.
  <1>6. ASSUME HeldOrigin(got), LinkingChain = ETH, got.block = Number(OriginOf(got))
        PROVE  OriginOf(got) = head
    <2>1. Canon(ETH, OriginOf(got)) /\ Len(OriginOf(got)) = got.block + 1
      BY <1>1, <1>6, HeldOriginProps
    <2> QED BY <1>4, <1>6, <2>1, CanonSame
  <1>7. ASSUME HeldOrigin(got), NEW e \in Live
        PROVE  EthereumHashAttested(i, e) /\ EthereumHash(i) = OriginOf(got)
    BY <1>1, <1>3, <1>7, OriginAttested
  <1>8. BlockHashValidated(i, p) /\ ValidatedHash(i, p) = head
    <2>1. CASE is_ethereum_chain(id) /\ ~inclusion /\ HeldOrigin(got)
               /\ got.block = Number(OriginOf(got))
      <3>1. LinkingChain = ETH
        BY <1>5, <2>1 DEF LinkingChain, settled
      <3> QED BY <1>3, <1>5, <1>6, <1>7, <2>1, <3>1 DEF BlockHashValidated, ValidatedHash
    <2>2. ASSUME is_linea_chain(id) PROVE Canon(id, head) /\ LinkingChain = id
      BY <1>4, <1>5, <2>2 DEF LinkingChain, settled
    <2>3. CASE is_linea_chain(id) /\ ~inclusion
      <3>1. validate_linea_env(id, head)
        BY <1>1, <1>5, <2>2, <2>3, LineaHeaderPasses
      <3> QED BY <1>3, <1>5, <2>3, <3>1
              DEF BlockHashValidated, ValidatedHash, get_validated_block_hash_linea
    <2>4. CASE /\ is_linea_chain(id) /\ inclusion /\ HeldOrigin(got)
               /\ Canon(ETH, got.env_eth_input) /\ got.env_eth_input = OriginOf(got)
               /\ got.block = Tip(got.env_eth_input).posted
      <3>1. validate_linea_env(id, head)
        BY <1>1, <1>5, <2>2, <2>4, LineaHeaderPasses
      <3>2. Number(p.env) <= got.block
        BY <1>3, <1>4 DEF Number
      <3>3. validate_linea_env_with_l1_inclusion(i, Number(p.env), EthereumHash(i))
        <4>1. i.env_eth_input = EthereumHash(i)
          BY <1>3, <1>5, <1>7, <2>4
        <4>2. Tip(i.env_eth_input).posted >= Number(p.env)
          <5>1. Tip(i.env_eth_input).posted = got.block
            BY <1>3, <2>4
          <5>2. Number(p.env) \in Int
            BY <1>3, <1>4 DEF Number
          <5> QED BY <1>4, <3>2, <5>1, <5>2
        <4> QED BY <4>1, <4>2 DEF validate_linea_env_with_l1_inclusion
      <3>4. EthereumHashAttested(i, EthereumOf(i.chain_id))
        BY <1>3, <1>5, <1>7, <2>4
      <3> QED BY <1>3, <1>5, <2>4, <3>1, <3>3, <3>4
              DEF BlockHashValidated, ValidatedHash, get_validated_block_hash_linea
    <2>5. CASE /\ is_opstack_chain(id) /\ ~inclusion /\ HeldCommitment(got)
               /\ got.block = Number(got.commitment.data)
      <3>1. LinkingChain = id /\ Signer = id
        BY <2>5 DEF LinkingChain, settled, Signer
      <3>2. Canon(id, got.commitment.data) /\ Len(got.commitment.data) = got.block + 1
        <4>1. Canon(id, got.commitment.data)
          BY <2>5, <3>1 DEF HeldCommitment
        <4>2. Len(got.commitment.data) \in Nat
          BY <1>1, <1>5, <4>1, CanonProps DEF ChainsInv
        <4> QED BY <2>5, <4>1, <4>2 DEF Number
      <3>3. got.commitment.data = head
        BY <1>4, <3>1, <3>2, CanonSame
      <3>4. validate_opstack_env(id, i.commitment, head)
        BY <1>3, <2>5, <3>1, <3>3, HeldVerifies
      <3> QED BY <1>3, <1>5, <2>5, <3>4
              DEF BlockHashValidated, ValidatedHash, get_validated_block_hash_opstack
    <2>6. CASE HeldPortal(got) /\ HeldGames(got)
      <3>1. /\ settled /\ HeldOrigin(got) /\ got.block = Number(OriginOf(got))
            /\ is_opstack_chain(id) /\ inclusion /\ LinkingChain = ETH
        BY <1>5, <2>6 DEF HeldPortal, settled, LinkingChain
      <3>2. got.op_evm_input # NoOpEnv
        BY <3>1 DEF AllFetched
      <3>3. validate_opstack_dispute_game_commitment(i.chain_id, i.env_eth_input, p.op_env)
        BY <1>1, <1>3, <2>6, <3>1, <3>2, CalledGamePasses
      <3>4. EthereumHashAttested(i, EthereumOf(i.chain_id)) /\ EthereumHash(i) = head
        BY <1>3, <1>5, <1>6, <1>7, <3>1
      <3> QED BY <1>3, <1>5, <3>1, <3>3, <3>4
              DEF BlockHashValidated, ValidatedHash, get_validated_block_hash_opstack
    <2> QED BY <1>2, <2>1, <2>3, <2>4, <2>5, <2>6 DEF HeldHead
  <1>9. validate_chain_length(p.lengthChain, p.env, i.linking_blocks, ValidatedHash(i, p))
    <2>1. ASSUME NEW j \in 1..2
          PROVE  ParentHash(LinkingBlocks[j]) = IF j = 1 THEN p.env ELSE LinkingBlocks[j - 1]
      <3>1. CASE j = 1
        BY <1>3, <1>4, <3>1
      <3>2. CASE j = 2
        BY <1>4, <3>2 DEF head
      <3> QED BY <3>1, <3>2
    <2> QED BY <1>3, <1>4, <1>5, <1>8, <2>1 DEF validate_chain_length
  <1> QED BY <1>3, <1>5, <1>8, <1>9 DEF GuestAccepts, validate_get_proof_data_call, i, p

------------------------------------------------------------------------------
(* Every step keeps what an honest host relies on.                          *)

LEMMA HostProvesHonest ==
    ASSUME IInv, RInv, QInv, HostProves
    PROVE  Held(step, got)' /\ HonestInputsAccepted' /\ step' \in {"accepted", "refused"}
  <1> DEFINE i == ZkvmInput
  <1>1. /\ UNCHANGED chainVars /\ AllFetched /\ ChainsHonest
        /\ IF StateCovers THEN Commit(i) ELSE UNCHANGED journal /\ Goto("refused", got)
    BY DEF HostProves, QInv
  <1>2. \/ StateCovers /\ GuestAccepts(i) /\ Goto("accepted", got)
        \/ ~(StateCovers /\ GuestAccepts(i)) /\ Goto("refused", got)
    <2> HIDE DEF i
    <2> QED BY <1>1 DEF Commit
  <1>3. /\ step' \in {"accepted", "refused"} /\ request' = request /\ got' = got
        /\ chain' = chain /\ forks' = forks
    BY <1>1, <1>2 DEF Goto, chainVars
  <1>4. Held(step, got)'
    BY <1>3 DEF Held
  <1>5. ASSUME ~(StateCovers /\ GuestAccepts(i)) PROVE ChainsGotInTheWay
    <2>1. CASE NoForks
      <3>1. Held(step, got)
        BY <2>1 DEF QInv, HostHonest
      <3>2. ~StateCovers
        BY <1>1, <1>5, <2>1, <3>1, HonestAccepted
      <3>3. settled /\ got.op_evm_input # NoOpEnv
        BY <1>1, <3>2 DEF StateCovers, AllFetched
      <3>4. HeldPortal(got) /\ HeldGames(got)
        <4>1. HeldHead(got)
          BY <1>1, <3>1 DEF Held, AllFetched
        <4>2. is_opstack_chain(id) /\ inclusion /\ id \in Live
          BY <3>3, RequestChains DEF settled, IInv, HostInv
        <4>3. ~is_ethereum_chain(id) /\ ~is_linea_chain(id)
          BY <4>2, Ids
        <4> QED BY <4>1, <4>2, <4>3 DEF HeldHead
      <3>5. /\ settled
            /\ \/ PortalOf(id, chain[ETH]) # PortalOf(id, got.env_eth_input)
               \/ \E g \in FinalizedGames(id, chain[ETH]) : g > got.op_checked.game
        BY <1>1, <3>2, <3>3, <3>4, NewerGameInTheWay DEF IInv, RInv, ChainsHonest
      <3> QED BY <3>5 DEF ChainsGotInTheWay, ETH
    <2>2. CASE ~NoForks
      <3>1. forks \in [Live -> Nat]
        BY DEF RInv, ChainBounds
      <3>2. PICK c \in Live : forks[c] # 0
        BY <2>2 DEF NoForks
      <3>3. forks[c] > 0
        BY <3>1, <3>2
      <3> QED BY <3>3 DEF ChainsGotInTheWay
    <2> QED BY <2>1, <2>2
  <1>6. ChainsGotInTheWay => ChainsGotInTheWay'
    BY <1>3 DEF ChainsGotInTheWay, settled, inclusion, id
  <1>7. HonestInputsAccepted'
    <2>1. step' = "refused" => ~(StateCovers /\ GuestAccepts(i))
      BY <1>2 DEF Goto
    <2> QED BY <1>5, <1>6, <2>1 DEF HonestInputsAccepted
  <1> QED BY <1>3, <1>4, <1>7

\* Where the chains stand still, what is known of them stays.
LEMMA ChainsHonestKept ==
    ASSUME ChainsHonest, UNCHANGED chainVars, UNCHANGED request
    PROVE  ChainsHonest' /\ (NoForks' <=> NoForks)
  <1>1. chain' = chain /\ forks' = forks /\ settled' = settled
    BY DEF chainVars, settled, inclusion, id
  <1>2. \A h : Canon(ETH, h)' <=> Canon(ETH, h)
    BY <1>1 DEF Canon
  <1>3. (OriginsCanon' <=> OriginsCanon) /\ (NoForks' <=> NoForks)
    BY <1>1, <1>2 DEF OriginsCanon, NoForks
  <1>4. (LineaSigned' <=> LineaSigned) /\ (PortalsGrow' <=> PortalsGrow)
    BY <1>1 DEF LineaSigned, PortalsGrow
  <1> QED BY <1>3, <1>4 DEF ChainsHonest

LEMMA NextHonest ==
    ASSUME IInv, RInv, QInv, [Next]_vars
    PROVE  QInv'
  <1>1. /\ ChainsInv /\ HostInv /\ EthereumSound /\ ChainBounds /\ request \in Requests
        /\ ChainsHonest /\ HostHonest
    BY DEF IInv, RInv, HostInv, QInv
  <1> DEFINE Early == {"l1hash", "l1number", "l1env", "game", "fetch", "refused"}
  <1>2. CASE ChainMoves
    <2>1. /\ UNCHANGED <<request, step, got>> /\ step # "refused"
          /\ ChainsHonest' /\ (NoForks' => NoForks)
      BY <1>1, <1>2, ChainsHonestStay DEF ChainMoves, hostVars
    <2>2. ASSUME NoForks' PROVE Held(step, got)'
      <3>1. PICK c \in Watched.chains : Grow(c, Watched) \/ Reorg(c)
        BY <1>2 DEF ChainMoves
      <3>2. c \in Live
        BY <1>1, RequestChains
      <3>3. Grow(c, Watched)
        BY <1>1, <2>2, <3>1, <3>2, OnlyGrowth
      <3>4. Held(step, got)
        BY <1>1, <2>1, <2>2 DEF HostHonest
      <3> QED BY <1>1, <2>1, <3>2, <3>3, <3>4, HeldStays
    <2>3. HonestInputsAccepted'
      BY <2>1 DEF HonestInputsAccepted
    <2> QED BY <1>1, <2>1, <2>2, <2>3 DEF QInv, HostHonest
  <1>3. CASE HostReads
    <2>1. Read /\ UNCHANGED chainVars /\ request.by = "host"
      BY <1>3 DEF HostReads
    <2>2. UNCHANGED request
      BY <2>1, ReadAsks DEF HostInv, IInv, AsksFine
    <2>3. ChainsHonest' /\ (NoForks' <=> NoForks)
      BY <1>1, <2>1, <2>2, ChainsHonestKept
    <2>4. CASE NoForks
      <3>1. Held(step, got)' /\ HonestInputsAccepted'
        BY <1>1, <2>1, <2>4, ReadHeld DEF HostHonest
      <3> QED BY <2>1, <2>2, <2>3, <3>1 DEF QInv, HostHonest
    <2>5. CASE ~NoForks
      <3>1. forks' = forks /\ forks \in [Live -> Nat]
        BY <1>1, <2>1 DEF chainVars, ChainBounds
      <3>2. PICK c \in Live : forks[c] # 0
        BY <2>5 DEF NoForks
      <3>3. forks'[c] > 0
        BY <3>1, <3>2
      <3>4. ChainsGotInTheWay'
        BY <3>3 DEF ChainsGotInTheWay
      <3> QED BY <2>1, <2>2, <2>3, <2>5, <3>4 DEF QInv, HostHonest, HonestInputsAccepted
    <2> QED BY <2>4, <2>5
  <1>4. CASE HostProves
    <2>1. UNCHANGED chainVars /\ UNCHANGED request /\ request.by = "host"
      BY <1>4 DEF HostProves, Commit, Goto
    <2>2. Held(step, got)' /\ HonestInputsAccepted'
      BY <1>4, HostProvesHonest
    <2> QED BY <1>1, <2>1, <2>2, ChainsHonestKept DEF QInv, HostHonest
  <1>5. CASE OtherProves
    <2>1. UNCHANGED chainVars /\ UNCHANGED request /\ step' = "accepted"
      BY <1>5 DEF OtherProves, Commit, Goto
    <2>2. Held(step, got)' /\ HonestInputsAccepted'
      BY <2>1 DEF Held, HonestInputsAccepted
    <2> QED BY <1>1, <2>1, <2>2, ChainsHonestKept DEF QInv, HostHonest
  <1>6. CASE UNCHANGED vars
    <2>1. UNCHANGED <<request, step, got>> /\ UNCHANGED chainVars
      BY <1>6 DEF vars, hostVars
    <2>2. ChainsHonest' /\ (NoForks' <=> NoForks)
      BY <1>1, <2>1, ChainsHonestKept
    <2>3. Goto(step, got)
      BY <2>1 DEF Goto
    <2>4. Held(step, got) => Held(step, got)'
      BY <2>1, <2>3, GoesHeld
    <2>5. HonestInputsAccepted'
      <3>1. /\ settled' = settled /\ id' = id /\ chain' = chain /\ forks' = forks
            /\ got' = got /\ step' = step
        BY <2>1 DEF chainVars, settled, inclusion, id
      <3> QED BY <1>1, <3>1 DEF HostHonest, HonestInputsAccepted, ChainsGotInTheWay
    <2> QED BY <1>1, <2>1, <2>2, <2>4, <2>5 DEF QInv, HostHonest
  <1> QED BY <1>2, <1>3, <1>4, <1>5, <1>6 DEF Next

\* An honest host's input is refused only if a chain was reorganised or, for a
\* dispute game, the portal changed, Ethereum ran ahead by more than the slack
\* or a newer game became final (viewcalls.rs:1796, 1132): without
\* reorganisations every piece that the host holds is a block of the chain as
\* it is, and those pieces pass every check of the guest.
THEOREM HonestHostsAreServed == Spec => []HonestInputsAccepted
  <1>1. Init => IInv /\ RInv /\ QInv
    BY InitIInv, InitRInv, InitHonest
  <1>2. (IInv /\ RInv /\ QInv) /\ [Next]_vars => (IInv /\ RInv /\ QInv)'
    BY NextKeeps, NextRight, NextHonest
  <1>3. IInv /\ RInv /\ QInv => HonestInputsAccepted
    BY DEF QInv, HostHonest
  <1> QED BY <1>1, <1>2, <1>3, PTL DEF Spec
=============================================================================
