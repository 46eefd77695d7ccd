------------------------ MODULE LockFreeQueueProofs ------------------------
(***************************************************************************)
(* Proofs about LockFreeQueue for every number of producers, addresses and *)
(* items: no use after free, no lost item, no leak, and the refinement of  *)
(* MpscQueue.                                                              *)
(***************************************************************************)
EXTENDS LockFreeQueue, SequenceTheorems, TLAPS

-----------------------------------------------------------------------------
(* The inductive invariant.                                                *)

InChain(n) == \E i \in 1..Len(chain) : chain[i] = n

\* A producer that has exchanged head_ and not linked its node yet.
Unlinked(n, m) ==
    \E p \in Producers : pc[p] = "link" /\ prevhead[p] = n /\ node[p] = m

\* The nodes from tail_ to head_: each points to the following one, or some
\* producer is about to make it do so.
ChainInv ==
    /\ Len(chain) >= 1
    /\ \A i, j \in 1..Len(chain) : chain[i] = chain[j] => i = j
    /\ chain[Len(chain)] = head_
    /\ next_[head_] = Null
    /\ chain[1] = IF cpc = "advance" THEN next ELSE tail_
    /\ \A i \in 1..(Len(chain) - 1) :
        \/ next_[chain[i]] = chain[i + 1]
        \/ next_[chain[i]] = Null /\ Unlinked(chain[i], chain[i + 1])

\* What a producer holds in enqueue.
ProducerHolds(p) ==
    /\ pc[p] = "exchange" =>
        /\ node[p] \in heap /\ ~InChain(node[p])
        /\ next_[node[p]] = Null
    /\ pc[p] = "link" =>
        /\ next_[prevhead[p]] = Null
        /\ \E i \in 1..(Len(chain) - 1) :
            chain[i] = prevhead[p] /\ chain[i + 1] = node[p]
    /\ pc[p] # "idle" => /\ data[node[p]] = <<p, sent[p]>>
                         /\ sent[p] \in 1..MaxItems
                         /\ ~dying

ProducerInv == \A p \in Producers : ProducerHolds(p)

\* What the consumer holds: tail is the first node of the chain, or, once the item
\* behind it is taken, a node nobody else can reach.
ConsumerInv ==
    /\ cpc \in {"load", "empty", "move", "advance"} => tail = tail_
    /\ cpc = "move" => next = next_[tail] /\ next # Null
    /\ cpc \in {"advance", "delete"} =>
        /\ tail \in heap /\ ~InChain(tail)
        /\ \A p \in Producers : pc[p] = "exchange" => node[p] # tail
    /\ cpc \in {"deleteHead", "gone"} => Len(chain) = 1 /\ dying

\* Every node is in the chain, or still private to a producer, or to be deleted.
HeapInv ==
    /\ cpc # "gone" => \A i \in 1..Len(chain) : chain[i] \in heap
    /\ \A n \in heap :
        \/ InChain(n) /\ cpc # "gone"
        \/ \E p \in Producers : pc[p] = "exchange" /\ node[p] = n
        \/ cpc \in {"advance", "delete"} /\ n = tail

\* The nodes behind the first one hold the items, each its own.
DataInv ==
    /\ \A i \in 2..Len(chain) : data[chain[i]] # Null
    /\ \A n \in Nodes : data[n] # Null =>
        \/ \E i \in 2..Len(chain) : chain[i] = n
        \/ \E p \in Producers : pc[p] = "exchange" /\ node[p] = n
    /\ \A n \in Nodes : data[n] # Null => data[n][2] <= sent[data[n][1]]
    /\ \A n, m \in Nodes : data[n] = data[m] /\ data[n] # Null => n = m

QueueInv == ChainInv /\ ProducerInv /\ ConsumerInv /\ HeapInv /\ DataInv

IInv == TypeOK /\ QueueInv

-----------------------------------------------------------------------------
(* Types.                                                                  *)

\* The first two positions of a chain that has more than one.
LEMMA FirstTwo ==
    ASSUME NEW n \in Nat, n >= 1, n # 1
    PROVE  1 \in 1..(n - 1) /\ 2 \in 1..n /\ 1 + 1 = 2
OBVIOUS

\* The node dequeue finds behind the one it leaves is the next one of the chain.
LEMMA NextInChain ==
    ASSUME TypeOK, ChainInv, cpc # "advance", next_[tail_] # Null
    PROVE  Len(chain) >= 2 /\ next_[tail_] = chain[2] /\ chain[2] \in Nodes
<1>1. Len(chain) \in Nat /\ \A i \in 1..Len(chain) : chain[i] \in Nodes
  BY LenProperties, ElementOfSeq DEF TypeOK
<1>2. chain[1] = tail_
  BY DEF ChainInv
<1>3. Len(chain) >= 2
  BY <1>1, <1>2 DEF ChainInv
<1>4. 1 \in 1..(Len(chain) - 1) /\ 2 \in 1..Len(chain) /\ 1 + 1 = 2
  BY <1>1, <1>3
<1>5. next_[chain[1]] = chain[1 + 1] \/ next_[chain[1]] = Null
  BY <1>4 DEF ChainInv
<1> QED
  BY <1>1, <1>2, <1>3, <1>4, <1>5

\* The first node is an address like any other.
LEMMA InitType == Init => TypeOK
<1> SUFFICES ASSUME Init PROVE TypeOK
  OBVIOUS
<1>1. PICK n \in Nodes : heap = {n} /\ head_ = n /\ tail_ = n /\ chain = <<n>> /\ tail = n /\ next = Null
  BY DEF Init
<1>2. <<>> \in Seq(Item) /\ <<n>> \in Seq(Nodes)
  BY EmptySeq
<1>3. /\ sent \in [Producers -> 0..MaxItems]
      /\ data \in [Nodes -> Item \cup {Null}]
  BY MaxItemsAssumption DEF Init
<1>4. chain \in Seq(Nodes) /\ output \in Seq(Item)
  BY <1>1, <1>2 DEF Init
<1> QED
  BY <1>1, <1>3, <1>4 DEF Init, TypeOK, Address

\* Every step preserves the types, given what the consumer and producers hold.
LEMMA TypeStep == TypeOK /\ QueueInv /\ [Next]_vars => TypeOK'
<1> SUFFICES ASSUME TypeOK, QueueInv, [Next]_vars PROVE TypeOK'
  OBVIOUS
<1> USE DEF TypeOK, Address, queueVars, producerVars, consumerVars
<1>1. ASSUME NEW p \in Producers, NewNode(p) PROVE TypeOK'
  <2>1. <<p, sent[p] + 1>> \in Item /\ sent[p] + 1 \in 0..MaxItems
    BY <1>1, MaxItemsAssumption DEF NewNode, Item
  <2> QED
    BY <1>1, <2>1 DEF NewNode
<1>2. ASSUME NEW p \in Producers, Exchange(p) PROVE TypeOK'
  <2>1. node[p] \in Nodes
    BY <1>2 DEF Exchange, QueueInv, ProducerInv, ProducerHolds
  <2>2. chain' \in Seq(Nodes)
    BY <1>2, <2>1, AppendProperties DEF Exchange
  <2> QED
    BY <1>2, <2>1, <2>2 DEF Exchange
<1>3. ASSUME NEW p \in Producers, Link(p) PROVE TypeOK'
  BY <1>3 DEF Link
<1>4. CASE DequeueCall \/ EmptyCall \/ LoadNext \/ EmptyReturn \/ DeleteTail \/ Destroy \/ DeleteHead
  BY <1>4 DEF DequeueCall, EmptyCall, LoadNext, EmptyReturn, DeleteTail, Destroy, DeleteHead
<1>5. CASE MoveData
  <2>1. next \in Nodes /\ Len(chain) > 1 /\ next = chain[2]
    BY <1>5, NextInChain DEF MoveData, QueueInv, ConsumerInv
  <2>2. data[next] \in Item
    <3>1. 2 \in 2..Len(chain)
      BY <2>1, LenProperties
    <3> QED
      BY <2>1, <3>1 DEF QueueInv, DataInv
  <2>3. output' \in Seq(Item)
    BY <1>5, <2>2, AppendProperties DEF MoveData
  <2>4. chain' \in Seq(Nodes)
    BY <1>5, <2>1, HeadTailProperties, EmptySeq DEF MoveData
  <2> QED
    BY <1>5, <2>1, <2>3, <2>4 DEF MoveData
<1>6. CASE StoreTail
  BY <1>6, NullAssumption DEF StoreTail, QueueInv, ChainInv
<1>7. CASE UNCHANGED vars
  BY <1>7 DEF vars
<1> QED
  BY <1>1, <1>2, <1>3, <1>4, <1>5, <1>6, <1>7 DEF Next, Enqueue, Dequeue, Gone

-----------------------------------------------------------------------------
(* The invariant holds initially, and every step preserves it.             *)

\* The chain is the first node alone.
LEMMA InitInv == Init => QueueInv
<1> SUFFICES ASSUME Init PROVE QueueInv
  OBVIOUS
<1>1. PICK n \in Nodes : heap = {n} /\ head_ = n /\ tail_ = n /\ chain = <<n>> /\ tail = n /\ next = Null
  BY DEF Init
<1>2. Len(chain) = 1 /\ chain[1] = n
  BY <1>1
<1> QED
  BY <1>1, <1>2 DEF Init, QueueInv, ChainInv, ProducerInv, ProducerHolds, ConsumerInv, HeapInv, DataInv, InChain

\* What the invariant says of the chain, for use with its indices.
LEMMA ChainFacts ==
    ASSUME TypeOK
    PROVE  /\ Len(chain) \in Nat /\ DOMAIN chain = 1..Len(chain)
           /\ \A i \in 1..Len(chain) : chain[i] \in Nodes
BY LenProperties, ElementOfSeq DEF TypeOK

\* A new node is known only to the producer that allocated it.
LEMMA NewNodeStep ==
    ASSUME TypeOK, QueueInv, NEW p \in Producers, NewNode(p)
    PROVE  QueueInv'
<1> USE ChainFacts DEF TypeOK, QueueInv, queueVars, producerVars, consumerVars, InChain
<1> DEFINE x == <<p, sent[p] + 1>>
<1>1. PICK n \in Nodes \ heap :
        /\ heap' = heap \cup {n}
        /\ next_' = [next_ EXCEPT ![n] = Null]
        /\ data' = [data EXCEPT ![n] = x]
        /\ node' = [node EXCEPT ![p] = n]
  BY DEF NewNode
<1>2. /\ pc[p] = "idle" /\ pc' = [pc EXCEPT ![p] = "exchange"] /\ ~dying
      /\ sent' = [sent EXCEPT ![p] = sent[p] + 1]
      /\ UNCHANGED <<head_, tail_, prevhead, cpc, tail, next, dying, output, chain>>
  BY DEF NewNode
<1>3. cpc # "gone" /\ \A i \in 1..Len(chain) : chain[i] # n
  BY <1>2 DEF ConsumerInv, HeapInv
<1>4. x \in Item /\ x # Null /\ x[1] = p /\ x[2] = sent[p] + 1 /\ sent[p] + 1 \in 1..MaxItems
  BY NullAssumption, MaxItemsAssumption DEF NewNode, Item
<1> HIDE DEF x
<1>5. ChainInv'
  <2>1. head_ # n /\ \A i \in 1..Len(chain) : next_'[chain[i]] = next_[chain[i]]
    BY <1>1, <1>3 DEF ChainInv
  <2>3. \A i \in 1..(Len(chain) - 1) :
            \/ next_'[chain[i]] = chain[i + 1]
            \/ next_'[chain[i]] = Null /\ \E q \in Producers :
                pc'[q] = "link" /\ prevhead'[q] = chain[i] /\ node'[q] = chain[i + 1]
    <3> SUFFICES ASSUME NEW i \in 1..(Len(chain) - 1), next_'[chain[i]] # chain[i + 1]
                 PROVE  next_'[chain[i]] = Null /\ \E q \in Producers :
                            pc'[q] = "link" /\ prevhead'[q] = chain[i] /\ node'[q] = chain[i + 1]
      OBVIOUS
    <3>1. next_'[chain[i]] = Null /\ Unlinked(chain[i], chain[i + 1])
      BY <2>1 DEF ChainInv
    <3>2. PICK q \in Producers :
            pc[q] = "link" /\ prevhead[q] = chain[i] /\ node[q] = chain[i + 1]
      BY <3>1 DEF Unlinked
    <3>3. pc'[q] = "link" /\ prevhead'[q] = chain[i] /\ node'[q] = chain[i + 1]
      BY <1>1, <1>2, <3>2
    <3> QED
      BY <3>1, <3>3
  <2>4. next_'[head_] = Null
    BY <1>1, <2>1 DEF ChainInv
  <2> QED
    BY <1>2, <2>3, <2>4 DEF ChainInv, Unlinked
<1>6. ProducerInv'
  <2> SUFFICES ASSUME NEW q \in Producers PROVE ProducerHolds(q)'
    BY DEF ProducerInv, ProducerHolds
  <2>1. CASE q = p
    BY <1>1, <1>2, <1>3, <1>4, <2>1 DEF ProducerHolds, x
  <2>2. CASE q # p
    <3>1. pc'[q] = pc[q] /\ node'[q] = node[q] /\ prevhead'[q] = prevhead[q] /\ sent'[q] = sent[q]
      BY <1>1, <1>2, <2>2
    <3>2. pc[q] = "exchange" => node[q] # n /\ node[q] \in Nodes
      BY <1>1 DEF ProducerInv, ProducerHolds
    <3>3. pc[q] = "link" => /\ node[q] # n /\ prevhead[q] # n
                            /\ node[q] \in Nodes /\ prevhead[q] \in Nodes
      <4>1. pc[q] = "link" => \E i, k \in 1..Len(chain) : prevhead[q] = chain[i] /\ node[q] = chain[k]
        <5>1. \A i \in 1..(Len(chain) - 1) : i \in 1..Len(chain) /\ i + 1 \in 1..Len(chain)
          OBVIOUS
        <5> QED
          BY <5>1 DEF ProducerInv, ProducerHolds
      <4> QED
        BY <1>3, <4>1
    <3> QED
      BY <1>1, <1>2, <3>1, <3>2, <3>3 DEF ProducerInv, ProducerHolds
  <2> QED
    BY <2>1, <2>2
<1>7. ConsumerInv'
  <2>1. cpc = "move" => tail_ # n
    BY <1>3 DEF ConsumerInv, ChainInv
  <2> QED
    BY <1>1, <1>2, <2>1 DEF ConsumerInv
<1>8. HeapInv'
  BY <1>1, <1>2, <1>3 DEF HeapInv
<1>9. DataInv'
  <2>1. \A m \in Nodes : data'[m] = IF m = n THEN x ELSE data[m]
    BY <1>1
  <2>2. data[n] = Null
    <3>1. ~\E i \in 2..Len(chain) : chain[i] = n
      BY <1>3
    <3>2. \A q \in Producers : pc[q] = "exchange" => node[q] # n
      BY <1>1 DEF ProducerInv, ProducerHolds
    <3> QED
      BY <3>1, <3>2 DEF DataInv
  <2>3. \A m \in Nodes : data[m] # x
    BY <1>4 DEF DataInv
  <2>4. \A q \in Producers : sent[q] <= sent'[q]
    BY <1>2
  <2>5. \A m \in Nodes : data[m] # Null => data[m][1] \in Producers /\ data[m][2] \in Nat
    BY MaxItemsAssumption DEF Item
  <2>6. \A m \in Nodes : data'[m] # Null => data'[m][2] <= sent'[data'[m][1]]
    <3> SUFFICES ASSUME NEW m \in Nodes, data'[m] # Null PROVE data'[m][2] <= sent'[data'[m][1]]
      OBVIOUS
    <3>1. CASE m = n
      BY <1>2, <1>4, <2>1, <3>1
    <3>2. CASE m # n
      <4>1. data[m][2] <= sent[data[m][1]] /\ sent[data[m][1]] <= sent'[data[m][1]]
        BY <2>1, <2>4, <2>5, <3>2 DEF DataInv
      <4> QED
        BY <1>2, <2>1, <2>5, <3>2, <4>1
    <3> QED
      BY <3>1, <3>2
  <2>7. \A i \in 2..Len(chain) : data'[chain[i]] # Null
    BY <1>3, <2>1 DEF DataInv
  <2>8. \A m \in Nodes : data'[m] # Null =>
        \/ \E i \in 2..Len(chain) : chain[i] = m
        \/ \E q \in Producers : pc'[q] = "exchange" /\ node'[q] = m
    BY <1>1, <1>2, <2>1 DEF DataInv
  <2>9. \A m, k \in Nodes : data'[m] = data'[k] /\ data'[m] # Null => m = k
    BY <2>1, <2>3 DEF DataInv
  <2> QED
    BY <1>2, <2>6, <2>7, <2>8, <2>9 DEF DataInv
<1> QED
  BY <1>5, <1>6, <1>7, <1>8, <1>9

\* Linking turns the gap between two nodes of the chain into a pointer.
LEMMA LinkStep ==
    ASSUME TypeOK, QueueInv, NEW p \in Producers, Link(p)
    PROVE  QueueInv'
<1> USE ChainFacts DEF TypeOK, QueueInv, Link, queueVars, producerVars, consumerVars, InChain
<1>1. PICK j \in 1..(Len(chain) - 1) : chain[j] = prevhead[p] /\ chain[j + 1] = node[p]
  BY DEF ProducerInv, ProducerHolds
<1>2. next_' = [next_ EXCEPT ![chain[j]] = chain[j + 1]] /\ next_[chain[j]] = Null
  BY <1>1 DEF ProducerInv, ProducerHolds
<1>3. \A i \in 1..Len(chain) : i # j => next_'[chain[i]] = next_[chain[i]]
  BY <1>2 DEF ChainInv
<1>4. chain[j] \in Nodes /\ next_'[chain[j]] = chain[j + 1]
  BY <1>2
<1>5. \A q \in Producers : q # p /\ pc[q] = "link" => prevhead[q] # chain[j]
  <2> SUFFICES ASSUME NEW q \in Producers, q # p, pc[q] = "link", prevhead[q] = chain[j]
               PROVE  FALSE
    OBVIOUS
  <2>1. PICK k \in 1..(Len(chain) - 1) : chain[k] = chain[j] /\ chain[k + 1] = node[q]
    BY DEF ProducerInv, ProducerHolds
  <2>2. k = j
    BY <2>1 DEF ChainInv
  <2>3. data[node[p]] = <<p, sent[p]>> /\ data[node[q]] = <<q, sent[q]>>
    BY DEF ProducerInv, ProducerHolds
  <2> QED
    BY <1>1, <2>1, <2>2, <2>3
<1>6. ChainInv'
  <2>1. head_ # chain[j]
    BY DEF ChainInv
  <2>2. \A i \in 1..(Len(chain) - 1) : i # j /\ Unlinked(chain[i], chain[i + 1]) =>
            Unlinked(chain[i], chain[i + 1])'
    BY <1>1 DEF Unlinked, ChainInv
  <2> QED
    BY <1>2, <1>3, <1>4, <2>1, <2>2 DEF ChainInv
<1>7. ProducerInv'
  <2>1. \A q \in Producers : pc'[q] = "exchange" =>
            node[q] # chain[j] /\ node[q] \in Nodes /\ pc[q] = "exchange"
    BY DEF ProducerInv, ProducerHolds
  <2>2. \A q \in Producers : pc'[q] = "link" =>
            prevhead[q] # chain[j] /\ prevhead[q] \in Nodes /\ pc[q] = "link"
    <3>1. \A q \in Producers : pc'[q] = "link" => q # p /\ pc[q] = "link"
      OBVIOUS
    <3>2. \A q \in Producers : pc[q] = "link" => \E i \in 1..Len(chain) : prevhead[q] = chain[i]
      <4>1. \A i \in 1..(Len(chain) - 1) : i \in 1..Len(chain)
        OBVIOUS
      <4> QED
        BY <4>1 DEF ProducerInv, ProducerHolds
    <3> QED
      BY <1>5, <3>1, <3>2
  <2>3. \A q \in Producers : pc'[q] # "idle" => pc[q] # "idle"
    OBVIOUS
  <2> QED
    BY <1>2, <2>1, <2>2, <2>3 DEF ProducerInv, ProducerHolds
<1>8. ConsumerInv'
  BY <1>2, NullAssumption DEF ConsumerInv, ChainInv
<1>9. HeapInv' /\ DataInv'
  BY DEF HeapInv, DataInv
<1> QED
  BY <1>6, <1>7, <1>8, <1>9

\* DequeueCall reads tail_, which is the first node of the chain.
LEMMA DequeueCallStep ==
    ASSUME TypeOK, QueueInv, DequeueCall
    PROVE  QueueInv'
<1> USE ChainFacts DEF TypeOK, QueueInv, DequeueCall, queueVars, producerVars, consumerVars, InChain
<1>1. ChainInv'
  BY DEF ChainInv, ConsumerInv, ProducerInv, ProducerHolds, Unlinked
<1>2. ProducerInv'
  BY DEF ChainInv, ConsumerInv, ProducerInv, ProducerHolds, HeapInv
<1>3. ConsumerInv'
  BY DEF ChainInv, ConsumerInv, ProducerInv, ProducerHolds
<1>4. HeapInv'
  BY DEF ChainInv, ConsumerInv, ProducerInv, ProducerHolds, HeapInv
<1>5. DataInv'
  BY DEF ChainInv, ProducerInv, ProducerHolds, DataInv, HeapInv
<1> QED
  BY <1>1, <1>2, <1>3, <1>4, <1>5

\* So does EmptyCall.
LEMMA EmptyCallStep ==
    ASSUME TypeOK, QueueInv, EmptyCall
    PROVE  QueueInv'
<1> USE ChainFacts DEF TypeOK, QueueInv, EmptyCall, queueVars, producerVars, consumerVars, InChain
<1>1. ChainInv'
  BY DEF ChainInv, ConsumerInv, ProducerInv, ProducerHolds, Unlinked
<1>2. ProducerInv'
  BY DEF ChainInv, ConsumerInv, ProducerInv, ProducerHolds, HeapInv
<1>3. ConsumerInv'
  BY DEF ChainInv, ConsumerInv, ProducerInv, ProducerHolds
<1>4. HeapInv'
  BY DEF ChainInv, ConsumerInv, ProducerInv, ProducerHolds, HeapInv
<1>5. DataInv'
  BY DEF ChainInv, ProducerInv, ProducerHolds, DataInv, HeapInv
<1> QED
  BY <1>1, <1>2, <1>3, <1>4, <1>5

\* LoadNext finds the second node of the chain, or that the first one is not linked.
LEMMA LoadNextStep ==
    ASSUME TypeOK, QueueInv, LoadNext
    PROVE  QueueInv'
<1> USE ChainFacts DEF TypeOK, QueueInv, LoadNext, queueVars, producerVars, consumerVars, InChain
<1>1. ChainInv'
  BY DEF ChainInv, ConsumerInv, ProducerInv, ProducerHolds, Unlinked
<1>2. ProducerInv'
  BY DEF ChainInv, ConsumerInv, ProducerInv, ProducerHolds, HeapInv
<1>3. ConsumerInv'
  <2>1. dying /\ next_[tail_] = Null /\ cpc # "advance" => Len(chain) = 1
    <3> SUFFICES ASSUME dying, next_[tail_] = Null, cpc # "advance", Len(chain) # 1 PROVE FALSE
      OBVIOUS
    <3>1. 1 \in 1..(Len(chain) - 1) /\ 2 \in 1..Len(chain) /\ 1 + 1 = 2
      <4>1. Len(chain) \in Nat /\ Len(chain) >= 1 /\ Len(chain) # 1
        BY DEF ChainInv
      <4> QED
        BY <4>1, FirstTwo
    <3>2. chain[1] = tail_ /\ ~Unlinked(chain[1], chain[2])
      BY DEF ChainInv, Unlinked, ProducerInv, ProducerHolds
    <3> QED
      BY <3>1, <3>2, NullAssumption DEF ChainInv
  <2> QED
    BY <2>1 DEF ConsumerInv
<1>4. HeapInv'
  BY DEF ChainInv, ConsumerInv, ProducerInv, ProducerHolds, HeapInv
<1>5. DataInv'
  BY DEF ChainInv, ProducerInv, ProducerHolds, DataInv, HeapInv
<1> QED
  BY <1>1, <1>2, <1>3, <1>4, <1>5

\* EmptyReturn changes nothing shared.
LEMMA EmptyReturnStep ==
    ASSUME TypeOK, QueueInv, EmptyReturn
    PROVE  QueueInv'
<1> USE ChainFacts DEF TypeOK, QueueInv, EmptyReturn, queueVars, producerVars, consumerVars, InChain
<1>1. ChainInv'
  BY DEF ChainInv, ConsumerInv, ProducerInv, ProducerHolds, Unlinked
<1>2. ProducerInv'
  BY DEF ChainInv, ConsumerInv, ProducerInv, ProducerHolds, HeapInv
<1>3. ConsumerInv'
  BY DEF ChainInv, ConsumerInv, ProducerInv, ProducerHolds
<1>4. HeapInv'
  BY DEF ChainInv, ConsumerInv, ProducerInv, ProducerHolds, HeapInv
<1>5. DataInv'
  BY DEF ChainInv, ProducerInv, ProducerHolds, DataInv, HeapInv
<1> QED
  BY <1>1, <1>2, <1>3, <1>4, <1>5

\* StoreTail catches up with the chain, which MoveData has shortened.
LEMMA StoreTailStep ==
    ASSUME TypeOK, QueueInv, StoreTail
    PROVE  QueueInv'
<1> USE ChainFacts DEF TypeOK, QueueInv, StoreTail, queueVars, producerVars, consumerVars, InChain
<1>1. ChainInv'
  BY DEF ChainInv, ConsumerInv, ProducerInv, ProducerHolds, Unlinked
<1>2. ProducerInv'
  BY DEF ChainInv, ConsumerInv, ProducerInv, ProducerHolds, HeapInv
<1>3. ConsumerInv'
  BY DEF ChainInv, ConsumerInv, ProducerInv, ProducerHolds
<1>4. HeapInv'
  BY DEF ChainInv, ConsumerInv, ProducerInv, ProducerHolds, HeapInv
<1>5. DataInv'
  BY DEF ChainInv, ProducerInv, ProducerHolds, DataInv, HeapInv
<1> QED
  BY <1>1, <1>2, <1>3, <1>4, <1>5

\* DeleteTail frees the one node that is in no chain and with no producer.
LEMMA DeleteTailStep ==
    ASSUME TypeOK, QueueInv, DeleteTail
    PROVE  QueueInv'
<1> USE ChainFacts DEF TypeOK, QueueInv, DeleteTail, queueVars, producerVars, consumerVars, InChain
<1>1. ChainInv'
  BY DEF ChainInv, ConsumerInv, ProducerInv, ProducerHolds, Unlinked
<1>2. ProducerInv'
  BY DEF ChainInv, ConsumerInv, ProducerInv, ProducerHolds, HeapInv
<1>3. ConsumerInv'
  BY DEF ChainInv, ConsumerInv, ProducerInv, ProducerHolds
<1>4. HeapInv'
  BY DEF ChainInv, ConsumerInv, ProducerInv, ProducerHolds, HeapInv
<1>5. DataInv'
  BY DEF ChainInv, ProducerInv, ProducerHolds, DataInv, HeapInv
<1> QED
  BY <1>1, <1>2, <1>3, <1>4, <1>5

\* Destroy begins when no producer holds a node.
LEMMA DestroyStep ==
    ASSUME TypeOK, QueueInv, Destroy
    PROVE  QueueInv'
<1> USE ChainFacts DEF TypeOK, QueueInv, Destroy, queueVars, producerVars, consumerVars, InChain
<1>1. ChainInv'
  BY DEF ChainInv, ConsumerInv, ProducerInv, ProducerHolds, Unlinked
<1>2. ProducerInv'
  BY DEF ChainInv, ConsumerInv, ProducerInv, ProducerHolds, HeapInv
<1>3. ConsumerInv'
  BY DEF ChainInv, ConsumerInv, ProducerInv, ProducerHolds
<1>4. HeapInv'
  BY DEF ChainInv, ConsumerInv, ProducerInv, ProducerHolds, HeapInv
<1>5. DataInv'
  BY DEF ChainInv, ProducerInv, ProducerHolds, DataInv, HeapInv
<1> QED
  BY <1>1, <1>2, <1>3, <1>4, <1>5

\* DeleteHead frees the last node: by then it is the whole chain.
LEMMA DeleteHeadStep ==
    ASSUME TypeOK, QueueInv, DeleteHead
    PROVE  QueueInv'
<1> USE ChainFacts DEF TypeOK, QueueInv, DeleteHead, queueVars, producerVars, consumerVars, InChain
<1>1. ChainInv'
  BY DEF ChainInv, ConsumerInv, ProducerInv, ProducerHolds, Unlinked
<1>2. ProducerInv'
  BY DEF ChainInv, ConsumerInv, ProducerInv, ProducerHolds, HeapInv
<1>3. ConsumerInv'
  BY DEF ChainInv, ConsumerInv, ProducerInv, ProducerHolds
<1>4. HeapInv'
  <2>1. \A i \in 1..Len(chain) : chain[i] = head_
    BY DEF ChainInv, ConsumerInv
  <2>2. \A p \in Producers : pc[p] = "idle"
    BY DEF ConsumerInv, ProducerInv, ProducerHolds
  <2> QED
    BY <2>1, <2>2 DEF HeapInv
<1>5. DataInv'
  BY DEF ChainInv, ProducerInv, ProducerHolds, DataInv, HeapInv
<1> QED
  BY <1>1, <1>2, <1>3, <1>4, <1>5

\* The exchange appends the node to the chain, behind a gap.
LEMMA ExchangeStep ==
    ASSUME TypeOK, QueueInv, NEW p \in Producers, Exchange(p)
    PROVE  QueueInv'
<1> DEFINE L == Len(chain)
<1> DEFINE n == node[p]
<1>1. /\ pc[p] = "exchange" /\ pc' = [pc EXCEPT ![p] = "link"]
      /\ prevhead' = [prevhead EXCEPT ![p] = head_] /\ head_' = n
      /\ UNCHANGED <<heap, next_, data, tail_, node, sent, cpc, tail, next, dying, output>>
  BY DEF Exchange, consumerVars
<1>2. /\ n \in heap /\ n \in Nodes /\ ~InChain(n) /\ next_[n] = Null /\ ~dying
      /\ data[n] = <<p, sent[p]>> /\ sent[p] \in 1..MaxItems
  BY <1>1 DEF QueueInv, ProducerInv, ProducerHolds, TypeOK
<1>3. /\ L \in Nat /\ L >= 1 /\ Len(chain') = L + 1 /\ chain'[L + 1] = n
      /\ \A i \in 1..L : chain'[i] = chain[i] /\ chain[i] \in Nodes
  BY <1>2, ChainFacts, AppendProperties DEF Exchange, TypeOK, QueueInv, ChainInv
<1> HIDE DEF L
<1>4. \A i \in 1..(L + 1) : i \in 1..L \/ i = L + 1
  BY <1>3
<1>5. \A m : InChain(m)' <=> InChain(m) \/ m = n
  BY <1>3, <1>4 DEF InChain, L
<1>6. \A i \in 1..L : chain[i] # n
  BY <1>2 DEF InChain, L
<1>7. \A q \in Producers : q # p /\ pc[q] = "exchange" => node[q] # n
  <2> SUFFICES ASSUME NEW q \in Producers, q # p, pc[q] = "exchange", node[q] = n
               PROVE  FALSE
    OBVIOUS
  <2>1. data[n] = <<q, sent[q]>>
    BY DEF QueueInv, ProducerInv, ProducerHolds
  <2> QED
    BY <1>2, <2>1
<1>8. ChainInv'
  <2>1. \A i, j \in 1..(L + 1) : chain'[i] = chain'[j] => i = j
    BY <1>3, <1>4, <1>6 DEF QueueInv, ChainInv, L
  <2>2. chain'[1] = IF cpc = "advance" THEN next ELSE tail_
    BY <1>3 DEF QueueInv, ChainInv
  <2>3. ASSUME NEW i \in 1..L
        PROVE  \/ next_[chain'[i]] = chain'[i + 1]
               \/ next_[chain'[i]] = Null /\ \E q \in Producers :
                    pc'[q] = "link" /\ prevhead'[q] = chain'[i] /\ node[q] = chain'[i + 1]
    <3>1. CASE i = L
      <4>1. chain'[i] = head_ /\ chain'[i + 1] = n /\ next_[head_] = Null
        BY <1>3, <3>1 DEF QueueInv, ChainInv, L
      <4>2. pc'[p] = "link" /\ prevhead'[p] = head_ /\ node[p] = n
        BY <1>1 DEF TypeOK
      <4> QED
        BY <4>1, <4>2
    <3>2. CASE i # L
      <4>1. i \in 1..(L - 1) /\ i + 1 \in 1..L /\ chain'[i] = chain[i] /\ chain'[i + 1] = chain[i + 1]
        BY <1>3, <3>2
      <4>2. CASE next_[chain[i]] = chain[i + 1]
        BY <4>1, <4>2
      <4>3. CASE next_[chain[i]] = Null /\ Unlinked(chain[i], chain[i + 1])
        <5>1. PICK q \in Producers :
                pc[q] = "link" /\ prevhead[q] = chain[i] /\ node[q] = chain[i + 1]
          BY <4>3 DEF Unlinked
        <5>2. pc'[q] = "link" /\ prevhead'[q] = chain[i]
          BY <1>1, <5>1 DEF TypeOK
        <5> QED
          BY <4>1, <4>3, <5>1, <5>2
      <4> QED
        BY <4>1, <4>2, <4>3 DEF QueueInv, ChainInv, L
    <3> QED
      BY <3>1, <3>2
  <2> QED
    BY <1>1, <1>2, <1>3, <2>1, <2>2, <2>3 DEF ChainInv, Unlinked
<1>9. ProducerInv'
  <2> SUFFICES ASSUME NEW q \in Producers PROVE ProducerHolds(q)'
    BY DEF ProducerInv
  <2>1. CASE q = p
    <3>1. L \in 1..L /\ chain[L] = head_ /\ next_[head_] = Null
      BY <1>3 DEF QueueInv, ChainInv, L
    <3>2. L \in 1..(Len(chain') - 1) /\ chain'[L] = head_ /\ chain'[L + 1] = n
      BY <1>3, <3>1
    <3>3. pc'[q] = "link" /\ prevhead'[q] = head_ /\ node'[q] = n
      BY <1>1, <2>1 DEF TypeOK
    <3> QED
      BY <1>1, <1>2, <2>1, <3>1, <3>2, <3>3 DEF ProducerHolds
  <2>2. CASE q # p
    <3>1. pc'[q] = pc[q] /\ prevhead'[q] = prevhead[q] /\ node'[q] = node[q]
      BY <1>1, <2>2 DEF TypeOK
    <3>2. ASSUME pc[q] = "link"
          PROVE  \E i \in 1..(Len(chain') - 1) : chain'[i] = prevhead[q] /\ chain'[i + 1] = node[q]
      <4>1. PICK i \in 1..(L - 1) : chain[i] = prevhead[q] /\ chain[i + 1] = node[q]
        BY <3>2 DEF QueueInv, ProducerInv, ProducerHolds, L
      <4>2. i \in 1..L /\ i + 1 \in 1..L /\ Len(chain') - 1 = L
        BY <1>3
      <4>3. chain'[i] = prevhead[q] /\ chain'[i + 1] = node[q]
        BY <1>3, <4>1, <4>2
      <4> QED
        BY <4>2, <4>3
    <3> QED
      BY <1>1, <1>5, <1>7, <2>2, <3>1, <3>2 DEF QueueInv, ProducerInv, ProducerHolds
  <2> QED
    BY <2>1, <2>2
<1>10. ConsumerInv'
  <2>1. cpc \notin {"deleteHead", "gone"}
    BY <1>2 DEF QueueInv, ConsumerInv
  <2>2. \A q \in Producers : pc'[q] = "exchange" => pc[q] = "exchange"
    BY <1>1 DEF TypeOK
  <2>3. cpc \in {"advance", "delete"} => tail # n
    BY <1>1 DEF QueueInv, ConsumerInv
  <2> QED
    BY <1>1, <1>5, <2>1, <2>2, <2>3 DEF QueueInv, ConsumerInv
<1>11. HeapInv'
  <2>1. cpc # "gone" => \A i \in 1..(L + 1) : chain'[i] \in heap
    BY <1>2, <1>3, <1>4 DEF QueueInv, HeapInv, L
  <2>2. \A m \in heap : \/ InChain(m)' /\ cpc # "gone"
                        \/ \E q \in Producers : pc'[q] = "exchange" /\ node[q] = m
                        \/ cpc \in {"advance", "delete"} /\ m = tail
    <3>1. cpc # "gone"
      BY <1>2 DEF QueueInv, ConsumerInv
    <3>2. \A q \in Producers : pc[q] = "exchange" => pc'[q] = "exchange" \/ node[q] = n
      BY <1>1 DEF TypeOK
    <3> QED
      BY <1>5, <3>1, <3>2 DEF QueueInv, HeapInv
  <2> QED
    BY <1>1, <1>3, <2>1, <2>2 DEF HeapInv
<1>12. DataInv'
  <2>1. data[n] # Null
    BY <1>1, <1>2, NullAssumption DEF QueueInv, ProducerInv, ProducerHolds, Item
  <2>2. \A i \in 2..(L + 1) : data[chain'[i]] # Null
    BY <1>3, <2>1 DEF QueueInv, DataInv, L
  <2>3. ASSUME NEW m \in Nodes, data[m] # Null
        PROVE  \/ \E i \in 2..(L + 1) : chain'[i] = m
               \/ \E q \in Producers : pc'[q] = "exchange" /\ node[q] = m
    <3>1. CASE m = n
      BY <1>3, <3>1
    <3>2. CASE m # n
      <4>1. CASE \E i \in 2..L : chain[i] = m
        BY <1>3, <4>1
      <4>2. CASE \E q \in Producers : pc[q] = "exchange" /\ node[q] = m
        BY <1>1, <3>2, <4>2 DEF TypeOK
      <4> QED
        BY <2>3, <4>1, <4>2 DEF QueueInv, DataInv, L
    <3> QED
      BY <3>1, <3>2
  <2> QED
    BY <1>1, <1>3, <2>2, <2>3 DEF QueueInv, DataInv
<1> QED
  BY <1>8, <1>9, <1>10, <1>11, <1>12 DEF QueueInv

\* What MoveData does to the chain: its second node becomes the first one.
LEMMA MoveDataFacts ==
    ASSUME TypeOK, QueueInv, MoveData
    PROVE  /\ Len(chain) >= 2 /\ Len(chain') = Len(chain) - 1 /\ Len(chain) \in Nat
           /\ chain[1] = tail /\ tail = tail_ /\ chain[2] = next /\ next \in Nodes
           /\ next_[tail] = next /\ next # Null
           /\ \A i \in 1..(Len(chain) - 1) : chain'[i] = chain[i + 1]
<1>1. cpc = "move" /\ tail = tail_ /\ next = next_[tail_] /\ next # Null
  BY DEF MoveData, QueueInv, ConsumerInv
<1>2. Len(chain) >= 2 /\ next = chain[2] /\ next \in Nodes
  BY <1>1, NextInChain DEF QueueInv
<1>3. chain # <<>> /\ Len(chain) \in Nat
  BY <1>2, EmptySeq, ChainFacts
<1>4. Len(chain') = Len(chain) - 1 /\ \A i \in 1..Len(chain') : chain'[i] = chain[i + 1]
  BY <1>3, HeadTailProperties DEF MoveData, TypeOK
<1> QED
  BY <1>1, <1>2, <1>3, <1>4 DEF QueueInv, ChainInv

\* Taking the item of the second node makes it the first one of the chain.
LEMMA MoveDataStep ==
    ASSUME TypeOK, QueueInv, MoveData
    PROVE  QueueInv'
<1> DEFINE L == Len(chain)
<1>1. /\ cpc = "move" /\ cpc' = "advance" /\ data' = [data EXCEPT ![next] = Null]
      /\ UNCHANGED <<heap, next_, head_, tail_, pc, node, prevhead, sent, tail, next, dying>>
  BY DEF MoveData, producerVars
<1>2. /\ L \in Nat /\ L >= 2 /\ Len(chain') = L - 1
      /\ chain[1] = tail /\ tail = tail_ /\ chain[2] = next /\ next \in Nodes
      /\ next_[tail] = next /\ next # Null
      /\ \A i \in 1..(L - 1) : chain'[i] = chain[i + 1]
  BY MoveDataFacts
<1>3. \A i, j \in 1..L : chain[i] = chain[j] => i = j
  BY DEF QueueInv, ChainInv
<1> HIDE DEF L
<1>4. \A i \in 1..(L - 1) : i + 1 \in 1..L /\ i \in 1..L
  BY <1>2
<1>5. \A i \in 2..L : i - 1 \in 1..(L - 1) /\ (i - 1) + 1 = i /\ chain'[i - 1] = chain[i]
  BY <1>2
<1>6. 1 \in 1..L /\ 2 \in 1..L /\ 1 \in 1..(L - 1)
  BY <1>2
<1>7. \A m : (\E i \in 1..Len(chain') : chain'[i] = m) <=> \E i \in 2..L : chain[i] = m
  <2>1. \A i \in 1..(L - 1) : i + 1 \in 2..L
    BY <1>2
  <2>2. Len(chain') = L - 1
    BY <1>2
  <2>3. ASSUME NEW m, NEW i \in 1..Len(chain'), chain'[i] = m PROVE \E j \in 2..L : chain[j] = m
    BY <1>2, <2>1, <2>2, <2>3
  <2>4. ASSUME NEW m, NEW i \in 2..L, chain[i] = m PROVE \E j \in 1..Len(chain') : chain'[j] = m
    BY <1>5, <2>2, <2>4
  <2> QED
    BY <2>3, <2>4
<1>8. \A i \in 2..L : i \in 1..L /\ chain[i] # tail /\ (i # 2 => chain[i] # next)
  <2>1. \A i \in 2..L : i \in 1..L /\ i # 1
    BY <1>2
  <2> QED
    BY <1>2, <1>3, <1>6, <2>1
<1>9. ASSUME NEW p \in Producers, pc[p] = "link"
      PROVE  /\ \E i \in 2..(L - 1) : chain[i] = prevhead[p] /\ chain[i + 1] = node[p]
             /\ node[p] # next
  <2>1. PICK i \in 1..(L - 1) : chain[i] = prevhead[p] /\ chain[i + 1] = node[p]
    BY <1>9 DEF QueueInv, ProducerInv, ProducerHolds, L
  <2>2. next_[prevhead[p]] = Null
    BY <1>9 DEF QueueInv, ProducerInv, ProducerHolds
  <2>3. i # 1
    BY <1>2, <2>1, <2>2
  <2>4. i \in 2..(L - 1) /\ i + 1 \in 2..L /\ i + 1 # 2
    BY <1>2, <2>3
  <2> QED
    BY <1>8, <2>1, <2>4
<1>10. ASSUME NEW p \in Producers, pc[p] = "exchange"
       PROVE  /\ node[p] # next /\ node[p] # tail
              /\ ~ \E i \in 1..Len(chain') : chain'[i] = node[p]
  <2>1. ~InChain(node[p])
    BY <1>10 DEF QueueInv, ProducerInv, ProducerHolds
  <2>2. \A i \in 1..L : chain[i] # node[p]
    BY <2>1 DEF InChain, L
  <2>3. \A i \in 2..L : chain[i] # node[p]
    BY <1>8, <2>2
  <2> QED
    BY <1>2, <1>6, <1>7, <2>2, <2>3
<1>11. ChainInv'
  <2>1. \A i, j \in 1..(L - 1) : chain'[i] = chain'[j] => i = j
    BY <1>2, <1>3, <1>4
  <2>2. L - 1 \in 1..(L - 1) /\ chain'[L - 1] = chain[L]
    BY <1>2
  <2>3. ASSUME NEW i \in 1..((L - 1) - 1)
        PROVE  \/ next_[chain'[i]] = chain'[i + 1]
               \/ next_[chain'[i]] = Null /\ Unlinked(chain'[i], chain'[i + 1])
    <3>1. i + 1 \in 1..(L - 1) /\ i \in 1..(L - 1)
      BY <1>2
    <3>2. chain'[i] = chain[i + 1] /\ chain'[i + 1] = chain[(i + 1) + 1]
      BY <1>2, <3>1
    <3> QED
      BY <3>1, <3>2 DEF QueueInv, ChainInv, L
  <2> QED
    BY <1>1, <1>2, <1>6, <2>1, <2>2, <2>3 DEF QueueInv, ChainInv, Unlinked, L
<1>12. ProducerInv'
  <2> SUFFICES ASSUME NEW p \in Producers PROVE ProducerHolds(p)'
    BY DEF ProducerInv
  <2>1. pc[p] # "idle" => data'[node[p]] = data[node[p]]
    BY <1>1, <1>9, <1>10 DEF TypeOK
  <2>2. ASSUME pc[p] = "link"
        PROVE  \E i \in 1..(Len(chain') - 1) : chain'[i] = prevhead[p] /\ chain'[i + 1] = node[p]
    <3>1. PICK i \in 2..(L - 1) : chain[i] = prevhead[p] /\ chain[i + 1] = node[p]
      BY <1>9, <2>2
    <3>2. i - 1 \in 1..(Len(chain') - 1) /\ (i - 1) + 1 = i /\ i \in 1..(L - 1) /\ i \in 2..L
      BY <1>2
    <3>3. chain'[i - 1] = prevhead[p] /\ chain'[(i - 1) + 1] = node[p]
      BY <1>2, <1>5, <3>1, <3>2
    <3> QED
      BY <3>2, <3>3
  <2>3. ASSUME pc[p] = "exchange" PROVE ~InChain(node[p])'
    BY <1>1, <1>10, <2>3 DEF InChain
  <2> QED
    BY <1>1, <2>1, <2>2, <2>3 DEF QueueInv, ProducerInv, ProducerHolds
<1>13. ConsumerInv'
  <2>1. tail \in heap
    BY <1>1, <1>2, <1>6 DEF QueueInv, HeapInv, L
  <2>2. ~InChain(tail)'
    <3>1. ~ \E i \in 1..Len(chain') : chain'[i] = tail
      BY <1>7, <1>8
    <3> QED
      BY <1>1, <3>1 DEF InChain
  <2> QED
    BY <1>1, <1>2, <1>10, <2>1, <2>2 DEF ConsumerInv
<1>14. HeapInv'
  <2>1. \A i \in 1..(L - 1) : chain'[i] \in heap
    BY <1>1, <1>2, <1>4 DEF QueueInv, HeapInv, L
  <2>2. ASSUME NEW m, InChain(m), m # tail PROVE \E i \in 1..Len(chain') : chain'[i] = m
    <3>1. \A i \in 1..L : i = 1 \/ i \in 2..L
      BY <1>2
    <3>2. PICK i \in 1..L : chain[i] = m
      BY <2>2 DEF InChain, L
    <3> QED
      BY <1>2, <1>7, <2>2, <3>1, <3>2
  <2>3. ASSUME NEW m \in heap
        PROVE  \/ \E i \in 1..Len(chain') : chain'[i] = m
               \/ \E p \in Producers : pc[p] = "exchange" /\ node[p] = m
               \/ m = tail
    BY <1>1, <2>2 DEF QueueInv, HeapInv
  <2>4. \A m \in heap : \/ (\E i \in 1..Len(chain') : chain'[i] = m) /\ cpc' # "gone"
                        \/ \E p \in Producers : pc'[p] = "exchange" /\ node'[p] = m
                        \/ cpc' \in {"advance", "delete"} /\ m = tail'
    BY <1>1, <2>3
  <2> QED
    BY <1>1, <1>2, <2>1, <2>4 DEF HeapInv, InChain
<1>15. DataInv'
  <2>1. \A m \in Nodes : data'[m] = IF m = next THEN Null ELSE data[m]
    BY <1>1 DEF TypeOK
  <2>2. ASSUME NEW i \in 2..(L - 1) PROVE data'[chain'[i]] # Null
    <3>1. i + 1 \in 2..L /\ i + 1 # 2 /\ i \in 1..(L - 1)
      BY <1>2
    <3>2. chain'[i] = chain[i + 1] /\ chain[i + 1] # next /\ chain[i + 1] \in Nodes
      BY <1>2, <1>8, <3>1, ChainFacts DEF L
    <3> QED
      BY <2>1, <3>1, <3>2 DEF QueueInv, DataInv, L
  <2>3. ASSUME NEW m \in Nodes, data'[m] # Null
        PROVE  \/ \E i \in 2..(L - 1) : chain'[i] = m
               \/ \E p \in Producers : pc[p] = "exchange" /\ node[p] = m
    <3>1. data[m] # Null /\ m # next
      BY <2>1, <2>3
    <3>2. CASE \E i \in 2..L : chain[i] = m
      <4>1. PICK i \in 2..L : chain[i] = m
        BY <3>2
      <4>2. i # 2
        BY <1>2, <3>1, <4>1
      <4>3. i - 1 \in 2..(L - 1)
        BY <1>2, <4>2
      <4> QED
        BY <1>5, <4>1, <4>3
    <3> QED
      BY <3>1, <3>2 DEF QueueInv, DataInv, L
  <2> QED
    BY <1>1, <1>2, <2>1, <2>2, <2>3 DEF QueueInv, DataInv
<1> QED
  BY <1>11, <1>12, <1>13, <1>14, <1>15 DEF QueueInv

-----------------------------------------------------------------------------
(* The theorems.                                                           *)

\* Every step preserves the invariant, one lemma for each action.
LEMMA NextInv == IInv /\ [Next]_vars => IInv'
<1> SUFFICES ASSUME TypeOK, QueueInv, [Next]_vars PROVE QueueInv'
  BY TypeStep DEF IInv
<1>1. CASE UNCHANGED vars
  <2>1. ChainInv'
    BY <1>1 DEF vars, QueueInv, ChainInv, Unlinked
  <2>2. ProducerInv'
    BY <1>1 DEF vars, QueueInv, ProducerInv, ProducerHolds, InChain
  <2>3. ConsumerInv'
    BY <1>1 DEF vars, QueueInv, ConsumerInv, InChain
  <2>4. HeapInv'
    BY <1>1 DEF vars, QueueInv, HeapInv, InChain
  <2>5. DataInv'
    BY <1>1 DEF vars, QueueInv, DataInv
  <2> QED
    BY <2>1, <2>2, <2>3, <2>4, <2>5 DEF QueueInv
<1> QED
  BY <1>1, NewNodeStep, ExchangeStep, LinkStep, DequeueCallStep, EmptyCallStep, LoadNextStep,
     EmptyReturnStep, MoveDataStep, StoreTailStep, DeleteTailStep, DestroyStep,
     DeleteHeadStep DEF Next, Enqueue, Dequeue, Gone

\* The invariant holds in every reachable state.
LEMMA Invariance == Spec => []IInv
<1>1. Init => IInv
  BY InitType, InitInv DEF IInv
<1> QED
  BY <1>1, NextInv, PTL DEF Spec

\* Every variable keeps its type.
THEOREM TypeCorrect == Spec => []TypeOK
<1>1. IInv => TypeOK
  BY DEF IInv
<1> QED
  BY <1>1, Invariance, PTL

\* What a producer between its exchange and its store knows of the chain.
LEMMA LinkingFacts ==
    ASSUME IInv, NEW p \in Producers, pc[p] = "link"
    PROVE  /\ \E i \in 1..(Len(chain) - 1) :
                /\ i \in 1..Len(chain) /\ i + 1 \in 1..Len(chain)
                /\ chain[i] = prevhead[p] /\ chain[i + 1] = node[p]
           /\ next_[prevhead[p]] = Null /\ data[node[p]] = <<p, sent[p]>>
           /\ cpc # "gone" /\ data[node[p]] \in Item
           /\ node[p] \in Nodes /\ prevhead[p] \in Nodes
<1>1. PICK i \in 1..(Len(chain) - 1) : chain[i] = prevhead[p] /\ chain[i + 1] = node[p]
  BY DEF IInv, QueueInv, ProducerInv, ProducerHolds
<1>2. i \in 1..Len(chain) /\ i + 1 \in 1..Len(chain)
  BY ChainFacts DEF IInv
<1>3. node[p] \in Nodes /\ prevhead[p] \in Nodes
  BY <1>1, <1>2, ChainFacts DEF IInv
<1>4. /\ next_[prevhead[p]] = Null /\ data[node[p]] = <<p, sent[p]>> /\ cpc # "gone"
      /\ sent[p] \in 1..MaxItems
  BY DEF IInv, QueueInv, ProducerInv, ProducerHolds, ConsumerInv
<1> QED
  BY <1>1, <1>2, <1>3, <1>4 DEF Item

\* No thread dereferences a node that was deleted: dequeue deletes a node only when
\* no producer can still store into its next_.
THEOREM MemorySafe == Spec => []NoUseAfterFree
<1>1. ASSUME IInv PROVE NoUseAfterFree
  <2> USE <1>1 DEF IInv
  <2>1. cpc # "gone" => head_ \in heap /\ chain[1] \in heap
    <3>1. 1 \in 1..Len(chain) /\ Len(chain) \in 1..Len(chain)
      BY ChainFacts DEF QueueInv, ChainInv
    <3> QED
      BY <3>1 DEF QueueInv, ChainInv, HeapInv
  <2>2. ASSUME NEW p \in Producers, pc[p] = "link" PROVE node[p] \in heap /\ prevhead[p] \in heap
    BY <2>2, LinkingFacts DEF QueueInv, HeapInv
  <2>3. ASSUME NEW p \in Producers, pc[p] = "exchange" PROVE node[p] \in heap
    BY <2>3 DEF QueueInv, ProducerInv, ProducerHolds
  <2>4. cpc = "move" => next \in heap
    <3> SUFFICES ASSUME cpc = "move" PROVE next \in heap
      OBVIOUS
    <3>1. Len(chain) >= 2 /\ next = chain[2]
      BY NextInChain DEF QueueInv, ConsumerInv
    <3>2. 2 \in 1..Len(chain)
      BY <3>1, ChainFacts
    <3> QED
      BY <3>1, <3>2 DEF QueueInv, HeapInv
  <2>5. chain[1] = IF cpc = "advance" THEN next ELSE tail_
    BY DEF QueueInv, ChainInv
  <2>6. /\ cpc \in {"load", "empty", "move", "advance"} => tail = tail_
        /\ cpc \in {"advance", "delete"} => tail \in heap
    BY DEF QueueInv, ConsumerInv
  <2> QED
    BY <2>1, <2>2, <2>3, <2>4, <2>5, <2>6 DEF NoUseAfterFree
<1> QED
  BY <1>1, Invariance, PTL

\* dequeue finds an item in the node it takes one from.
THEOREM DataPresent == Spec => []DataIsThere
<1>1. ASSUME IInv, cpc = "move" PROVE data[next] # Null
  <2>1. Len(chain) >= 2 /\ next = chain[2]
    BY <1>1, NextInChain DEF IInv, QueueInv, ConsumerInv
  <2>2. 2 \in 2..Len(chain)
    BY <1>1, <2>1, ChainFacts DEF IInv
  <2> QED
    BY <1>1, <2>1, <2>2 DEF IInv, QueueInv, DataInv
<1>2. IInv => DataIsThere
  BY <1>1 DEF DataIsThere
<1> QED
  BY <1>2, Invariance, PTL

\* Two producers between exchange and store have different predecessors, and none
\* of them overwrites a link.
THEOREM LinksAreKept == Spec => []NoLostLink
<1>1. ASSUME IInv, NEW p \in Producers, NEW q \in Producers, pc[p] = "link", pc[q] = "link",
             prevhead[p] = prevhead[q]
      PROVE  p = q
  <2>1. PICK i \in 1..(Len(chain) - 1) : i \in 1..Len(chain) /\ chain[i] = prevhead[p] /\ chain[i + 1] = node[p]
    BY <1>1, LinkingFacts
  <2>2. PICK j \in 1..(Len(chain) - 1) : j \in 1..Len(chain) /\ chain[j] = prevhead[q] /\ chain[j + 1] = node[q]
    BY <1>1, LinkingFacts
  <2>3. i = j
    BY <1>1, <2>1, <2>2 DEF IInv, QueueInv, ChainInv
  <2>4. <<p, sent[p]>> = <<q, sent[q]>>
    BY <1>1, <2>1, <2>2, <2>3, LinkingFacts
  <2> QED
    BY <2>4
<1>2. IInv => NoLostLink
  BY <1>1, LinkingFacts DEF NoLostLink
<1> QED
  BY <1>2, Invariance, PTL

\* After the destructor no node and no item is left.
THEOREM LeakFree == Spec => []NothingLeaks
<1>1. ASSUME IInv, cpc = "gone" PROVE heap = {} /\ \A n \in Nodes : data[n] = Null
  <2>1. Len(chain) = 1 /\ \A p \in Producers : pc[p] # "exchange"
    BY <1>1 DEF IInv, QueueInv, ConsumerInv, ProducerInv, ProducerHolds, TypeOK
  <2>2. heap = {}
    BY <1>1, <2>1 DEF IInv, QueueInv, HeapInv
  <2>3. ~ \E i \in 2..Len(chain) : TRUE
    BY <2>1
  <2> QED
    BY <1>1, <2>1, <2>2, <2>3 DEF IInv, QueueInv, DataInv
<1>2. IInv => NothingLeaks
  BY <1>1 DEF NothingLeaks
<1> QED
  BY <1>2, Invariance, PTL

\* dequeue gives up only if the queue is empty or its oldest item is not linked.
THEOREM NoSpuriousFalse == Spec => FalseOnlyIfUnlinked
<1> DEFINE A == ReturnsFalse => \/ Len(chain) = 1
                                \/ \E p \in Producers : pc[p] = "link" /\ prevhead[p] = chain[1]
<1>1. ASSUME IInv, [Next]_vars PROVE A
  <2> SUFFICES ASSUME ReturnsFalse, Len(chain) # 1
               PROVE  \E p \in Producers : pc[p] = "link" /\ prevhead[p] = chain[1]
    OBVIOUS
  <2>1. LoadNext
    BY <1>1 DEF ReturnsFalse, Next, Enqueue, NewNode, Exchange, Link, Dequeue, DequeueCall,
       EmptyCall, EmptyReturn, LoadNext, MoveData, StoreTail, DeleteTail, Destroy, DeleteHead,
       Gone, vars, consumerVars
  <2>2. tail = chain[1] /\ next_[tail] = Null
    BY <1>1, <2>1 DEF LoadNext, ReturnsFalse, IInv, QueueInv, ConsumerInv, ChainInv
  <2>3. 1 \in 1..(Len(chain) - 1) /\ 1 + 1 \in 1..Len(chain)
    BY <1>1, ChainFacts DEF IInv, QueueInv, ChainInv
  <2>4. chain[1 + 1] # Null
    BY <1>1, <2>3, ChainFacts, NullAssumption DEF IInv
  <2>5. Unlinked(chain[1], chain[1 + 1])
    BY <1>1, <2>2, <2>3, <2>4 DEF IInv, QueueInv, ChainInv
  <2> QED
    BY <2>5 DEF Unlinked
<1>2. IInv /\ [Next]_vars => [A]_vars
  BY <1>1
<1> QED
  BY <1>2, Invariance, PTL DEF Spec, FalseOnlyIfUnlinked

-----------------------------------------------------------------------------
(* The refinement of MpscQueue.                                            *)

Items == [i \in 1..(Len(chain) - 1) |-> data[chain[i + 1]]]
Pending == {data[node[p]] : p \in {p \in Producers : pc[p] = "link"}}

\* Whatever leaves the chain, the items in it and the producers that link alone
\* does not change the abstract queue.
LEMMA AbstractStutter ==
    ASSUME IInv, chain' = chain, output' = output,
           \A i \in 1..Len(chain) : data'[chain[i]] = data[chain[i]],
           \A p \in Producers : pc'[p] = "link" <=> pc[p] = "link",
           \A p \in Producers : pc[p] = "link" => node'[p] = node[p]
    PROVE  UNCHANGED <<Items, Pending, output>>
<1>1. \A i \in 1..(Len(chain) - 1) : i + 1 \in 1..Len(chain)
  BY ChainFacts DEF IInv
<1>2. \A i \in 1..(Len(chain) - 1) : data'[chain[i + 1]] = data[chain[i + 1]]
  BY <1>1
<1>3. Items' = Items
  BY <1>2 DEF Items
<1>4. \A p \in Producers : pc[p] = "link" => data'[node'[p]] = data[node[p]]
  BY <1>1, LinkingFacts
<1>5. Pending' = Pending
  BY <1>4 DEF Pending
<1> QED
  BY <1>3, <1>5

\* Exchange reserves the place of the item.
LEMMA AbstractReserve ==
    ASSUME IInv, NEW p \in Producers, Exchange(p)
    PROVE  /\ data[node[p]] \in Item
           /\ Items' = Append(Items, data[node[p]])
           /\ Pending' = Pending \cup {data[node[p]]}
           /\ output' = output
<1> DEFINE L == Len(chain)
           x == data[node[p]]
<1>1. L \in Nat /\ L >= 1 /\ node[p] \in Nodes /\ x \in Item
  <2>1. pc[p] = "exchange"
    BY DEF Exchange
  <2>2. L \in Nat /\ L >= 1
    BY ChainFacts DEF IInv, QueueInv, ChainInv
  <2>3. node[p] \in heap /\ x = <<p, sent[p]>> /\ sent[p] \in 1..MaxItems
    BY <2>1 DEF IInv, QueueInv, ProducerInv, ProducerHolds
  <2> QED
    BY <2>2, <2>3 DEF IInv, TypeOK, Item
<1>2. /\ Len(chain') = L + 1 /\ chain'[L + 1] = node[p]
      /\ \A i \in 1..L : chain'[i] = chain[i]
  BY <1>1, AppendProperties DEF Exchange, IInv, TypeOK
<1>3. Items' = [i \in 1..L |-> IF i = L THEN x ELSE data[chain[i + 1]]]
  <2>1. \A i \in 1..L : chain'[i + 1] = IF i = L THEN node[p] ELSE chain[i + 1]
    BY <1>1, <1>2
  <2>2. Len(chain') - 1 = L /\ data' = data
    BY <1>1, <1>2 DEF Exchange
  <2>3. Items' = [i \in 1..(Len(chain') - 1) |-> data'[chain'[i + 1]]]
    BY DEF Items
  <2> HIDE DEF L
  <2>4. \A i \in 1..L : data'[chain'[i + 1]] = IF i = L THEN x ELSE data[chain[i + 1]]
    BY <2>1, <2>2
  <2> QED
    BY <2>2, <2>3, <2>4
<1>4. Append(Items, x) = [i \in 1..L |-> IF i = L THEN x ELSE data[chain[i + 1]]]
  <2>1. Items = [i \in 1..(L - 1) |-> data[chain[i + 1]]]
    BY DEF Items
  <2> QED
    BY <1>1, <2>1
<1>5. Pending' = Pending \cup {x}
  <2>1. \A q \in Producers : /\ node'[q] = node[q]
                             /\ pc'[q] = IF q = p THEN "link" ELSE pc[q]
    BY DEF Exchange, IInv, TypeOK
  <2> QED
    BY <2>1 DEF Pending, Exchange
<1> QED
  BY <1>1, <1>3, <1>4, <1>5 DEF Exchange

\* Link publishes it.
LEMMA AbstractPublish ==
    ASSUME IInv, NEW p \in Producers, Link(p)
    PROVE  /\ data[node[p]] \in Item /\ data[node[p]] \in Pending
           /\ Pending' = Pending \ {data[node[p]]}
           /\ UNCHANGED <<Items, output>>
<1>1. pc[p] = "link" /\ UNCHANGED <<node, data, chain, output>>
  BY DEF Link
<1>2. \A q \in Producers : pc'[q] = IF q = p THEN "idle" ELSE pc[q]
  BY DEF Link, IInv, TypeOK
<1>3. ASSUME NEW q \in Producers, pc[q] = "link", data[node[q]] = data[node[p]] PROVE q = p
  <2>1. <<q, sent[q]>> = <<p, sent[p]>>
    BY <1>1, <1>3, LinkingFacts
  <2> QED
    BY <2>1
<1>4. Pending' = Pending \ {data[node[p]]}
  BY <1>1, <1>2, <1>3 DEF Pending
<1>5. Items' = Items
  BY <1>1 DEF Items
<1> QED
  BY <1>1, <1>4, <1>5, LinkingFacts DEF Pending

\* MoveData takes the first item, which is not pending.
LEMMA AbstractTake ==
    ASSUME IInv, MoveData
    PROVE  /\ Items # <<>> /\ Head(Items) \notin Pending
           /\ output' = Append(output, Head(Items))
           /\ Items' = Tail(Items) /\ Pending' = Pending
<1> DEFINE L == Len(chain)
<1>1. /\ L \in Nat /\ L >= 2 /\ Len(chain') = L - 1
      /\ chain[1] = tail /\ chain[2] = next /\ next \in Nodes
      /\ next_[tail] = next /\ next # Null
      /\ \A i \in 1..(L - 1) : chain'[i] = chain[i + 1]
  BY MoveDataFacts DEF IInv
<1>2. data' = [data EXCEPT ![next] = Null] /\ UNCHANGED <<pc, node>>
  BY DEF MoveData, producerVars
<1>3. \A i, j \in 1..L : chain[i] = chain[j] => i = j
  BY DEF IInv, QueueInv, ChainInv
<1>4. ASSUME NEW q \in Producers, pc[q] = "link" PROVE node[q] # next
  <2>1. PICK i \in 1..(L - 1) : i + 1 \in 1..L /\ chain[i] = prevhead[q] /\ chain[i + 1] = node[q]
    BY <1>4, LinkingFacts
  <2>2. i # 1
    BY <1>1, <1>4, <2>1, LinkingFacts
  <2>3. 2 \in 1..L /\ i + 1 # 2
    BY <1>1, <2>2
  <2> QED
    BY <1>1, <1>3, <2>1, <2>3
<1>5. ASSUME NEW q \in Producers, pc[q] = "link" PROVE data[node[q]] # data[next]
  BY <1>1, <1>4, <1>5, LinkingFacts, NullAssumption DEF IInv, QueueInv, DataInv
<1>6. Pending' = Pending
  <2>1. \A q \in Producers : pc[q] = "link" => data'[node[q]] = data[node[q]]
    BY <1>2, <1>4, LinkingFacts DEF IInv, TypeOK
  <2> QED
    BY <1>2, <2>1 DEF Pending
<1> DEFINE F == [i \in 1..(L - 1) |-> data[chain[i + 1]]]
<1>7. Items = F /\ Items' = [i \in 1..(Len(chain') - 1) |-> data'[chain'[i + 1]]]
  BY DEF Items
<1>8. 1 \in 1..(L - 1) /\ F[1] = data[next] /\ Len(F) = L - 1 /\ F # <<>>
  BY <1>1
<1>9. \A i \in 1..(L - 2) : data'[chain'[i + 1]] = data[chain[i + 2]]
  <2> HIDE DEF L
  <2>1. \A i \in 1..(L - 2) : /\ i + 1 \in 1..(L - 1) /\ (i + 1) + 1 = i + 2 /\ i + 2 \in 1..L
                              /\ i + 2 # 2 /\ 2 \in 1..L
    BY <1>1
  <2>2. \A i \in 1..(L - 2) : chain'[i + 1] = chain[i + 2] /\ chain[i + 2] # next
    BY <1>1, <1>3, <2>1
  <2>3. \A i \in 1..(L - 2) : chain[i + 2] \in Nodes
    BY <2>1, ChainFacts DEF IInv, L
  <2> QED
    BY <1>2, <2>2, <2>3 DEF IInv, TypeOK
<1>10. Items' = [i \in 1..(L - 2) |-> data[chain[i + 2]]]
  <2> HIDE DEF L
  <2>1. Len(chain') - 1 = L - 2
    BY <1>1
  <2> QED
    BY <1>7, <1>9, <2>1
<1>11. Tail(F) = [i \in 1..(L - 2) |-> data[chain[i + 2]]]
  <2> HIDE DEF L
  <2>1. Tail(F) = [i \in 1..((L - 1) - 1) |-> F[i + 1]]
    BY <1>1
  <2>2. \A i \in 1..(L - 2) : i + 1 \in 1..(L - 1) /\ (i + 1) + 1 = i + 2
    BY <1>1
  <2>3. \A i \in 1..(L - 2) : F[i + 1] = data[chain[i + 2]]
    BY <2>2
  <2>4. (L - 1) - 1 = L - 2
    BY <1>1
  <2> QED
    BY <2>1, <2>3, <2>4
<1> HIDE DEF F
<1>12. Head(F) = data[next]
  BY <1>8
<1>13. data[next] \notin Pending
  BY <1>5 DEF Pending
<1> QED
  BY <1>6, <1>7, <1>8, <1>10, <1>11, <1>12, <1>13 DEF MoveData

\* lock_free_queue implements the queue of MpscQueue: the exchange of head_ orders
\* the items, and each is taken once, after it was linked.
THEOREM Refinement == Spec => Refines
<1>1. ASSUME IInv, Next \/ UNCHANGED vars
      PROVE  \/ UNCHANGED <<Items, Pending, output>>
             \/ /\ Items # <<>> /\ Head(Items) \notin Pending
                /\ output' = Append(output, Head(Items))
                /\ Items' = Tail(Items) /\ Pending' = Pending
             \/ \E x \in Item : \/ Items' = Append(Items, x) /\ Pending' = Pending \cup {x} /\ output' = output
                                \/ x \in Pending /\ Pending' = Pending \ {x} /\ UNCHANGED <<Items, output>>
  <2>1. ASSUME NEW p \in Producers, NewNode(p) PROVE UNCHANGED <<Items, Pending, output>>
    <3>1. \A i \in 1..Len(chain) : data'[chain[i]] = data[chain[i]]
      <4>1. cpc # "gone"
        BY <2>1, <1>1 DEF IInv, QueueInv, ConsumerInv, NewNode
      <4>2. \A i \in 1..Len(chain) : chain[i] \in heap /\ chain[i] \in Nodes
        BY <1>1, <4>1, ChainFacts DEF IInv, QueueInv, HeapInv
      <4> QED
        BY <1>1, <2>1, <4>2 DEF NewNode, IInv, TypeOK
    <3>2. \A q \in Producers : /\ pc'[q] = "link" <=> pc[q] = "link"
                               /\ pc[q] = "link" => node'[q] = node[q]
      BY <1>1, <2>1 DEF NewNode, IInv, TypeOK
    <3> QED
      BY <1>1, <2>1, <3>1, <3>2, AbstractStutter DEF NewNode
  <2>2. ASSUME NEW p \in Producers, Exchange(p)
        PROVE  \E x \in Item : Items' = Append(Items, x) /\ Pending' = Pending \cup {x} /\ output' = output
    BY <1>1, <2>2, AbstractReserve
  <2>3. ASSUME NEW p \in Producers, Link(p)
        PROVE  \E x \in Item : x \in Pending /\ Pending' = Pending \ {x} /\ UNCHANGED <<Items, output>>
    BY <1>1, <2>3, AbstractPublish
  <2>4. CASE MoveData
    BY <1>1, <2>4, AbstractTake
  <2>5. CASE \/ DequeueCall \/ EmptyCall \/ LoadNext \/ EmptyReturn \/ StoreTail \/ DeleteTail
             \/ Destroy \/ DeleteHead \/ UNCHANGED vars
    BY <2>5 DEF DequeueCall, EmptyCall, LoadNext, EmptyReturn, StoreTail, DeleteTail, Destroy,
       DeleteHead, vars, queueVars, producerVars, Items, Pending
  <2> QED
    BY <1>1, <2>1, <2>2, <2>3, <2>4, <2>5 DEF Next, Enqueue, Dequeue, Gone
<1>2. IInv /\ [Next]_vars => [Abstract!Next]_(Abstract!vars)
  BY <1>1 DEF Abstract!Next, Abstract!vars, Abstract!Take, Abstract!Reserve, Abstract!Publish,
     Items, Pending
<1>3. Init => Abstract!Init
  <2> SUFFICES ASSUME Init PROVE Abstract!Init
    OBVIOUS
  <2>1. Len(chain) = 1 /\ output = <<>> /\ \A p \in Producers : pc[p] = "idle"
    BY DEF Init
  <2>2. Items = <<>>
    BY <2>1 DEF Items
  <2>3. Pending = {}
    BY <2>1 DEF Pending
  <2> QED
    BY <2>1, <2>2, <2>3 DEF Abstract!Init, Items, Pending
<1> QED
  BY <1>2, <1>3, Invariance, PTL DEF Spec, Refines, Abstract!Spec
=============================================================================
