---------------------------- MODULE LockFreeQueue ----------------------------
(***************************************************************************)
(* lock_free_queue.hpp: a queue for many producers and one consumer.  Every*)
(* access to a shared atomic (head_, a next_) and every allocation and     *)
(* deletion is a step of its own; tail_ and the data belong to the         *)
(* consumer.  The addresses of deleted nodes are allocated again.          *)
(*                                                                         *)
(* The model is sequentially consistent.  What one thread reads of another *)
(* goes through head_.exchange (acq_rel) or a release store of next_ read  *)
(* by an acquire load, so a node is seen with what its constructor wrote.  *)
(***************************************************************************)
EXTENDS Naturals, Sequences

CONSTANTS
    Producers,  \* the threads that call enqueue
    Nodes,      \* addresses a buffer_node can have: the bound on live nodes
    Null,       \* nullptr, as a node and as data
    MaxItems    \* bound: items a producer enqueues

\* The k-th item of a producer.
Item == Producers \X (1..MaxItems)

ASSUME NullAssumption == Null \notin Nodes /\ Null \notin Item
ASSUME MaxItemsAssumption == MaxItems \in Nat

VARIABLES
    heap,      \* the addresses of the nodes that are allocated
    next_,     \* node -> next_
    data,      \* node -> the item data_ptr_ points to, or Null
    head_,
    tail_,
    pc,        \* producer -> where it is in enqueue
    node,      \* producer -> its local node
    prevhead,  \* producer -> its local prevhead
    sent,      \* producer -> number of its enqueue calls
    cpc,       \* where the consumer is in dequeue, empty or the destructor
    tail,      \* the consumer's local tail
    next,      \* the consumer's local next
    dying,     \* ~lock_free_queue has begun
    output,    \* history: the items dequeue returned, in order
    chain      \* history: the nodes from tail_ to head_, linked or not

queueVars == <<heap, next_, data, head_, tail_>>
producerVars == <<pc, node, prevhead, sent>>
consumerVars == <<cpc, tail, next, dying>>
vars == <<heap, next_, data, head_, tail_, pc, node, prevhead, sent,
          cpc, tail, next, dying, output, chain>>

-----------------------------------------------------------------------------
Address == Nodes \cup {Null}

\* The constructor allocates the first node, which holds no item.
Init ==
    /\ \E n \in Nodes : /\ heap = {n} /\ head_ = n /\ tail_ = n /\ chain = <<n>>
                        /\ tail = n /\ next = Null
    /\ next_ = [n \in Nodes |-> Null]
    /\ data = [n \in Nodes |-> Null]
    /\ pc = [p \in Producers |-> "idle"]
    /\ node = [p \in Producers |-> Null]
    /\ prevhead = [p \in Producers |-> Null]
    /\ sent = [p \in Producers |-> 0]
    /\ cpc = "idle" /\ dying = FALSE
    /\ output = <<>>

-----------------------------------------------------------------------------
(* Faulty variants of definitions below: plausible bugs, each of which some *)
(* property must detect.                                                    *)

\* head_ is read and then stored, not exchanged: two producers get the same
\* predecessor when the second one reads before the first one links.
ExchangeLostUpdate(p) ==
    /\ pc[p] = "exchange"
    /\ \E h \in {head_} \cup {prevhead[q] : q \in {q \in Producers : pc[q] = "link"}} :
            prevhead' = [prevhead EXCEPT ![p] = h]
    /\ head_' = node[p]
    /\ chain' = Append(chain, node[p])
    /\ pc' = [pc EXCEPT ![p] = "link"]
    /\ UNCHANGED <<heap, next_, data, tail_, node, sent, consumerVars, output>>

\* dequeue decides by head_ instead of next_ that there is a next node.
LoadNextByHead ==
    /\ cpc = "load" /\ tail # head_
    /\ next' = IF next_[tail] = Null THEN head_ ELSE next_[tail]
    /\ cpc' = "move"
    /\ UNCHANGED <<queueVars, producerVars, tail, dying, output, chain>>

\* dequeue deletes the node it advances to instead of the one it leaves.
DeleteNext ==
    /\ cpc = "delete"
    /\ heap' = heap \ {next}
    /\ cpc' = "idle"
    /\ UNCHANGED <<next_, data, head_, tail_, producerVars, tail, next, dying,
                   output, chain>>

\* dequeue does not delete the node it leaves.
DeleteForgotten ==
    /\ cpc = "delete"
    /\ cpc' = "idle"
    /\ UNCHANGED <<queueVars, producerVars, tail, next, dying, output, chain>>

\* dequeue gives up at random although the next node is linked.
LoadNextSpurious ==
    /\ cpc = "load"
    /\ next' = Null
    /\ cpc' = IF dying THEN "deleteHead" ELSE "idle"
    /\ UNCHANGED <<queueVars, producerVars, tail, dying, output, chain>>

\* dequeue takes the data of the node it leaves.
MoveDataOfTail ==
    /\ cpc = "move"
    /\ output' = Append(output, data[tail])
    /\ data' = [data EXCEPT ![tail] = Null]
    /\ chain' = Tail(chain)
    /\ cpc' = "advance"
    /\ UNCHANGED <<heap, next_, head_, tail_, producerVars, tail, next, dying>>

\* dequeue does not advance tail_.
StoreTailForgotten ==
    /\ cpc = "advance"
    /\ cpc' = "delete"
    /\ UNCHANGED <<queueVars, producerVars, tail, next, dying, output, chain>>

\* enqueue never stores next_.
LinkForgotten(p) ==
    /\ pc[p] = "link"
    /\ pc' = [pc EXCEPT ![p] = "idle"]
    /\ UNCHANGED <<queueVars, node, prevhead, sent, consumerVars, output, chain>>

-----------------------------------------------------------------------------
(* enqueue, both overloads.                                                *)

\* new buffer_node(input); out of memory, enqueue throws and changes nothing.
NewNode(p) ==
    /\ pc[p] = "idle" /\ ~dying /\ sent[p] < MaxItems
    /\ \E n \in Nodes \ heap :
        /\ heap' = heap \cup {n}
        /\ next_' = [next_ EXCEPT ![n] = Null]
        /\ data' = [data EXCEPT ![n] = <<p, sent[p] + 1>>]
        /\ node' = [node EXCEPT ![p] = n]
    /\ sent' = [sent EXCEPT ![p] = @ + 1]
    /\ pc' = [pc EXCEPT ![p] = "exchange"]
    /\ UNCHANGED <<head_, tail_, prevhead, consumerVars, output, chain>>

\* prevhead = head_.exchange(node)
Exchange(p) ==
    /\ pc[p] = "exchange"
    /\ prevhead' = [prevhead EXCEPT ![p] = head_]
    /\ head_' = node[p]
    /\ chain' = Append(chain, node[p])
    /\ pc' = [pc EXCEPT ![p] = "link"]
    /\ UNCHANGED <<heap, next_, data, tail_, node, sent, consumerVars, output>>

\* prevhead->next_.store(node)
Link(p) ==
    /\ pc[p] = "link"
    /\ next_' = [next_ EXCEPT ![prevhead[p]] = node[p]]
    /\ pc' = [pc EXCEPT ![p] = "idle"]
    /\ UNCHANGED <<heap, data, head_, tail_, node, prevhead, sent, consumerVars,
                   output, chain>>

-----------------------------------------------------------------------------
(* dequeue and empty, both of the consumer thread, and the destructor, which *)
(* calls dequeue until it returns false.                                     *)

\* dequeue begins: tail = tail_.load()
DequeueCall ==
    /\ cpc = "idle"
    /\ tail' = tail_
    /\ cpc' = "load"
    /\ UNCHANGED <<queueVars, producerVars, next, dying, output, chain>>

\* empty begins in the same way.
EmptyCall ==
    /\ cpc = "idle" /\ ~dying
    /\ tail' = tail_
    /\ cpc' = "empty"
    /\ UNCHANGED <<queueVars, producerVars, next, dying, output, chain>>

\* next = tail->next_.load() in dequeue, which returns false if it is null.
LoadNext ==
    /\ cpc = "load"
    /\ next' = next_[tail]
    /\ cpc' = IF next_[tail] # Null THEN "move" ELSE
              IF dying THEN "deleteHead" ELSE "idle"
    /\ UNCHANGED <<queueVars, producerVars, tail, dying, output, chain>>

\* empty returns whether tail->next_ is null.
EmptyReturn ==
    /\ cpc = "empty"
    /\ next' = next_[tail]
    /\ cpc' = "idle"
    /\ UNCHANGED <<queueVars, producerVars, tail, dying, output, chain>>

\* The item is moved out, and its memory deleted.
MoveData ==
    /\ cpc = "move"
    /\ output' = Append(output, data[next])
    /\ data' = [data EXCEPT ![next] = Null]
    /\ chain' = Tail(chain)
    /\ cpc' = "advance"
    /\ UNCHANGED <<heap, next_, head_, tail_, producerVars, tail, next, dying>>

\* tail_.store(next)
StoreTail ==
    /\ cpc = "advance"
    /\ tail_' = next
    /\ cpc' = "delete"
    /\ UNCHANGED <<heap, next_, data, head_, producerVars, tail, next, dying,
                   output, chain>>

\* delete tail; dequeue returns true.
DeleteTail ==
    /\ cpc = "delete"
    /\ heap' = heap \ {tail}
    /\ cpc' = "idle"
    /\ UNCHANGED <<next_, data, head_, tail_, producerVars, tail, next, dying,
                   output, chain>>

\* ~lock_free_queue: no call of another thread is in progress.
Destroy ==
    /\ ~dying /\ cpc = "idle" /\ \A p \in Producers : pc[p] = "idle"
    /\ dying' = TRUE
    /\ UNCHANGED <<queueVars, producerVars, cpc, tail, next, output, chain>>

\* delete front
DeleteHead ==
    /\ cpc = "deleteHead"
    /\ heap' = heap \ {head_}
    /\ cpc' = "gone"
    /\ UNCHANGED <<next_, data, head_, tail_, producerVars, tail, next, dying,
                   output, chain>>

-----------------------------------------------------------------------------
Enqueue(p) == NewNode(p) \/ Exchange(p) \/ Link(p)

Dequeue == DequeueCall \/ LoadNext \/ MoveData \/ StoreTail \/ DeleteTail

\* The queue is gone: nothing more may happen.
Gone == cpc = "gone" /\ UNCHANGED vars

Next ==
    \/ \E p \in Producers : Enqueue(p)
    \/ Dequeue \/ EmptyCall \/ EmptyReturn \/ Destroy \/ DeleteHead \/ Gone

Spec == Init /\ [][Next]_vars

\* A begun enqueue or dequeue goes on, and the consumer calls dequeue again and
\* again, however often it calls empty.
Fairness ==
    /\ \A p \in Producers : WF_vars(Exchange(p) \/ Link(p))
    /\ WF_vars(LoadNext \/ MoveData \/ StoreTail \/ DeleteTail \/ EmptyReturn)
    /\ WF_vars(DeleteHead)
    /\ SF_vars(DequeueCall)

FairSpec == Spec /\ Fairness

-----------------------------------------------------------------------------
(* Properties.                                                             *)

TypeOK ==
    /\ heap \subseteq Nodes
    /\ next_ \in [Nodes -> Address]
    /\ data \in [Nodes -> Item \cup {Null}]
    /\ head_ \in Nodes /\ tail_ \in Nodes
    /\ pc \in [Producers -> {"idle", "exchange", "link"}]
    /\ node \in [Producers -> Address]
    /\ prevhead \in [Producers -> Address]
    /\ sent \in [Producers -> 0..MaxItems]
    /\ cpc \in {"idle", "load", "empty", "move", "advance", "delete", "deleteHead", "gone"}
    /\ tail \in Nodes /\ next \in Address
    /\ dying \in BOOLEAN
    /\ output \in Seq(Item)
    /\ chain \in Seq(Nodes)

\* Nobody holds a pointer to a deleted node and is about to use it: the node a
\* producer links behind, the one it inserts, and the two nodes of dequeue.
NoUseAfterFree ==
    /\ \A p \in Producers :
        /\ pc[p] \in {"exchange", "link"} => node[p] \in heap
        /\ pc[p] = "link" => prevhead[p] \in heap
    /\ cpc \in {"load", "empty", "move", "advance", "delete"} => tail \in heap
    /\ cpc \in {"move", "advance"} => next \in heap
    /\ cpc = "deleteHead" => head_ \in heap
    /\ cpc # "gone" => head_ \in heap /\ tail_ \in heap

\* dequeue only takes data that is there, and deletes each once.
DataIsThere == cpc = "move" => data[next] # Null

\* Two producers in enqueue never link behind the same node: no item is
\* overwritten before it was seen.
NoLostLink ==
    \A p, q \in Producers :
        /\ pc[p] = "link" => next_[prevhead[p]] = Null
        /\ p # q /\ pc[p] = "link" /\ pc[q] = "link" => prevhead[p] # prevhead[q]

\* ~lock_free_queue deletes every node, and all items have been taken.
NothingLeaks ==
    cpc = "gone" => /\ heap = {}
                    /\ \A n \in Nodes : data[n] = Null

ReturnsFalse == cpc = "load" /\ cpc' \in {"idle", "deleteHead"}

\* dequeue returns false only while the oldest item is not completely enqueued,
\* or there is none.
FalseOnlyIfUnlinked ==
    [][ReturnsFalse => \/ Len(chain) = 1
                       \/ \E p \in Producers : pc[p] = "link" /\ prevhead[p] = chain[1]]_vars

\* "@return false if the queue is empty." (lock_free_queue.hpp:46): no item whose
\* enqueue has returned is in the queue when dequeue returns false.
FalseOnlyIfEmpty ==
    [][ReturnsFalse => \A i \in 2..Len(chain) :
            \E p \in Producers : pc[p] = "link" /\ node[p] = chain[i]]_vars

\* Every item whose node was linked in is returned by dequeue.
EveryItemArrives ==
    \A p \in Producers : \A k \in 1..MaxItems :
        (sent[p] = k /\ pc[p] = "link") ~>
            (\E i \in DOMAIN output : output[i] = <<p, k>>)

\* The abstract queue, read off the nodes behind the first one of the chain.
Abstract == INSTANCE MpscQueue WITH
    Item <- Item,
    queue <- [i \in 1..(Len(chain) - 1) |-> data[chain[i + 1]]],
    pending <- {data[node[p]] : p \in {p \in Producers : pc[p] = "link"}},
    taken <- output

\* Every step of the queue is a step of the abstract queue, or none.
Refines == Abstract!Spec
=============================================================================
