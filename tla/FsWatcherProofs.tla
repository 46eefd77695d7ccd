-------------------------- MODULE FsWatcherProofs --------------------------
(***************************************************************************)
(* Proofs about FsWatcher for every set of clients and addresses.          *)
(***************************************************************************)
EXTENDS FsWatcher, SequenceTheorems, TLAPS

-----------------------------------------------------------------------------
(* The inductive invariant.                                                *)

\* The state of an entry says whether its handle is open and whether a call of
\* it is outstanding.
EntryInv ==
    \A ov \in Ovs :
        /\ watch_infos_[ov].state_ = "listening" => watch_infos_[ov].directory_ = "open"
        /\ watch_infos_[ov].state_ = "pending_close" => watch_infos_[ov].directory_ = "closed"
        /\ watch_infos_[ov].state_ = "initialized" => ~Outstanding(ov)

\* Only the magic packet has no address.
PacketInv ==
    \A i \in DOMAIN iocp : iocp[i].kind = "magic" <=> iocp[i].ov = NullOv

\* Where the loop thread is, and the entry it works on.
LoopInv ==
    /\ loop = "got" => cur.ov \in Ovs /\ cur.kind \in {"data", "empty"}
    /\ loop \in {"change_cb", "error_cb", "error_erase"} =>
        cur.ov \in Ovs /\ watch_infos_[cur.ov].state_ = "initialized"
    /\ loop = "change_cb" => watch_infos_[cur.ov].directory_ = "open"
    /\ loop = "error_erase" => watch_infos_[cur.ov].alerted
    /\ stopped_ <=> loop \in {"drain", "alert", "done"}

NoMagicQueued == \A i \in DOMAIN iocp : iocp[i].kind # "magic"

\* The magic packet is posted only after every entry was stopped, and no client
\* is in a call by then.
ShutdownInv ==
    /\ dtor # "none" =>
        adding = {} /\ \A ov \in Ovs : watch_infos_[ov].directory_ = "closed"
    /\ dtor \in {"none", "post"} =>
        /\ loop \notin {"exit_ok", "drain"}
        /\ NoMagicQueued
    /\ dtor = "destroyed" => loop = "done"

SafetyInv ==
    /\ NoDangling /\ OneCallPerEntry /\ WaitsOnlyForCalls /\ WatchedOrAlerted
    /\ EntryInv /\ PacketInv /\ LoopInv /\ ShutdownInv

IInv == TypeOK /\ SafetyInv

-----------------------------------------------------------------------------
(* Queues of packets.                                                      *)

Holds(q, ov) == \E i \in DOMAIN q : q[i].ov = ov

Once(q, ov) == \A i, j \in DOMAIN q : q[i].ov = ov /\ q[j].ov = ov => i = j

\* A packet put at the end of the port's queue.
LEMMA QueuePut ==
    ASSUME NEW q \in Seq(Packet), NEW p \in Packet
    PROVE  /\ Append(q, p) \in Seq(Packet)
           /\ \A ov : Holds(Append(q, p), ov) <=> Holds(q, ov) \/ p.ov = ov
           /\ \A ov : Once(q, ov) /\ (p.ov = ov => ~Holds(q, ov))
                        => Once(Append(q, p), ov)
           /\ \A i \in DOMAIN Append(q, p) : \/ Append(q, p)[i] = p
                                            \/ \E j \in DOMAIN q : Append(q, p)[i] = q[j]
<1> DEFINE r == Append(q, p)
<1>1. /\ r \in Seq(Packet) /\ Len(r) = Len(q) + 1
      /\ \A i \in 1..Len(q) : r[i] = q[i]
      /\ r[Len(q) + 1] = p
  BY AppendProperties
<1>2. /\ DOMAIN q = 1..Len(q) /\ DOMAIN r = 1..(Len(q) + 1) /\ Len(q) \in Nat
  BY <1>1
<1> HIDE DEF r
<1>3. \A i \in DOMAIN r : r[i] = p \/ \E j \in DOMAIN q : r[i] = q[j]
  BY <1>1, <1>2
<1>4. \A ov : Holds(r, ov) <=> Holds(q, ov) \/ p.ov = ov
  BY <1>1, <1>2 DEF Holds
<1>5. \A ov : Once(q, ov) /\ (p.ov = ov => ~Holds(q, ov)) => Once(r, ov)
  BY <1>1, <1>2 DEF Holds, Once
<1> QED
  BY <1>1, <1>3, <1>4, <1>5 DEF r

\* The packet taken from the front of the port's queue.
LEMMA QueueTake ==
    ASSUME NEW q \in Seq(Packet), q # <<>>
    PROVE  /\ Tail(q) \in Seq(Packet) /\ Head(q) \in Packet
           /\ \E i \in DOMAIN q : Head(q) = q[i]
           /\ \A ov : Holds(q, ov) <=> Holds(Tail(q), ov) \/ Head(q).ov = ov
           /\ \A ov : Once(q, ov) => /\ Once(Tail(q), ov)
                                     /\ Head(q).ov = ov => ~Holds(Tail(q), ov)
           /\ \A i \in DOMAIN Tail(q) : \E j \in DOMAIN q : Tail(q)[i] = q[j]
<1> DEFINE t == Tail(q)
<1>1. /\ Head(q) \in Packet /\ t \in Seq(Packet) /\ Len(t) = Len(q) - 1
      /\ \A i \in 1..Len(t) : t[i] = q[i + 1]
  BY HeadTailProperties
<1>2. Head(q) = q[1] /\ Len(q) \in Nat /\ Len(q) > 0
  BY EmptySeq
<1>3. DOMAIN q = 1..Len(q) /\ DOMAIN t = 1..(Len(q) - 1)
  BY <1>1
<1> DEFINE h == Head(q)
<1> HIDE DEF t, h
<1>4. \A i \in DOMAIN t : t[i] = q[i + 1] /\ i + 1 \in DOMAIN q
  BY <1>1, <1>2, <1>3
<1>5. \A i \in DOMAIN q : i = 1 \/ (i - 1 \in DOMAIN t /\ q[i] = t[i - 1])
  BY <1>1, <1>2, <1>3
<1>6. h = q[1] /\ 1 \in DOMAIN q
  BY <1>2, <1>3 DEF h
<1>7. \A ov : Holds(q, ov) <=> Holds(t, ov) \/ h.ov = ov
  BY <1>4, <1>5, <1>6 DEF Holds
<1>8. \A ov : Once(q, ov) => Once(t, ov) /\ (h.ov = ov => ~Holds(t, ov))
  BY <1>3, <1>4, <1>6 DEF Holds, Once
<1> QED
  BY <1>1, <1>4, <1>6, <1>7, <1>8 DEF t, h

-----------------------------------------------------------------------------
(* The inductive invariant holds initially and is preserved by every step. *)

\* A new watcher: no entries, no packets, the loop waits.
LEMMA InitInv == Init => IInv
<1> SUFFICES ASSUME Init PROVE IInv
  OBVIOUS
<1>1. TypeOK
  <2>1. <<>> \in Seq(Packet)
    BY EmptySeq
  <2>2. NoWatch \in WatchInfo /\ MagicPacket \in Packet
    BY DEF NoWatch, WatchInfo, MagicPacket, Packet
  <2> QED
    BY <2>1, <2>2 DEF Init, TypeOK, LoopStates, DtorStates
<1>2. \A ov \in Ovs : ~Outstanding(ov)
  BY DEF Init, Outstanding, Queued, InHand
<1>3. NoDangling /\ OneCallPerEntry /\ WaitsOnlyForCalls /\ WatchedOrAlerted
  BY <1>2 DEF Init, NoDangling, OneCallPerEntry, WaitsOnlyForCalls, WatchedOrAlerted,
              Live, NoWatch, Outstanding, Queued, QueuedOnce, InHand
<1>4. EntryInv /\ PacketInv /\ LoopInv /\ ShutdownInv
  BY DEF Init, EntryInv, PacketInv, LoopInv, ShutdownInv, NoMagicQueued, NoWatch
<1> QED
  BY <1>1, <1>3, <1>4 DEF IInv, SafetyInv

\* Every step preserves the types, whatever else holds.
LEMMA TypeStep == TypeOK /\ [Next]_vars => TypeOK'
<1> SUFFICES ASSUME TypeOK, [Next]_vars PROVE TypeOK'
  OBVIOUS
<1> USE DEF TypeOK
<1>1. NoWatch \in WatchInfo /\ NewWatch \in WatchInfo /\ MagicPacket \in Packet
  BY DEF NoWatch, NewWatch, WatchInfo, MagicPacket, Packet
<1>2. \A w \in WatchInfo :
        /\ Stopped(w) \in WatchInfo /\ Alerted(w) \in WatchInfo
        /\ Listening(w) \in WatchInfo /\ Unlistened(w) \in WatchInfo
  BY DEF Stopped, Alerted, Listening, Unlistened, WatchInfo
<1>3. \A ov : Erase(ov) \in [Ovs -> WatchInfo]
  BY <1>1 DEF Erase
<1>4. iocp # <<>> => Tail(iocp) \in Seq(Packet) /\ Head(iocp) \in Packet
  BY QueueTake
<1>5. \A p \in Packet : Append(iocp, p) \in Seq(Packet)
  BY QueuePut
<1>6. ASSUME NEW c \in Clients, Client(c) PROVE TypeOK'
  BY <1>1, <1>2, <1>6 DEF Client, AddBegin, AddFail, AddListen, Remove
<1>7. CASE Dtor
  BY <1>1, <1>2, <1>5, <1>7 DEF Dtor, DtorStopAll, DtorPost, DtorDestroy, DtorStates
<1>8. CASE Kernel
  <2>1. PICK ov \in Ovs, kind \in Completions : Complete(ov, kind)
    BY <1>8 DEF Kernel
  <2>2. [ov |-> ov, kind |-> kind] \in Packet
    BY DEF Packet
  <2> QED
    BY <1>5, <2>1, <2>2 DEF Complete
<1>9. CASE Loop
  <2>1. CASE TakePacket
    BY <1>4, <2>1 DEF TakePacket, LoopStates
  <2>2. CASE ProcessEvent
    <3>1. CASE ProcessClosing
      BY <1>3, <3>1 DEF ProcessClosing, LoopStates
    <3>2. CASE ProcessOverflow
      BY <1>2, <3>2 DEF ProcessOverflow, LoopStates
    <3>3. CASE ProcessChanges
      BY <1>2, <3>3 DEF ProcessChanges, LoopStates
    <3>4. CASE Relisten
      <4>1. watch_infos_' \in [Ovs -> WatchInfo]
        BY <1>2, <3>4 DEF Relisten
      <4>2. io' \in [Ovs -> Nat]
        <5>1. \A ov \in Ovs : io'[ov] = IF ov = cur.ov THEN io[ov] + 1 ELSE io[ov]
          BY <3>4 DEF Relisten
        <5>2. DOMAIN io' = Ovs /\ io' = [ov \in Ovs |-> io'[ov]]
          BY <3>4 DEF Relisten
        <5> QED
          BY <5>1, <5>2
      <4> QED
        BY <3>4, <4>1, <4>2 DEF Relisten, LoopStates
    <3>5. CASE RelistenFails
      BY <1>2, <3>5 DEF RelistenFails, LoopStates
    <3>6. CASE ErrorReturns
      BY <1>3, <3>6 DEF ErrorReturns, LoopStates
    <3> QED
      BY <2>2, <3>1, <3>2, <3>3, <3>4, <3>5, <3>6 DEF ProcessEvent
  <2>3. CASE LoopLeft
    BY <2>3 DEF LoopLeft, LoopStates
  <2>4. CASE DrainPacket
    BY <1>3, <1>4, <2>4 DEF DrainPacket, LoopStates
  <2>5. CASE DrainDone
    BY <2>5 DEF DrainDone, LoopStates
  <2>6. CASE AlertAll
    BY <1>1, <1>2, <2>6 DEF AlertAll, LoopStates
  <2> QED
    BY <1>9, <2>1, <2>2, <2>3, <2>4, <2>5, <2>6 DEF Loop
<1>10. CASE PortFails
  BY <1>10 DEF PortFails, LoopStates
<1>11. CASE UNCHANGED vars
  BY <1>11 DEF vars
<1> QED
  BY <1>6, <1>7, <1>8, <1>9, <1>10, <1>11 DEF Next, Gone

\* A step that leaves the queue alone leaves everything said of it alone.
LEMMA QueueUnchanged ==
    iocp' = iocp => /\ \A ov : Queued(ov)' <=> Queued(ov)
                    /\ \A ov : QueuedOnce(ov)' <=> QueuedOnce(ov)
                    /\ PacketInv' <=> PacketInv
                    /\ NoMagicQueued' <=> NoMagicQueued
BY DEF Queued, QueuedOnce, PacketInv, NoMagicQueued

\* What the code's assignments to an entry do to its fields.
LEMMA EntryFields ==
    /\ NoWatch.state_ = "absent" /\ NoWatch.directory_ = "closed" /\ ~NoWatch.alerted
    /\ NewWatch.state_ = "listening" /\ NewWatch.directory_ = "open" /\ ~NewWatch.alerted
    /\ \A w \in WatchInfo :
        /\ Stopped(w).state_ = IF w.state_ = "listening" THEN "pending_close" ELSE w.state_
        /\ Stopped(w).directory_ = "closed" /\ Stopped(w).alerted = w.alerted
        /\ Unlistened(w).state_ = IF w.state_ = "listening" THEN "initialized" ELSE w.state_
        /\ Unlistened(w).directory_ = w.directory_ /\ Unlistened(w).alerted = w.alerted
        /\ Listening(w).state_ = "listening"
        /\ Listening(w).directory_ = w.directory_ /\ Listening(w).alerted = w.alerted
        /\ Alerted(w).state_ = w.state_ /\ Alerted(w).directory_ = w.directory_
        /\ Alerted(w).alerted
        /\ w.state_ \in {"absent", "initialized", "listening", "pending_close"}
        /\ Stopped(w) \in WatchInfo /\ Unlistened(w) \in WatchInfo
        /\ Listening(w) \in WatchInfo /\ Alerted(w) \in WatchInfo
BY DEF NoWatch, NewWatch, WatchInfo, Stopped, Unlistened, Listening, Alerted

-----------------------------------------------------------------------------
(* The steps that leave the queue of the port alone.                       *)

\* The first look of add_directory at stopped_ changes no entry.
LEMMA AddBeginStep ==
    ASSUME TypeOK, SafetyInv, NEW c \in Clients, AddBegin(c)
    PROVE  SafetyInv'
BY QueueUnchanged, EntryFields DEF AddBegin, TypeOK, SafetyInv, NoDangling, OneCallPerEntry, WaitsOnlyForCalls,
    WatchedOrAlerted, EntryInv, LoopInv, ShutdownInv, LoopHoldsLock, Live,
    Outstanding, InHand, LoopGaveUp, Erase

\* An add_directory that returns false leaves no entry behind.
LEMMA AddFailStep ==
    ASSUME TypeOK, SafetyInv, NEW c \in Clients, AddFail(c)
    PROVE  SafetyInv'
BY QueueUnchanged, EntryFields DEF AddFail, TypeOK, SafetyInv, NoDangling, OneCallPerEntry, WaitsOnlyForCalls,
    WatchedOrAlerted, EntryInv, LoopInv, ShutdownInv, LoopHoldsLock, Live,
    Outstanding, InHand, LoopGaveUp, Erase

\* A new entry takes an address no packet names, and is alerted or listened to.
LEMMA AddListenStep ==
    ASSUME TypeOK, SafetyInv, NEW c \in Clients, NEW ov \in Ovs, AddListen(c, ov)
    PROVE  SafetyInv'
BY QueueUnchanged, EntryFields DEF AddListen, TypeOK, SafetyInv, NoDangling, OneCallPerEntry, WaitsOnlyForCalls,
    WatchedOrAlerted, EntryInv, LoopInv, ShutdownInv, LoopHoldsLock, Live,
    Outstanding, InHand, LoopGaveUp, Erase

\* Stopping an entry moves it to pending_close exactly if its call is outstanding.
LEMMA RemoveStep ==
    ASSUME TypeOK, SafetyInv, NEW c \in Clients, NEW ov \in Ovs, Remove(c, ov)
    PROVE  SafetyInv'
BY QueueUnchanged, EntryFields DEF Remove, TypeOK, SafetyInv, NoDangling, OneCallPerEntry, WaitsOnlyForCalls,
    WatchedOrAlerted, EntryInv, LoopInv, ShutdownInv, LoopHoldsLock, Live,
    Outstanding, InHand, LoopGaveUp, Erase

\* The destructor stops all entries; nobody can add one after.
LEMMA DtorStopAllStep ==
    ASSUME TypeOK, SafetyInv, DtorStopAll
    PROVE  SafetyInv'
BY QueueUnchanged, EntryFields DEF DtorStopAll, TypeOK, SafetyInv, NoDangling, OneCallPerEntry, WaitsOnlyForCalls,
    WatchedOrAlerted, EntryInv, LoopInv, ShutdownInv, LoopHoldsLock, Live,
    Outstanding, InHand, LoopGaveUp, Erase

\* Destroying the entries needs the loop to be done.
LEMMA DtorDestroyStep ==
    ASSUME TypeOK, SafetyInv, DtorDestroy
    PROVE  SafetyInv'
BY QueueUnchanged, EntryFields DEF DtorDestroy, TypeOK, SafetyInv, NoDangling, OneCallPerEntry, WaitsOnlyForCalls,
    WatchedOrAlerted, EntryInv, LoopInv, ShutdownInv, LoopHoldsLock, Live,
    Outstanding, InHand, LoopGaveUp, Erase

\* A failure of the port leaves the entries alone.
LEMMA PortFailsStep ==
    ASSUME TypeOK, SafetyInv, PortFails
    PROVE  SafetyInv'
BY QueueUnchanged, EntryFields DEF PortFails, TypeOK, SafetyInv, NoDangling, OneCallPerEntry, WaitsOnlyForCalls,
    WatchedOrAlerted, EntryInv, LoopInv, ShutdownInv, LoopHoldsLock, Live,
    Outstanding, InHand, LoopGaveUp, Erase

\* The closing packet is the only call of the entry it erases.
LEMMA ProcessClosingStep ==
    ASSUME TypeOK, SafetyInv, ProcessClosing
    PROVE  SafetyInv'
BY QueueUnchanged, EntryFields DEF ProcessClosing, TypeOK, SafetyInv, NoDangling, OneCallPerEntry, WaitsOnlyForCalls,
    WatchedOrAlerted, EntryInv, LoopInv, ShutdownInv, LoopHoldsLock, Live,
    Outstanding, InHand, LoopGaveUp, Erase

\* An entry that overflowed has no call any more, and its subscriber was told.
LEMMA ProcessOverflowStep ==
    ASSUME TypeOK, SafetyInv, ProcessOverflow
    PROVE  SafetyInv'
BY QueueUnchanged, EntryFields DEF ProcessOverflow, TypeOK, SafetyInv, NoDangling, OneCallPerEntry, WaitsOnlyForCalls,
    WatchedOrAlerted, EntryInv, LoopInv, ShutdownInv, LoopHoldsLock, Live,
    Outstanding, InHand, LoopGaveUp, Erase

\* The entry whose change_event_ runs is in the map and open.
LEMMA ProcessChangesStep ==
    ASSUME TypeOK, SafetyInv, ProcessChanges
    PROVE  SafetyInv'
BY QueueUnchanged, EntryFields DEF ProcessChanges, TypeOK, SafetyInv, NoDangling, OneCallPerEntry, WaitsOnlyForCalls,
    WatchedOrAlerted, EntryInv, LoopInv, ShutdownInv, LoopHoldsLock, Live,
    Outstanding, InHand, LoopGaveUp, Erase

\* listen() after change_event_ issues the only call of the entry.
LEMMA RelistenStep ==
    ASSUME TypeOK, SafetyInv, Relisten
    PROVE  SafetyInv'
BY QueueUnchanged, EntryFields DEF Relisten, TypeOK, SafetyInv, NoDangling, OneCallPerEntry, WaitsOnlyForCalls,
    WatchedOrAlerted, EntryInv, LoopInv, ShutdownInv, LoopHoldsLock, Live,
    Outstanding, InHand, LoopGaveUp, Erase

\* An entry that cannot listen again is alerted before it is erased.
LEMMA RelistenFailsStep ==
    ASSUME TypeOK, SafetyInv, RelistenFails
    PROVE  SafetyInv'
BY QueueUnchanged, EntryFields DEF RelistenFails, TypeOK, SafetyInv, NoDangling, OneCallPerEntry, WaitsOnlyForCalls,
    WatchedOrAlerted, EntryInv, LoopInv, ShutdownInv, LoopHoldsLock, Live,
    Outstanding, InHand, LoopGaveUp, Erase

\* An entry erased after error_event_ has no call.
LEMMA ErrorReturnsStep ==
    ASSUME TypeOK, SafetyInv, ErrorReturns
    PROVE  SafetyInv'
BY QueueUnchanged, EntryFields DEF ErrorReturns, TypeOK, SafetyInv, NoDangling, OneCallPerEntry, WaitsOnlyForCalls,
    WatchedOrAlerted, EntryInv, LoopInv, ShutdownInv, LoopHoldsLock, Live,
    Outstanding, InHand, LoopGaveUp, Erase

\* stopped_ is set before the drain, and before the alert.
LEMMA LoopLeftStep ==
    ASSUME TypeOK, SafetyInv, LoopLeft
    PROVE  SafetyInv'
BY QueueUnchanged, EntryFields DEF LoopLeft, TypeOK, SafetyInv, NoDangling, OneCallPerEntry, WaitsOnlyForCalls,
    WatchedOrAlerted, EntryInv, LoopInv, ShutdownInv, LoopHoldsLock, Live,
    Outstanding, InHand, LoopGaveUp, Erase

\* The drain ends when no entry waits for its packet.
LEMMA DrainDoneStep ==
    ASSUME TypeOK, SafetyInv, DrainDone
    PROVE  SafetyInv'
BY QueueUnchanged, EntryFields DEF DrainDone, TypeOK, SafetyInv, NoDangling, OneCallPerEntry, WaitsOnlyForCalls,
    WatchedOrAlerted, EntryInv, LoopInv, ShutdownInv, LoopHoldsLock, Live,
    Outstanding, InHand, LoopGaveUp, Erase

\* After a failure every entry is alerted, and no entry can be added.
LEMMA AlertAllStep ==
    ASSUME TypeOK, SafetyInv, AlertAll
    PROVE  SafetyInv'
BY QueueUnchanged, EntryFields DEF AlertAll, TypeOK, SafetyInv, NoDangling, OneCallPerEntry, WaitsOnlyForCalls,
    WatchedOrAlerted, EntryInv, LoopInv, ShutdownInv, LoopHoldsLock, Live,
    Outstanding, InHand, LoopGaveUp, Erase

-----------------------------------------------------------------------------
(* The steps that put a packet into the queue or take one from it.         *)

\* What the model says of the port's queue, as facts about a sequence.
LEMMA QueueViews ==
    /\ \A ov : (Queued(ov) <=> Holds(iocp, ov)) /\ (Queued(ov)' <=> Holds(iocp', ov))
    /\ \A ov : (QueuedOnce(ov) <=> Once(iocp, ov)) /\ (QueuedOnce(ov)' <=> Once(iocp', ov))
BY DEF Queued, QueuedOnce, Holds, Once

\* The magic packet is posted once, after all entries were stopped.
LEMMA DtorPostStep ==
    ASSUME TypeOK, SafetyInv, DtorPost
    PROVE  SafetyInv'
<1>1. MagicPacket \in Packet /\ MagicPacket.ov = NullOv /\ MagicPacket.kind = "magic"
  BY DEF MagicPacket, Packet
<1>2. /\ \A ov \in Ovs : Queued(ov)' <=> Queued(ov)
      /\ \A ov \in Ovs : QueuedOnce(ov) => QueuedOnce(ov)'
  BY <1>1, QueuePut, QueueViews, NullOvAssumption DEF TypeOK, DtorPost
<1>3. PacketInv'
  BY <1>1, QueuePut DEF TypeOK, SafetyInv, PacketInv, DtorPost
<1> QED
  BY <1>2, <1>3 DEF DtorPost, TypeOK, SafetyInv, NoDangling, OneCallPerEntry, WaitsOnlyForCalls,
    WatchedOrAlerted, EntryInv, LoopInv, ShutdownInv, LoopHoldsLock, Live,
    Outstanding, InHand, LoopGaveUp, Erase

\* A completed call turns into the one packet of its entry.
LEMMA CompleteStep ==
    ASSUME TypeOK, SafetyInv, NEW ov \in Ovs, NEW kind \in Completions, Complete(ov, kind)
    PROVE  SafetyInv'
<1> DEFINE p == [ov |-> ov, kind |-> kind]
<1>1. p \in Packet /\ p.ov = ov /\ p.kind # "magic" /\ ov # NullOv
  BY NullOvAssumption DEF Packet, Completions
<1>2. iocp' = Append(iocp, p) /\ ~Queued(ov) /\ ~InHand(ov) /\ io[ov] = 1
  BY DEF Complete, TypeOK, SafetyInv, OneCallPerEntry
<1> HIDE DEF p
<1>3. /\ \A o \in Ovs : Queued(o)' <=> Queued(o) \/ o = ov
      /\ \A o \in Ovs : QueuedOnce(o) => QueuedOnce(o)'
  BY <1>1, <1>2, QueuePut, QueueViews DEF TypeOK
<1>4. PacketInv' /\ (NoMagicQueued => NoMagicQueued')
  BY <1>1, <1>2, QueuePut DEF TypeOK, SafetyInv, PacketInv, NoMagicQueued
<1> QED
  BY <1>2, <1>3, <1>4 DEF Complete, TypeOK, SafetyInv, NoDangling, OneCallPerEntry, WaitsOnlyForCalls,
    WatchedOrAlerted, EntryInv, LoopInv, ShutdownInv, LoopHoldsLock, Live,
    Outstanding, InHand, LoopGaveUp, Erase

\* The packet in the loop's hands was the only call of its entry, and the magic
\* packet is taken only after all entries were stopped.
LEMMA TakePacketStep ==
    ASSUME TypeOK, SafetyInv, TakePacket
    PROVE  SafetyInv'
<1> DEFINE h == Head(iocp)
<1>1. /\ h \in Packet /\ \E i \in DOMAIN iocp : h = iocp[i]
      /\ \A o \in Ovs : Queued(o) <=> Queued(o)' \/ h.ov = o
      /\ \A o \in Ovs : QueuedOnce(o) => QueuedOnce(o)' /\ (h.ov = o => ~Queued(o)')
      /\ PacketInv' /\ (NoMagicQueued => NoMagicQueued')
  BY QueueTake, QueueViews DEF TakePacket, TypeOK, SafetyInv, PacketInv, NoMagicQueued
<1>2. /\ h.kind = "magic" <=> h.ov = NullOv
      /\ h.kind = "magic" => dtor \notin {"none", "post"}
      /\ h.ov \in Ovs \cup {NullOv} /\ h.kind \in {"data", "empty", "failed", "magic"}
  BY <1>1 DEF SafetyInv, PacketInv, ShutdownInv, NoMagicQueued, Packet, Completions
<1>3. /\ cur' = h /\ loop = "wait"
      /\ loop' \in {"exit_ok", "exit_failed", "got"}
      /\ loop' = "exit_ok" <=> h.kind = "magic"
      /\ loop' = "exit_failed" <=> h.kind = "failed"
      /\ UNCHANGED <<watch_infos_, io, stopped_, adding, dtor, iocpBroken>>
  BY DEF TakePacket
<1> HIDE DEF h
<1>4. \A o \in Ovs : InHand(o)' <=> loop' = "got" /\ h.ov = o
  BY <1>3 DEF InHand
<1>5. (NoDangling /\ OneCallPerEntry /\ WaitsOnlyForCalls)'
  BY <1>1, <1>2, <1>3, <1>4, NullOvAssumption DEF TypeOK, SafetyInv, NoDangling, OneCallPerEntry,
     WaitsOnlyForCalls, Live, Outstanding, InHand, LoopGaveUp
<1>6. (WatchedOrAlerted /\ EntryInv /\ LoopInv /\ ShutdownInv)'
  BY <1>1, <1>2, <1>3, <1>4 DEF TypeOK, SafetyInv, WatchedOrAlerted, EntryInv, LoopInv,
     ShutdownInv, Live, Outstanding, InHand
<1> QED
  BY <1>1, <1>5, <1>6 DEF SafetyInv

\* The drain erases an entry together with its only packet.
LEMMA DrainPacketStep ==
    ASSUME TypeOK, SafetyInv, DrainPacket
    PROVE  SafetyInv'
<1> DEFINE h == Head(iocp)
<1>1. /\ \A o \in Ovs : Queued(o) <=> Queued(o)' \/ h.ov = o
      /\ \A o \in Ovs : QueuedOnce(o) => QueuedOnce(o)' /\ (h.ov = o => ~Queued(o)')
      /\ PacketInv' /\ (NoMagicQueued => NoMagicQueued')
  BY QueueTake, QueueViews DEF DrainPacket, TypeOK, SafetyInv, PacketInv, NoMagicQueued
<1> HIDE DEF h
<1>2. CASE loop' = "done" /\ watch_infos_' = watch_infos_
  BY <1>1, <1>2 DEF DrainPacket, TypeOK, SafetyInv, NoDangling, OneCallPerEntry, WaitsOnlyForCalls,
    WatchedOrAlerted, EntryInv, LoopInv, ShutdownInv, LoopHoldsLock, Live,
    Outstanding, InHand, LoopGaveUp, Erase
<1>3. CASE h.ov \in Ovs /\ watch_infos_' = Erase(h.ov) /\ loop' = loop
  BY <1>1, <1>3, EntryFields DEF DrainPacket, TypeOK, SafetyInv, NoDangling, OneCallPerEntry, WaitsOnlyForCalls,
    WatchedOrAlerted, EntryInv, LoopInv, ShutdownInv, LoopHoldsLock, Live,
    Outstanding, InHand, LoopGaveUp, Erase
<1> QED
  BY <1>2, <1>3 DEF DrainPacket, h

-----------------------------------------------------------------------------
(* The theorems.                                                           *)

\* Every step of the watcher preserves the inductive invariant.
LEMMA NextInv == IInv /\ [Next]_vars => IInv'
<1> SUFFICES ASSUME TypeOK, SafetyInv, [Next]_vars PROVE SafetyInv'
  BY TypeStep DEF IInv
<1>1. ASSUME NEW c \in Clients, Client(c) PROVE SafetyInv'
  BY <1>1, AddBeginStep, AddFailStep, AddListenStep, RemoveStep DEF Client
<1>2. CASE Dtor
  BY <1>2, DtorStopAllStep, DtorPostStep, DtorDestroyStep DEF Dtor
<1>3. CASE Kernel
  BY <1>3, CompleteStep DEF Kernel
<1>4. CASE Loop
  BY <1>4, TakePacketStep, ProcessClosingStep, ProcessOverflowStep, ProcessChangesStep,
     RelistenStep, RelistenFailsStep, ErrorReturnsStep, LoopLeftStep, DrainPacketStep,
     DrainDoneStep, AlertAllStep DEF Loop, ProcessEvent
<1>5. CASE PortFails
  BY <1>5, PortFailsStep
<1>6. CASE UNCHANGED vars
  BY <1>6, QueueUnchanged DEF vars, TypeOK, SafetyInv, NoDangling, OneCallPerEntry, WaitsOnlyForCalls,
    WatchedOrAlerted, EntryInv, LoopInv, ShutdownInv, LoopHoldsLock, Live,
    Outstanding, InHand, LoopGaveUp, Erase
<1> QED
  BY <1>1, <1>2, <1>3, <1>4, <1>5, <1>6 DEF Next, Gone

\* The inductive invariant holds in every behaviour of the watcher.
LEMMA Invariance == Spec => []IInv
<1> QED
  BY InitInv, NextInv, PTL DEF Spec

\* The variables of the watcher always have their types.
THEOREM TypeCorrect == Spec => []TypeOK
<1>1. IInv => TypeOK
  BY DEF IInv
<1> QED
  BY <1>1, Invariance, PTL

\* Whatever clients, kernel and loop thread do, a packet never names an entry
\* that was freed: no OVERLAPPED or buffer is written to after its entry is gone.
THEOREM MemorySafe == Spec => []NoDangling
<1>1. IInv => NoDangling
  BY DEF IInv, SafetyInv
<1> QED
  BY <1>1, Invariance, PTL

\* No OVERLAPPED ever has two calls at once.
THEOREM OneCall == Spec => []OneCallPerEntry
<1>1. IInv => OneCallPerEntry
  BY DEF IInv, SafetyInv
<1> QED
  BY <1>1, Invariance, PTL

\* An entry that listens, or waits to be closed, has a call that will answer:
\* the drain of the destructor waits for nothing that cannot come.
THEOREM DrainIsSound == Spec => []WaitsOnlyForCalls
<1>1. IInv => WaitsOnlyForCalls
  BY DEF IInv, SafetyInv
<1> QED
  BY <1>1, Invariance, PTL

\* An added directory is watched until it is removed or its subscriber is told:
\* the two looks at stopped_ leave no gap.
THEOREM NoSilentLoss == Spec => []WatchedOrAlerted
<1>1. IInv => WatchedOrAlerted
  BY DEF IInv, SafetyInv
<1> QED
  BY <1>1, Invariance, PTL

\* change_event_ is never called for a removed entry.
THEOREM RemoveIsFinal == Spec => []NoEventAfterRemove
<1>1. IInv => NoEventAfterRemove
  BY DEF IInv, SafetyInv, LoopInv, NoEventAfterRemove, Live
<1> QED
  BY <1>1, Invariance, PTL

\* While the watcher exists, an entry disappears only after it was stopped or its
\* subscriber was told: the error path of process_event, the closing packet and
\* the drain are the only places that erase.
THEOREM NoSilentErase == Spec => ErasedOnlyIfStoppedOrAlerted
<1> DEFINE Kept == \A ov \in Ovs :
        Live(ov) /\ ~Live(ov)' => \/ watch_infos_[ov].directory_ = "closed"
                                  \/ watch_infos_[ov].alerted
<1>1. ASSUME IInv, [Next]_vars PROVE [Kept]_vars
  <2> SUFFICES ASSUME NEW ov \in Ovs, Live(ov), ~Live(ov)', watch_infos_[ov].directory_ = "open"
               PROVE  watch_infos_[ov].alerted
    BY <1>1 DEF IInv, TypeOK, WatchInfo
  <2> USE <1>1 DEF IInv, TypeOK, SafetyInv, Live, Erase
  <2>1. ASSUME NEW c \in Clients, Client(c) PROVE FALSE
    BY <2>1, EntryFields DEF Client, AddBegin, AddFail, AddListen, Remove
  <2>2. CASE Dtor
    BY <2>2, EntryFields DEF Dtor, DtorStopAll, DtorPost, DtorDestroy, ShutdownInv
  <2>3. CASE Kernel
    BY <2>3 DEF Kernel, Complete
  <2>4. CASE ProcessEvent
    BY <2>4, EntryFields DEF ProcessEvent, ProcessClosing, ProcessOverflow, ProcessChanges,
       Relisten, RelistenFails, ErrorReturns, LoopInv, EntryInv
  <2>5. CASE DrainPacket
    BY <2>5, EntryFields DEF DrainPacket, ShutdownInv
  <2>6. CASE TakePacket \/ LoopLeft \/ DrainDone \/ PortFails \/ UNCHANGED vars
    BY <2>6 DEF TakePacket, LoopLeft, DrainDone, PortFails, vars
  <2>7. CASE AlertAll
    BY <2>7, EntryFields DEF AlertAll
  <2> QED
    BY <2>1, <2>2, <2>3, <2>4, <2>5, <2>6, <2>7 DEF Next, Loop, Gone
<1> QED
  BY <1>1, Invariance, PTL DEF Spec, ErasedOnlyIfStoppedOrAlerted
=============================================================================
