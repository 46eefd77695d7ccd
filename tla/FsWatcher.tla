------------------------------ MODULE FsWatcher ------------------------------
(***************************************************************************)
(* The directory watcher of rdc_fs_watcher.h/.cpp.  Three kinds of actor   *)
(* share the map watch_infos_:                                             *)
(*                                                                         *)
(*   - client threads call add_directory and remove_directory, and one of  *)
(*     them finally runs the destructor;                                   *)
(*   - loop_thread_ runs event_loop: it takes completion packets from the  *)
(*     I/O completion port and handles them under watch_info_mutex_;       *)
(*   - the kernel completes ReadDirectoryChangesW calls (RDC in the code's *)
(*     comments) and queues one packet for each.                           *)
(*                                                                         *)
(* A packet names its entry only by the address of the OVERLAPPED, and the *)
(* allocator may reuse an address: what the code relies on is that an entry*)
(* outlives the call issued on its OVERLAPPED.                             *)
(*                                                                         *)
(* A critical section of watch_info_mutex_ is one action, except those in  *)
(* which the loop thread runs a callback or waits for the port: there the  *)
(* lock is held over several steps (LoopHoldsLock).                        *)
(***************************************************************************)
EXTENDS Naturals, Sequences

CONSTANTS
    Clients,  \* client threads
    Ovs,      \* addresses an OVERLAPPED can have: the bound on the entries
    NullOv    \* the null OVERLAPPED* of the stop "magic packet"

ASSUME NullOvAssumption == NullOv \notin Ovs

VARIABLES
    watch_infos_,  \* address -> the watch_info stored under it, or NoWatch
    io,            \* address -> number of RDC calls outstanding on it
    iocp,          \* the completion port: packets in the order they were queued
    stopped_,      \* the atomic flag add_directory reads
    loop,          \* where loop_thread_ is
    cur,           \* the packet loop_thread_ handles
    adding,        \* clients in add_directory, past its first look at stopped_
    dtor,          \* where ~rdc_fs_watcher is
    iocpBroken     \* history: GetQueuedCompletionStatus itself failed

vars == <<watch_infos_, io, iocp, stopped_, loop, cur, adding, dtor, iocpBroken>>

-----------------------------------------------------------------------------
\* "data" has bytes; "empty" has none (a closed handle, or a buffer overflow);
\* "failed" is the packet of a call that failed, for which
\* GetQueuedCompletionStatus returns FALSE with a non-null OVERLAPPED*.
Completions == {"data", "empty", "failed"}

Packet == [ov : Ovs \cup {NullOv}, kind : Completions \cup {"magic"}]

MagicPacket == [ov |-> NullOv, kind |-> "magic"]

\* alerted is a history field: error_event_ was called for this entry.  rId_ is
\* left out: it only selects the entry remove_directory stops (see Remove).
WatchInfo == [state_ : {"absent", "initialized", "listening", "pending_close"},
              directory_ : {"open", "closed"},
              alerted : BOOLEAN]

NoWatch == [state_ |-> "absent", directory_ |-> "closed", alerted |-> FALSE]

NewWatch == [state_ |-> "listening", directory_ |-> "open", alerted |-> FALSE]

LoopStates == {"wait", "got", "change_cb", "error_cb", "error_erase",
               "exit_ok", "exit_failed", "drain", "alert", "done"}

DtorStates == {"none", "post", "join", "destroyed"}

Live(ov) == watch_infos_[ov].state_ # "absent"

LoopHoldsLock == loop \in {"change_cb", "error_cb", "error_erase", "drain"}

Erase(ov) == [watch_infos_ EXCEPT ![ov] = NoWatch]

\* listen() issued a call.
Listening(w) == [w EXCEPT !.state_ = "listening"]

\* error_event_ is called for the entry.
Alerted(w) == [w EXCEPT !.alerted = TRUE]

\* process_event puts a listening entry back to initialized before anything else.
Unlistened(w) == [w EXCEPT !.state_ = IF @ = "listening" THEN "initialized" ELSE @]

-----------------------------------------------------------------------------
(* Faulty variants of definitions below: plausible bugs, each of which some *)
(* property must detect.                                                    *)

\* stop() frees the entry at once instead of waiting for its packet.
StoppedFrees(w) == NoWatch

\* stop() gives the entry a state of its own, which no other code knows.
StoppedNewState(w) == [w EXCEPT !.state_ = "closed", !.directory_ = "closed"]

\* stop() does not look at the state: also an entry without a call waits.
StoppedAlwaysWaits(w) ==
    [w EXCEPT !.state_ = "pending_close", !.directory_ = "closed"]

\* add_directory does not look at stopped_ again under the lock.
AddListenUnchecked(c, ov) ==
    /\ c \in adding /\ ~LoopHoldsLock /\ ~Live(ov)
    /\ watch_infos_' = [watch_infos_ EXCEPT ![ov] = NewWatch]
    /\ io' = [io EXCEPT ![ov] = @ + 1]
    /\ adding' = adding \ {c}
    /\ UNCHANGED <<iocp, stopped_, loop, cur, dtor, iocpBroken>>

\* remove_directory erases the entry it stops, instead of leaving that to the
\* closing packet: the allocator may give its address to the next entry.
RemoveErases(c, ov) ==
    /\ dtor = "none" /\ c \notin adding /\ ~LoopHoldsLock
    /\ Live(ov)
    /\ watch_infos_' = Erase(ov)
    /\ UNCHANGED <<io, iocp, stopped_, loop, cur, adding, dtor, iocpBroken>>

\* process_event takes a packet with bytes of a stopped entry for a change, as
\* it would without is_run().
ProcessChangesIfStopped ==
    /\ loop = "got" /\ cur.kind = "data" /\ Live(cur.ov)
    /\ watch_infos_' = [watch_infos_ EXCEPT ![cur.ov] = Unlistened(@)]
    /\ loop' = "change_cb"
    /\ UNCHANGED <<io, iocp, stopped_, cur, adding, dtor, iocpBroken>>

\* process_event erases a stopped entry only for a packet without bytes.
ProcessClosingIfEmpty ==
    /\ loop = "got" /\ watch_infos_[cur.ov].state_ \in {"absent", "pending_close"}
    /\ watch_infos_' = IF cur.kind = "empty" THEN Erase(cur.ov) ELSE watch_infos_
    /\ loop' = "wait"
    /\ UNCHANGED <<io, iocp, stopped_, cur, adding, dtor, iocpBroken>>

\* process_event erases the entry that cannot listen without telling anybody.
RelistenFailsSilently ==
    /\ loop = "change_cb"
    /\ loop' = "error_erase"
    /\ UNCHANGED <<watch_infos_, io, iocp, stopped_, cur, adding, dtor, iocpBroken>>

-----------------------------------------------------------------------------
\* watch_info::stop: the handle is closed in every state.
Stopped(w) ==
    [w EXCEPT !.state_ = IF @ = "listening" THEN "pending_close" ELSE @,
              !.directory_ = "closed"]

Init ==
    /\ watch_infos_ = [ov \in Ovs |-> NoWatch]
    /\ io = [ov \in Ovs |-> 0]
    /\ iocp = <<>>
    /\ stopped_ = FALSE
    /\ loop = "wait"
    /\ cur = MagicPacket
    /\ adding = {}
    /\ dtor = "none"
    /\ iocpBroken = FALSE

-----------------------------------------------------------------------------
(* Clients.                                                                *)

\* add_directory up to the lock: the first, unlocked look at stopped_.
AddBegin(c) ==
    /\ dtor = "none" /\ c \notin adding
    /\ ~stopped_
    /\ adding' = adding \cup {c}
    /\ UNCHANGED <<watch_infos_, io, iocp, stopped_, loop, cur, dtor, iocpBroken>>

\* The critical section of an add_directory that returns true: stopped_ is read
\* again under the lock, and listen() issues the first RDC call.
AddListen(c, ov) ==
    /\ c \in adding /\ ~LoopHoldsLock
    /\ ~Live(ov)
    /\ ~stopped_
    /\ watch_infos_' = [watch_infos_ EXCEPT ![ov] = NewWatch]
    /\ io' = [io EXCEPT ![ov] = @ + 1]
    /\ adding' = adding \ {c}
    /\ UNCHANGED <<iocp, stopped_, loop, cur, dtor, iocpBroken>>

\* Every way add_directory returns false: the directory cannot be opened, is a
\* file, or cannot be associated with the port; or, under the lock, stopped_ is
\* set or listen() fails, and the new entry is erased again.
AddFail(c) ==
    /\ c \in adding
    /\ adding' = adding \ {c}
    /\ UNCHANGED <<watch_infos_, io, iocp, stopped_, loop, cur, dtor, iocpBroken>>

\* remove_directory stops the first entry find_if meets that has the id.  Ids are
\* the clients' choice, and neither they nor the order of the unordered_map are
\* constrained: it may be any entry, one that was stopped before included.
Remove(c, ov) ==
    /\ dtor = "none" /\ c \notin adding /\ ~LoopHoldsLock
    /\ Live(ov)
    /\ watch_infos_' = [watch_infos_ EXCEPT ![ov] = Stopped(@)]
    /\ UNCHANGED <<io, iocp, stopped_, loop, cur, adding, dtor, iocpBroken>>

\* ~rdc_fs_watcher: no other call is in progress.  stop_event_loop stops all
\* entries under the lock and posts the magic packet after releasing it.
DtorStopAll ==
    /\ dtor = "none" /\ adding = {}
    /\ ~LoopHoldsLock
    /\ watch_infos_' = [ov \in Ovs |-> IF Live(ov) THEN Stopped(watch_infos_[ov])
                                                   ELSE NoWatch]
    /\ dtor' = "post"
    /\ UNCHANGED <<io, iocp, stopped_, loop, cur, adding, iocpBroken>>

\* The result of PostQueuedCompletionStatus is not looked at: it is taken to succeed.
DtorPost ==
    /\ dtor = "post"
    /\ iocp' = Append(iocp, MagicPacket)
    /\ dtor' = "join"
    /\ UNCHANGED <<watch_infos_, io, stopped_, loop, cur, adding, iocpBroken>>

\* join returns, and the members are destroyed, the entries with them.
DtorDestroy ==
    /\ dtor = "join" /\ loop = "done"
    /\ watch_infos_' = [ov \in Ovs |-> NoWatch]
    /\ dtor' = "destroyed"
    /\ UNCHANGED <<io, iocp, stopped_, loop, cur, adding, iocpBroken>>

-----------------------------------------------------------------------------
(* The kernel.                                                             *)

\* An outstanding call completes: with changes, with an overflowing buffer, or
\* with an error; on a closed handle usually with the empty closing packet.
Complete(ov, kind) ==
    /\ io[ov] > 0 /\ dtor # "destroyed"
    /\ io' = [io EXCEPT ![ov] = @ - 1]
    /\ iocp' = Append(iocp, [ov |-> ov, kind |-> kind])
    /\ UNCHANGED <<watch_infos_, stopped_, loop, cur, adding, dtor, iocpBroken>>

-----------------------------------------------------------------------------
(* loop_thread_.                                                           *)

\* The while condition of event_loop takes a packet.
TakePacket ==
    /\ loop = "wait" /\ iocp # <<>>
    /\ cur' = Head(iocp)
    /\ iocp' = Tail(iocp)
    /\ loop' = CASE Head(iocp).kind = "magic"  -> "exit_ok"
                 [] Head(iocp).kind = "failed" -> "exit_failed"
                 [] OTHER                      -> "got"
    /\ UNCHANGED <<watch_infos_, io, stopped_, adding, dtor, iocpBroken>>

\* The port itself fails: FALSE and a null OVERLAPPED*.
PortFails ==
    /\ loop \in {"wait", "drain"}
    /\ loop' = IF loop = "wait" THEN "exit_failed" ELSE "done"
    /\ iocpBroken' = TRUE
    /\ UNCHANGED <<watch_infos_, io, iocp, stopped_, cur, adding, dtor>>

\* process_event for an address that is not in the map, which it ignores, and for
\* a stopped entry, whose packet, with or without bytes, is the closing one.
ProcessClosing ==
    /\ loop = "got" /\ watch_infos_[cur.ov].state_ \in {"absent", "pending_close"}
    /\ watch_infos_' = Erase(cur.ov)
    /\ loop' = "wait"
    /\ UNCHANGED <<io, iocp, stopped_, cur, adding, dtor, iocpBroken>>

\* process_event without bytes: error_event_ runs, and nothing listens again.
ProcessOverflow ==
    /\ loop = "got" /\ cur.kind = "empty"
    /\ Live(cur.ov) /\ watch_infos_[cur.ov].state_ # "pending_close"
    /\ watch_infos_' = [watch_infos_ EXCEPT ![cur.ov] = Alerted(Unlistened(@))]
    /\ loop' = "error_cb"
    /\ UNCHANGED <<io, iocp, stopped_, cur, adding, dtor, iocpBroken>>

\* process_event with bytes: change_event_ runs under the lock.
ProcessChanges ==
    /\ loop = "got" /\ cur.kind = "data"
    /\ Live(cur.ov) /\ watch_infos_[cur.ov].state_ # "pending_close"
    /\ watch_infos_' = [watch_infos_ EXCEPT ![cur.ov] = Unlistened(@)]
    /\ loop' = "change_cb"
    /\ UNCHANGED <<io, iocp, stopped_, cur, adding, dtor, iocpBroken>>

\* change_event_ returned and listen() succeeds.
Relisten ==
    /\ loop = "change_cb"
    /\ watch_infos_[cur.ov].state_ = "initialized"
    /\ watch_infos_[cur.ov].directory_ = "open"
    /\ watch_infos_' = [watch_infos_ EXCEPT ![cur.ov] = Listening(@)]
    /\ io' = [io EXCEPT ![cur.ov] = @ + 1]
    /\ loop' = "wait"
    /\ UNCHANGED <<iocp, stopped_, cur, adding, dtor, iocpBroken>>

\* change_event_ returned and listen() fails: error_event_ runs.
RelistenFails ==
    /\ loop = "change_cb"
    /\ watch_infos_' = [watch_infos_ EXCEPT ![cur.ov] = Alerted(@)]
    /\ loop' = "error_erase"
    /\ UNCHANGED <<io, iocp, stopped_, cur, adding, dtor, iocpBroken>>

\* error_event_ returned; after a failed listen() the entry is erased.
ErrorReturns ==
    /\ loop \in {"error_cb", "error_erase"}
    /\ watch_infos_' = IF loop = "error_erase" THEN Erase(cur.ov) ELSE watch_infos_
    /\ loop' = "wait"
    /\ UNCHANGED <<io, iocp, stopped_, cur, adding, dtor, iocpBroken>>

\* The loop was left: stopped_.store(true), which takes no lock.
LoopLeft ==
    /\ loop \in {"exit_ok", "exit_failed"}
    /\ stopped_' = TRUE
    /\ loop' = IF loop = "exit_ok" THEN "drain" ELSE "alert"
    /\ UNCHANGED <<watch_infos_, io, iocp, cur, adding, dtor, iocpBroken>>

\* After the magic packet: take packets while an entry is pending_close.
DrainPacket ==
    /\ loop = "drain" /\ iocp # <<>>
    /\ \E ov \in Ovs : watch_infos_[ov].state_ = "pending_close"
    /\ iocp' = Tail(iocp)
    /\ \/ /\ Head(iocp).kind = "failed"
          /\ loop' = "done"
          /\ UNCHANGED watch_infos_
       \/ /\ Head(iocp).kind # "failed"
          /\ Head(iocp).ov \in Ovs
          /\ watch_infos_' = Erase(Head(iocp).ov)
          /\ UNCHANGED loop
    /\ UNCHANGED <<io, stopped_, cur, adding, dtor, iocpBroken>>

DrainDone ==
    /\ loop = "drain"
    /\ \A ov \in Ovs : watch_infos_[ov].state_ # "pending_close"
    /\ loop' = "done"
    /\ UNCHANGED <<watch_infos_, io, iocp, stopped_, cur, adding, dtor, iocpBroken>>

\* After a failure: error_event_ for every entry, under the lock.
AlertAll ==
    /\ loop = "alert"
    /\ watch_infos_' = [ov \in Ovs |-> IF Live(ov) THEN Alerted(watch_infos_[ov])
                                                   ELSE NoWatch]
    /\ loop' = "done"
    /\ UNCHANGED <<io, iocp, stopped_, cur, adding, dtor, iocpBroken>>

-----------------------------------------------------------------------------
Client(c) ==
    \/ AddBegin(c) \/ AddFail(c)
    \/ \E ov \in Ovs : AddListen(c, ov) \/ Remove(c, ov)

Dtor == DtorStopAll \/ DtorPost \/ DtorDestroy

Kernel == \E ov \in Ovs, kind \in Completions : Complete(ov, kind)

ProcessEvent ==
    \/ ProcessClosing \/ ProcessOverflow \/ ProcessChanges
    \/ Relisten \/ RelistenFails \/ ErrorReturns

Loop ==
    \/ TakePacket \/ ProcessEvent
    \/ LoopLeft \/ DrainPacket \/ DrainDone \/ AlertAll

\* The watcher is gone: the only state in which nothing may happen.
Gone == dtor = "destroyed" /\ UNCHANGED vars

Next ==
    \/ \E c \in Clients : Client(c)
    \/ Dtor \/ Kernel \/ Loop \/ PortFails \/ Gone

Spec == Init /\ [][Next]_vars

\* The loop thread is scheduled and the callbacks return; a destructor that has
\* begun goes on; a call on a closed handle completes.  Nothing makes a client
\* act, a directory change or the port fail.
Fairness ==
    /\ WF_vars(Loop)
    /\ WF_vars(DtorPost \/ DtorDestroy)
    /\ \A ov \in Ovs : WF_vars(watch_infos_[ov].directory_ = "closed"
                               /\ \E kind \in Completions : Complete(ov, kind))

FairSpec == Spec /\ Fairness

-----------------------------------------------------------------------------
(* Properties.                                                             *)

TypeOK ==
    /\ watch_infos_ \in [Ovs -> WatchInfo]
    /\ io \in [Ovs -> Nat]
    /\ iocp \in Seq(Packet)
    /\ stopped_ \in BOOLEAN
    /\ loop \in LoopStates
    /\ cur \in Packet
    /\ adding \subseteq Clients
    /\ dtor \in DtorStates
    /\ iocpBroken \in BOOLEAN

Queued(ov) == \E i \in DOMAIN iocp : iocp[i].ov = ov

QueuedOnce(ov) ==
    \A i, j \in DOMAIN iocp : iocp[i].ov = ov /\ iocp[j].ov = ov => i = j

InHand(ov) == loop = "got" /\ cur.ov = ov

\* A call was issued on the OVERLAPPED at ov, and its packet is not handled yet.
Outstanding(ov) == io[ov] > 0 \/ Queued(ov) \/ InHand(ov)

\* The loop thread got FALSE from GetQueuedCompletionStatus, or has finished.
LoopGaveUp == loop \in {"exit_failed", "alert", "done"}

\* An OVERLAPPED, and the buffer the kernel writes to, live as long as the call
\* issued on them and its packet (until the watcher itself is destroyed): no
\* packet reaches process_event under an address that was freed or reused.
NoDangling ==
    dtor # "destroyed" => \A ov \in Ovs : Outstanding(ov) => Live(ov)

\* listen() never starts a second call on an OVERLAPPED whose first one is
\* outstanding, queued or in the hands of process_event, be it the same entry's or
\* that of an earlier entry at the address.
OneCallPerEntry ==
    \A ov \in Ovs :
        /\ io[ov] <= 1
        /\ QueuedOnce(ov)
        /\ ~(io[ov] > 0 /\ Queued(ov))
        /\ ~(InHand(ov) /\ (io[ov] > 0 \/ Queued(ov)))

\* What the enum's comments say of listening and pending_close: each has a call
\* whose notification will come.  The drain of event_loop waits, without a
\* timeout and with the lock held, for a packet per pending_close entry.
WaitsOnlyForCalls ==
    ~LoopGaveUp =>
        \A ov \in Ovs :
            watch_infos_[ov].state_ \in {"listening", "pending_close"}
                => Outstanding(ov)

\* The contract of add_directory: an entry that was added and not removed is
\* listened to, or being handled, or its subscriber was told by error_event_.
\* This is what the second look at stopped_ is for: once the loop is done after
\* a failure, every entry has been alerted.
WatchedOrAlerted ==
    \A ov \in Ovs :
        Live(ov) /\ watch_infos_[ov].directory_ = "open" /\ ~watch_infos_[ov].alerted =>
            \/ loop \in {"exit_failed", "alert"}
            \/ loop = "change_cb" /\ cur.ov = ov
            \/ loop # "done" /\ Outstanding(ov)

\* change_event_ is only called for an entry that is in the map and was not
\* removed, however remove_directory interleaves with a packet already taken.
NoEventAfterRemove ==
    loop = "change_cb" =>
        /\ Live(cur.ov)
        /\ watch_infos_[cur.ov].directory_ = "open"

\* While the watcher exists, an entry leaves the map only if it was stopped or
\* its subscriber was told by error_event_.
ErasedOnlyIfStoppedOrAlerted ==
    [][\A ov \in Ovs :
        Live(ov) /\ ~Live(ov)' => \/ watch_infos_[ov].directory_ = "closed"
                                  \/ watch_infos_[ov].alerted]_vars

\* The destructor returns: join does not wait for ever, whatever was
\* outstanding when it began.
ShutdownTerminates == (dtor # "none") ~> (dtor = "destroyed")

\* An entry that is stopped before its subscriber was told of an error is erased,
\* whatever its packets bring, unless the loop gave up.  (One that is stopped after
\* an overflow has no call, and no packet will erase it: it stays in the map until
\* the watcher is destroyed.)
StoppedIsErased ==
    \A ov \in Ovs :
        (Live(ov) /\ watch_infos_[ov].directory_ = "closed" /\ ~watch_infos_[ov].alerted)
            ~> (~Live(ov) \/ LoopGaveUp)

\* event_loop says "There is something wrong with the IOCP" when, and only when,
\* the port failed (rdc_fs_watcher.cpp:287).
LoopFailsOnlyWithPort == loop = "alert" => iocpBroken
=============================================================================
