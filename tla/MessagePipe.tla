---------------------------- MODULE MessagePipe -----------------------------
(***************************************************************************)
(* One message pipe (MessagePipe and MessagePipeDispatcher in              *)
(* kernel/lib/magenta/msg_pipe.cpp and msg_pipe_dispatcher.cpp) and the    *)
(* message_read and message_write calls of the threads of a process,       *)
(* with the handles that travel in the messages.                           *)
(*                                                                         *)
(* A call is cut where it lets go of a lock: the dispatcher's lock_ between *)
(* BeginRead and AcceptRead, the handle table lock and the pipe's lock_ in  *)
(* message_write.  Each endpoint has one handle, because pipe handles lack  *)
(* MX_RIGHT_DUPLICATE; it may travel through the pipe like any other.       *)
(***************************************************************************)
EXTENDS Integers, Sequences, Functions, TLC

CONSTANTS Threads,
          Things,       \* handles to other objects
          MaxMessages,  \* bound on the messages ever written
          MaxHandles    \* handles per message, kMaxMessageHandles

ASSUME MessagesAssumption == MaxMessages \in Nat /\ MaxHandles \in Nat
ASSUME ThingsAssumption == {0, 1} \cap Things = {}

VARIABLES reply_pipe,       \* whether side 1 has MX_FLAG_REPLY_PIPE
          dispatcher_alive, \* dispatcher_alive_
          messages,         \* messages_, for each side the messages it may read
          pending,          \* pending_ of each dispatcher, 0 for none
          satisfied,        \* the signals of each side
          satisfiable,
          doomed,           \* messages a destroyed side has still to destroy
          content,          \* the handles each message was written with
          table,            \* handles in the handle table
          deleted,          \* handles that went through DeleteHandle
          leaked,           \* handles nobody refers to any more
          pc, side,         \* where a thread is, and the side its call is about
          handle_list,      \* the handles a call holds
          sized,            \* the message whose sizes BeginRead reported
          written,          \* history: messages written to each side
          delivered         \* history: messages accepted by each side

pipe == <<reply_pipe, dispatcher_alive, messages, pending>>
signals == <<satisfied, satisfiable>>
handles == <<table, deleted, leaked>>
call == <<pc, side, handle_list, sized>>
history == <<content, written, delivered>>
vars == <<pipe, signals, doomed, handles, call, history>>

Side == {0, 1}
other_side(s) == 1 - s
Message == 1 .. MaxMessages
Signal == {"READABLE", "WRITABLE", "PEER_CLOSED"}

(* The handle to side s is called s. *)
Handle == Side \cup Things
HandleLists == UNION {[1 .. n -> Handle] : n \in 0 .. MaxHandles}

TypeOK ==
  /\ reply_pipe \in BOOLEAN
  /\ dispatcher_alive \in [Side -> BOOLEAN]
  /\ messages \in [Side -> Seq(Message)]
  /\ pending \in [Side -> 0 .. MaxMessages]
  /\ satisfied \in [Side -> SUBSET Signal]
  /\ satisfiable \in [Side -> SUBSET Signal]
  /\ doomed \in [Side -> Seq(Message)]
  /\ content \in [Message -> HandleLists]
  /\ table \subseteq Handle /\ deleted \subseteq Handle /\ leaked \subseteq Handle
  /\ pc \in [Threads -> {"user", "take", "write", "undo", "begin", "sizes", "accept",
                         "deliver", "panic"}]
  /\ side \in [Threads -> Side]
  /\ handle_list \in [Threads -> HandleLists]
  /\ sized \in [Threads -> 0 .. MaxMessages]
  /\ written \in [Side -> Seq(Message)]
  /\ delivered \in [Side -> Seq(Message)]

(* message_pipe_create *)
Init ==
  /\ reply_pipe \in BOOLEAN
  /\ dispatcher_alive = [s \in Side |-> TRUE]
  /\ messages = [s \in Side |-> <<>>]
  /\ pending = [s \in Side |-> 0]
  /\ satisfied = [s \in Side |-> {"WRITABLE"}]
  /\ satisfiable = [s \in Side |-> Signal]
  /\ doomed = [s \in Side |-> <<>>]
  /\ content = [m \in Message |-> <<>>]
  /\ table = Handle /\ deleted = {} /\ leaked = {}
  /\ pc = [t \in Threads |-> "user"]
  /\ side = [t \in Threads |-> 0]
  /\ handle_list = [t \in Threads |-> <<>>]
  /\ sized = [t \in Threads |-> 0]
  /\ written = [s \in Side |-> <<>>]
  /\ delivered = [s \in Side |-> <<>>]

-----------------------------------------------------------------------------
(* StateTracker::UpdateState on the tracker of side s. *)
UpdateState(s, set, clear, able_clear) ==
  /\ satisfied' = [satisfied EXCEPT ![s] = (@ \ clear) \cup set]
  /\ satisfiable' = [satisfiable EXCEPT ![s] = @ \ able_clear]

locals == <<side, sized>>

goto(t, label) == pc' = [pc EXCEPT ![t] = label] /\ UNCHANGED locals

Return(t) ==
  /\ pc' = [pc EXCEPT ![t] = "user"]
  /\ side' = [side EXCEPT ![t] = 0]
  /\ sized' = [sized EXCEPT ![t] = 0]

(* Both calls look the endpoint's handle up and keep a reference to it. *)
Call(t, s, label) ==
  /\ pc[t] = "user"
  /\ s \in table
  /\ pc' = [pc EXCEPT ![t] = label]
  /\ side' = [side EXCEPT ![t] = s]
  /\ UNCHANGED <<pipe, signals, doomed, handles, handle_list, sized, history>>

-----------------------------------------------------------------------------
(* message_write *)

(* Under the handle table lock: the handles are all there, the endpoint      *)
(* itself is among them exactly when it is a reply pipe, then as the last,   *)
(* and no handle is named twice.                                             *)
CanSend(s, hs) ==
  LET reply == reply_pipe /\ s = 1 IN
  /\ Range(hs) \subseteq table
  /\ IF reply THEN hs # <<>> /\ hs[Len(hs)] = s ELSE s \notin Range(hs)
  /\ IsInjective(hs)

TakeHandles(t) ==
  /\ pc[t] = "take"
  /\ \E hs \in HandleLists :
       IF CanSend(side[t], hs)
         THEN /\ table' = table \ Range(hs)
              /\ handle_list' = [handle_list EXCEPT ![t] = hs]
              /\ goto(t, "write")
         ELSE Return(t) /\ UNCHANGED <<table, handle_list>>
  /\ UNCHANGED <<pipe, signals, doomed, deleted, leaked, history>>

NextMessage == 1 + Len(written[0]) + Len(written[1])

Send(t, m, other) ==
  /\ content' = [content EXCEPT ![m] = handle_list[t]]
  /\ messages' = [messages EXCEPT ![other] = Append(@, m)]
  /\ written' = [written EXCEPT ![other] = Append(@, m)]
  /\ UpdateState(other, {"READABLE"}, {}, {})
  /\ handle_list' = [handle_list EXCEPT ![t] = <<>>]
  /\ Return(t)

(* Mutant: the message of a failed write is destroyed with its handles. *)
WriteNoReturnHandles(t) ==
  LET other == other_side(side[t]) IN
  /\ pc[t] = "write"
  /\ \/ /\ dispatcher_alive[other]
        /\ NextMessage \in Message
        /\ Send(t, NextMessage, other)
        /\ UNCHANGED deleted
     \/ /\ ~dispatcher_alive[other]
        /\ deleted' = deleted \cup Range(handle_list[t])
        /\ goto(t, "undo")
        /\ UNCHANGED <<signals, messages, content, written, handle_list>>
  /\ UNCHANGED <<reply_pipe, dispatcher_alive, pending, doomed, table, leaked, delivered>>

(* Mutant: messages are queued for a side that is gone. *)
WriteToClosedSide(t) ==
  LET other == other_side(side[t]) IN
  /\ pc[t] = "write"
  /\ NextMessage \in Message
  /\ Send(t, NextMessage, other)
  /\ UNCHANGED <<reply_pipe, dispatcher_alive, pending, doomed, handles, delivered>>

(* MessagePipeDispatcher::Write: no memory for the packet, the other side is *)
(* gone, or the message is queued.  ReturnHandles leaves the handles of a    *)
(* failed write to the caller.                                               *)
Write(t) ==
  LET other == other_side(side[t]) IN
  /\ pc[t] = "write"
  /\ \/ /\ dispatcher_alive[other]
        /\ NextMessage \in Message
        /\ Send(t, NextMessage, other)
     \/ /\ goto(t, "undo")
        /\ UNCHANGED <<signals, messages, content, written, handle_list>>
  /\ UNCHANGED <<reply_pipe, dispatcher_alive, pending, doomed, handles, delivered>>

(* A failed write puts the handles back. *)
UndoRemoveHandle(t) ==
  /\ pc[t] = "undo"
  /\ table' = table \cup Range(handle_list[t])
  /\ handle_list' = [handle_list EXCEPT ![t] = <<>>]
  /\ Return(t)
  /\ UNCHANGED <<pipe, signals, doomed, deleted, leaked, history>>

-----------------------------------------------------------------------------
(* message_read *)

(* MessagePipe::Read with a message to return. *)
Read(s) ==
  /\ messages[s] # <<>>
  /\ pending' = [pending EXCEPT ![s] = Head(messages[s])]
  /\ messages' = [messages EXCEPT ![s] = Tail(@)]
  /\ IF Tail(messages[s]) = <<>>
       THEN UpdateState(s, {}, {"READABLE"},
                        IF dispatcher_alive[other_side(s)] THEN {} ELSE {"READABLE"})
       ELSE UNCHANGED signals

(* Mutant: a message that another call left pending is overwritten. *)
BeginReadDropsPending(t) ==
  LET s == side[t] IN
  /\ pc[t] = "begin"
  /\ \/ /\ Read(s)
        /\ sized' = [sized EXCEPT ![t] = pending'[s]]
        /\ pc' = [pc EXCEPT ![t] = "sizes"]
        /\ UNCHANGED side
     \/ /\ messages[s] = <<>>
        /\ Return(t)
        /\ UNCHANGED <<pending, messages, signals>>
  /\ UNCHANGED <<reply_pipe, dispatcher_alive, doomed, handles, handle_list, history>>

(* BeginRead: make a message pending unless one is, and report its sizes. *)
BeginRead(t) ==
  LET s == side[t] IN
  /\ pc[t] = "begin"
  /\ \/ /\ IF pending[s] # 0 THEN UNCHANGED <<pending, messages, signals>> ELSE Read(s)
        /\ sized' = [sized EXCEPT ![t] = pending'[s]]
        /\ pc' = [pc EXCEPT ![t] = "sizes"]
        /\ UNCHANGED side
     \/ /\ pending[s] = 0 /\ messages[s] = <<>>
        /\ UpdateState(s, {}, {"READABLE"},
                       IF dispatcher_alive[other_side(s)] THEN {} ELSE {"READABLE"})
        /\ Return(t)
        /\ UNCHANGED <<pending, messages>>
  /\ UNCHANGED <<reply_pipe, dispatcher_alive, doomed, handles, handle_list, history>>

(* The sizes are copied out; a fault or a buffer that is too small ends the  *)
(* call and leaves the message pending.                                      *)
CheckSizes(t) ==
  /\ pc[t] = "sizes"
  /\ goto(t, "accept") \/ Return(t)
  /\ UNCHANGED <<pipe, signals, doomed, handles, handle_list, history>>

(* AcceptRead: take whatever is pending now. *)
AcceptRead(t) ==
  LET s == side[t]
      m == pending[s] IN
  /\ pc[t] = "accept"
  /\ pending' = [pending EXCEPT ![s] = 0]
  /\ IF m = 0
       THEN UNCHANGED <<handle_list, delivered>>
       ELSE /\ handle_list' = [handle_list EXCEPT ![t] = content[m]]
            /\ delivered' = [delivered EXCEPT ![s] = Append(@, m)]
  /\ pc' = [pc EXCEPT ![t] = "deliver"]
  /\ UNCHANGED <<reply_pipe, dispatcher_alive, messages, signals, doomed, handles, side, sized, content, written>>

(* The rest of message_read works with the number of handles BeginRead       *)
(* reported, and goes on although AcceptRead may have returned nothing.      *)
Deliver(t) ==
  LET n == Len(content[sized[t]])
      got == handle_list[t] IN
  /\ pc[t] = "deliver"
  /\ \/ /\ leaked' = leaked \cup Range(got)       \* copying the bytes out faults
        /\ Return(t)
        /\ UNCHANGED table
     \/ /\ n <= Len(got)
        /\ table' = table \cup {got[i] : i \in 1 .. n}
        /\ leaked' = leaked \cup {got[i] : i \in n + 1 .. Len(got)}
        /\ Return(t)
     \/ /\ n > Len(got)                           \* handle_list[ix] out of range
        /\ leaked' = leaked \cup Range(got)
        /\ goto(t, "panic")
        /\ UNCHANGED table
  /\ handle_list' = [handle_list EXCEPT ![t] = <<>>]
  /\ UNCHANGED <<pipe, signals, doomed, deleted, history>>

-----------------------------------------------------------------------------
(* handle_close, and what the last reference to an endpoint takes with it. *)

handle_close(h) ==
  /\ h \in table
  /\ table' = table \ {h}
  /\ deleted' = deleted \cup {h}
  /\ UNCHANGED <<pipe, signals, doomed, leaked, call, history>>

(* pending_ as the messages it holds. *)
Parked(s) == IF pending[s] = 0 THEN <<>> ELSE <<pending[s]>>

Referenced(s) ==
  \/ s \notin deleted
  \/ \E t \in Threads : pc[t] # "user" /\ side[t] = s

(* Its messages, and then the pending one, are destroyed outside lock_. *)
Detach(s) ==
  /\ dispatcher_alive[s] /\ ~Referenced(s)
  /\ dispatcher_alive' = [dispatcher_alive EXCEPT ![s] = FALSE]
  /\ messages' = [messages EXCEPT ![s] = <<>>]
  /\ pending' = [pending EXCEPT ![s] = 0]
  /\ doomed' = [doomed EXCEPT ![s] = messages[s] \o Parked(s)]
  /\ UNCHANGED <<reply_pipe, handles, call, history>>

TellPeer(s, signal, able_clear) ==
  LET other == other_side(s) IN
  IF dispatcher_alive[other]
    THEN UpdateState(other, {signal}, {"WRITABLE"}, able_clear)
    ELSE UNCHANGED signals

(* Mutant: the other side can no longer read what it was sent. *)
OnDispatcherDestructionClearsReadable(s) ==
  Detach(s) /\ TellPeer(s, "PEER_CLOSED", {"WRITABLE", "READABLE"})

(* ~MessagePipeDispatcher *)
OnDispatcherDestruction(s) ==
  /\ Detach(s)
  /\ TellPeer(s, "PEER_CLOSED", {"WRITABLE"} \cup
         (IF messages[other_side(s)] = <<>> THEN {"READABLE"} ELSE {}))

(* ~MessagePacket deletes the handles of one message. *)
DestroyMessage(s) ==
  /\ doomed[s] # <<>>
  /\ doomed' = [doomed EXCEPT ![s] = Tail(@)]
  /\ deleted' = deleted \cup Range(content[Head(doomed[s])])
  /\ UNCHANGED <<pipe, signals, table, leaked, call, history>>

-----------------------------------------------------------------------------
InCall(t) ==
  \/ TakeHandles(t) \/ Write(t) \/ UndoRemoveHandle(t)
  \/ BeginRead(t) \/ CheckSizes(t) \/ AcceptRead(t) \/ Deliver(t)

Destroy(s) == OnDispatcherDestruction(s) \/ DestroyMessage(s)

Next ==
  \/ \E t \in Threads, s \in Side : Call(t, s, "take") \/ Call(t, s, "begin")
  \/ \E t \in Threads : InCall(t)
  \/ \E h \in Handle : handle_close(h)
  \/ \E s \in Side : Destroy(s)

Spec == Init /\ [][Next]_vars

-----------------------------------------------------------------------------
(* Properties. *)

(* The messages of side s that have been neither accepted nor destroyed. *)
Stored(s) == messages[s] \o Parked(s) \o doomed[s]

(* Where a handle is. *)
Places(h) ==
  {<<"table">> : x \in table \cap {h}}
  \cup {<<"deleted">> : x \in deleted \cap {h}}
  \cup {<<"leaked">> : x \in leaked \cap {h}}
  \cup {<<"call", t>> : t \in {u \in Threads : h \in Range(handle_list[u])}}
  \cup UNION {{<<"message", s, i>> : i \in {j \in DOMAIN Stored(s) : h \in Range(content[Stored(s)[j]])}}
              : s \in Side}

(* A handle is in exactly one place: in a table, in the hands of one call, in *)
(* one message, or gone ("a single handle can only be either bound to a       *)
(* single process or be bound to kernel", docs/handles.md).  message_write    *)
(* takes it out of the table before the write and puts it back when that      *)
(* fails; a destroyed message deletes it.  A side that is gone holds no       *)
(* messages, whatever was in progress when it went (~MessagePipe asserts it), *)
(* so none is left behind when the second side goes.                          *)
HandlesAccounted ==
  /\ TypeOK
  /\ \A h \in Handle : \E p \in Places(h) : Places(h) = {p}
  /\ \A s \in Side : ~dispatcher_alive[s] => messages[s] = <<>> /\ pending[s] = 0

(* The signals of a live side say whether messages are queued for it and      *)
(* whether its peer is alive, and READABLE stays satisfiable as long as a     *)
(* queued message or a live peer can satisfy it.                              *)
SignalsMatchQueue ==
  \A s \in Side : dispatcher_alive[s] =>
    LET peer == dispatcher_alive[other_side(s)] IN
    /\ "READABLE" \in satisfied[s] <=> messages[s] # <<>>
    /\ "WRITABLE" \in satisfied[s] <=> peer
    /\ "PEER_CLOSED" \in satisfied[s] <=> ~peer
    /\ "READABLE" \in satisfiable[s] <=> peer \/ messages[s] # <<>>
    /\ "WRITABLE" \in satisfiable[s] <=> peer

(* The pipe is a pair of queues; a message a short buffer left pending is     *)
(* still the first of its queue.                                              *)
Ch == INSTANCE Channel WITH
        open <- dispatcher_alive,
        sent <- written,
        queue <- [s \in Side |-> Parked(s) \o messages[s]]

(* Handles, messages and signals agree after any interleaving of the calls,   *)
(* and an open side is owed what was written to it, in that order.            *)
PipeSound == HandlesAccounted /\ SignalsMatchQueue /\ Ch!ExactlyOnceInOrder

(* Every interleaving of reads, aborted reads, writes and closes delivers     *)
(* the messages of a side in the order of the writes, each once.              *)
ImplementsChannel == Ch!ChSpec

-----------------------------------------------------------------------------
(* The threads are alike. *)
ThreadSymmetry == Permutations(Threads)
=============================================================================
