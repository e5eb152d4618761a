--------------------------------- MODULE Comm ---------------------------------
(***************************************************************************)
(* Connections of user objects (src/src/comm.cpp): slots for users, their  *)
(* output buffers, and the lists of what is to be flushed, connected and   *)
(* closed at the end of a task.                                            *)
(*                                                                         *)
(* What a task asks for is kept in the extra array of the user object,     *)
(* which an atomic function that fails restores; that a user is in a list  *)
(* or in the ring, and its flags, are not restored.  Comm::flush() brings  *)
(* the two together.  Binary connections and datagram users are modelled;  *)
(* a message is a byte, which function of an object runs is left open, and *)
(* every object has been initialised before it gets a connection.          *)
(***************************************************************************)
EXTENDS Integers, Sequences, FiniteSets, SequencesExt

CONSTANTS
  Obj,          \* objects
  Byte,         \* what is sent
  Talkers,      \* bound: the objects that do anything but open and close
  Slot,         \* users[]: maxusers of them
  MaxDgram,     \* maxdgram
  DgramMod,     \* the counter ndgram is unsigned: 2^32
  MaxStr,       \* MAX_STRLEN
  MaxCalls,     \* bound on nested close() calls and atomic functions
  Connects,     \* bound: the kinds of outbound connections, of "tcp", "dgram"
  Reconnects,   \* bound: whether users of objects whose connections are undone
                \* or to be closed may get others before they are cleaned up
  MaxOps,       \* bound on what a task does
  None          \* no object, no array, no buffer

\* What an extra array may hold; see NoRequest.
RequestType ==
  [connect : {None, "tcp", "dgram"}, blocked : BOOLEAN, stopped : BOOLEAN,
   buf : Seq(Byte) \cup {None}, changed : BOOLEAN, due : Seq(Byte), owed : BOOLEAN]

ASSUME CommAssumption ==
  /\ IsFiniteSet(Slot) /\ IsFiniteSet(Obj)
  /\ MaxDgram \in 0 .. Cardinality(Slot)
  /\ DgramMod \in Nat /\ DgramMod > Cardinality(Slot)
  /\ MaxStr \in Nat /\ MaxCalls \in Nat
  /\ Connects \subseteq {"tcp", "dgram"}
  /\ None \notin Obj /\ None \notin Seq(Byte) /\ None \notin RequestType

MaxUsers == Cardinality(Slot)

\* Arrays made for an object: that which it has, and others which atomic
\* functions or the flush list have to do with.
ArrayId == Obj \X (1 .. MaxUsers + 1)

VARIABLES
  obj,          \* objects, as the running code has them
  array,        \* extra arrays
  usr,          \* users[]
  ring,         \* users in use, from lastuser on
  flush,        \* the flush list
  outbound,     \* outbound connections to make
  nusers, ndgram, odone,
  phase,        \* "idle", "accept", "loop", "task", "flush", or the server is gone
  then,         \* what follows the task
  ops,          \* what the task has done
  left,         \* users that the loop of receive() has still to look at
  calls         \* functions of the task: close() calls and atomic functions

vars == <<obj, array, usr, ring, flush, outbound, nusers, ndgram, odone,
          phase, then, ops, left, calls>>

\* No object yet; `dead' is one that is destructed but not cleaned up.
NoObject == [state |-> "none", user |-> FALSE, slot |-> None, extra |-> None]

\* elts[0]: what is asked for, or that it is a connect() (-1: all flags) or
\* connect_datagram() (a port number) yet to be done; elts[1]: the output
\* buffer, `changed' once it is not the string of the last flush any more.
\* `due' is what has been accepted and not been written to the connection,
\* `owed' that message_done() is to be called.
NoRequest == [connect |-> None, blocked |-> FALSE, stopped |-> FALSE,
              buf |-> None, changed |-> FALSE, due |-> <<>>, owed |-> FALSE]

\* A new user; flags of comm.cpp by name.
NewUser(o, a) ==
  [obj |-> o, extra |-> a, conn |-> None, outbuf |-> FALSE, osdone |-> 0,
   dgram |-> FALSE, flush |-> FALSE, output |-> FALSE, odone |-> FALSE,
   blocked |-> FALSE, stopped |-> FALSE, opending |-> FALSE]

NoUser == NewUser(None, None)

Init ==
  /\ obj = [o \in Obj |-> NoObject]
  /\ array = [a \in ArrayId |-> None]
  /\ usr = [u \in Slot |-> NoUser]
  /\ ring = <<>> /\ flush = <<>> /\ outbound = <<>>
  /\ nusers = 0 /\ ndgram = 0 /\ odone = 0
  /\ phase = "idle" /\ then = [kind |-> "idle", arg |-> None]
  /\ left = 0 /\ ops = 0
  /\ calls = <<>>

InUse(u) == usr[u].obj # None
FreeUsers == {u \in Slot : u \notin Range(ring)}

Live(o) == obj[o].state = "live"
IsUser(o) == obj[o].user
Request(o) == array[obj[o].extra]

loopVars == <<phase, then, left>>
countVars == <<nusers, ndgram, odone>>

\* Arrays that somebody holds: others are gone.
Kept(arr, ob, us, cs) ==
  LET saved == {cs[i].obj : i \in {j \in DOMAIN cs : cs[j].kind = "atomic"}}
      held == {t[o].extra : t \in saved \cup {ob}, o \in Obj}
                \cup {us[u].extra : u \in {v \in Slot : us[v].flush}}
  IN  [a \in ArrayId |-> IF a \in held THEN arr[a] ELSE None]

\* Bound: an object has as many arrays as there are in ArrayId.
NewArrays(o) == {a \in {o} \X (1 .. MaxUsers + 1) : array[a] = None}
NewArray(o) == CHOOSE a \in NewArrays(o) : TRUE

-----------------------------------------------------------------------------
(* What a task does.                                                        *)

Runs == phase = "task" /\ UNCHANGED loopVars

Op == Runs /\ ops < MaxOps /\ ops' = ops + 1

InTask == Runs /\ UNCHANGED ops

\* addtoflush() of user u, of which the fields are w, unless it is in the list.
Listed(w) ==
  IF w.flush THEN w
  ELSE [w EXCEPT !.flush = TRUE, !.extra = obj[w.obj].extra,
                 !.outbuf = Request(w.obj).buf # None]

AddToFlush(u, w) ==
  /\ usr' = [usr EXCEPT ![u] = Listed(w)]
  /\ flush' = IF usr[u].flush THEN flush ELSE <<u>> \o flush

Ask(o, r) == array' = [array EXCEPT ![obj[o].extra] = r]

\* Mutant: the part that is done is that of any string.
DoneOfAny(w, r) == w.osdone

\* How much of the buffer user w has written: the part that is done is that of
\* the string which was the buffer when w was put in the flush list.
Done(w, r) == IF w.outbuf /\ ~r.changed THEN w.osdone ELSE 0

\* write(): another string takes the place of the buffer, or there is a new
\* buffer, and output to wait for.
Write(o, b) ==
  LET u == obj[o].slot
      r == Request(o)
      old == IF r.buf = None THEN <<>>
             ELSE SubSeq(r.buf, Done(Listed(usr[u]), r) + 1, Len(r.buf))
      new == r.buf = None
      written == [r EXCEPT !.buf = Append(old, b), !.changed = TRUE,
                           !.due = Append(@, b), !.owed = @ /\ ~new]
  IN  /\ AddToFlush(u, IF new THEN [usr[u] EXCEPT !.odone = FALSE, !.output = TRUE]
                       ELSE usr[u])
      /\ odone' = IF new /\ usr[u].odone THEN odone - 1 ELSE odone
      /\ IF Len(old) < MaxStr THEN Ask(o, written) ELSE UNCHANGED array

\* send_message()
Send(o, b) ==
  /\ Op /\ Live(o) /\ IsUser(o) /\ o \in Talkers
  /\ ~Request(o).stopped /\ ~usr[obj[o].slot].dgram
  /\ Write(o, b)
  /\ UNCHANGED <<obj, ring, outbound, nusers, ndgram, calls>>

\* Mutant: the user is not put in the flush list.
BlockUnlisted(o, on) ==
  /\ Op /\ Live(o) /\ IsUser(o) /\ o \in Talkers
  /\ Request(o).blocked # on
  /\ Ask(o, [Request(o) EXCEPT !.blocked = on])
  /\ UNCHANGED <<obj, usr, ring, flush, outbound, countVars, calls>>

\* block_input()
Block(o, on) ==
  /\ Op /\ Live(o) /\ IsUser(o) /\ o \in Talkers
  /\ Request(o).blocked # on
  /\ AddToFlush(obj[o].slot, usr[obj[o].slot])
  /\ Ask(o, [Request(o) EXCEPT !.blocked = on])
  /\ UNCHANGED <<obj, ring, outbound, countVars, calls>>

\* send_close()
Stop(o) ==
  /\ Op /\ Live(o) /\ IsUser(o) /\ o \in Talkers
  /\ ~usr[obj[o].slot].dgram /\ ~Request(o).stopped
  /\ AddToFlush(obj[o].slot, usr[obj[o].slot])
  /\ Ask(o, [Request(o) EXCEPT !.stopped = TRUE])
  /\ UNCHANGED <<obj, ring, outbound, countVars, calls>>

\* A new object.
NewObject(o) ==
  /\ InTask /\ obj[o].state = "none"
  /\ obj' = [obj EXCEPT ![o] = [NoObject EXCEPT !.state = "live"]]
  /\ UNCHANGED <<array, usr, ring, flush, outbound, countVars, calls>>

\* The cases that the bound Reconnects leaves out: a connection for an object
\* that a user still has to do with, and the user of an object that an atomic
\* function destructs for an outbound connection made in it.
MayConnect(o) == Reconnects \/ \A u \in Slot : usr[u].obj # o

MayReuse(u) ==
  Reconnects \/ \A i \in DOMAIN calls :
                  calls[i].kind = "atomic" => ~calls[i].obj[usr[u].obj].user

\* setup() of slot u for o.
SetUp(o, u, a) == obj' = [obj EXCEPT ![o].user = TRUE, ![o].slot = u, ![o].extra = a]

\* The first user in the outbound list whose object is no user any more, if any.
Undone ==
  {outbound[i] : i \in {k \in DOMAIN outbound :
     /\ ~IsUser(usr[outbound[k]].obj)
     /\ \A j \in 1 .. k - 1 : IsUser(usr[outbound[j]].obj)}}

\* connect() and connect_datagram(): another user, or that of a connection
\* that was undone.
Connect(o, u, kind) ==
  LET a == NewArray(o)
      full == IF kind = "tcp" THEN nusers >= MaxUsers ELSE ndgram >= MaxDgram
  IN  /\ Op /\ Live(o) /\ ~IsUser(o) /\ MayConnect(o) /\ kind \in Connects
      /\ ~full
      /\ NewArrays(o) # {}
      /\ IF Undone = {} THEN u \in FreeUsers ELSE u \in Undone /\ MayReuse(u)
      /\ SetUp(o, u, a)
      /\ usr' = [usr EXCEPT ![u] = [NewUser(o, a) EXCEPT
                   !.flush = TRUE, !.opending = TRUE, !.dgram = (kind = "dgram")]]
      /\ IF Undone = {}
           THEN /\ outbound' = <<u>> \o outbound
                /\ ring' = Append(ring, u)
                /\ nusers' = nusers + 1
           ELSE UNCHANGED <<outbound, ring, nusers>>
      /\ array' = [Kept(array, obj', usr', calls) EXCEPT
                     ![a] = [NoRequest EXCEPT !.connect = kind,
                               !.blocked = (kind = "tcp"), !.stopped = (kind = "tcp")]]
      /\ UNCHANGED <<flush, ndgram, odone, calls>>

\* destruct_object() of an object without connection.
Destruct(o) ==
  /\ Op /\ Live(o) /\ ~IsUser(o)
  /\ obj' = [obj EXCEPT ![o].state = "dead"]
  /\ UNCHANGED <<array, usr, ring, flush, outbound, countVars, calls>>

\* User::del(): close() is called first when a user object is destructed, and
\* when the other side has closed the connection after the user's role is gone.
CloseCall(o, destruct) == [kind |-> "close", obj |-> o, user |-> obj[o].slot,
                           destruct |-> destruct, array |-> None]

Close(o) ==
  /\ Op /\ Live(o) /\ IsUser(o)
  /\ Len(calls) < MaxCalls
  /\ calls' = Append(calls, CloseCall(o, TRUE))
  /\ UNCHANGED <<obj, array, usr, ring, flush, outbound, countVars>>

\* Mutant: the object stays a user until Comm::flush() finds it destructed.
EndCloseStays ==
  /\ InTask /\ calls # <<>> /\ Last(calls).kind = "close"
  /\ calls' = Front(calls)
  /\ IF Last(calls).destruct
       THEN /\ AddToFlush(Last(calls).user, usr[Last(calls).user])
            /\ obj' = [obj EXCEPT ![Last(calls).obj].state = "dead"]
       ELSE UNCHANGED <<usr, flush, obj>>
  /\ UNCHANGED <<array, ring, outbound, countVars>>

\* close() returns; the object is destructed unless it has been already.
EndClose ==
  /\ InTask /\ calls # <<>> /\ Last(calls).kind = "close"
  /\ calls' = Front(calls)
  /\ IF Last(calls).destruct
       THEN /\ AddToFlush(Last(calls).user, usr[Last(calls).user])
            /\ obj' = [obj EXCEPT ![Last(calls).obj].user = FALSE,
                                  ![Last(calls).obj].state = "dead"]
       ELSE UNCHANGED <<usr, flush, obj>>
  /\ UNCHANGED <<array, ring, outbound, countVars>>

\* An atomic function is called, and returns.
Enter ==
  /\ Op /\ Len(calls) < MaxCalls
  /\ calls' = Append(calls, [kind |-> "atomic", obj |-> obj, array |-> array])
  /\ UNCHANGED <<obj, array, usr, ring, flush, outbound, countVars>>

Return ==
  /\ InTask /\ calls # <<>> /\ Last(calls).kind = "atomic"
  /\ calls' = Front(calls)
  /\ UNCHANGED <<obj, array, usr, ring, flush, outbound, countVars>>

\* An error: an atomic function is undone, a close() leaves its user as it is.
\* Arrays made in the atomic function keep what they have.
Fail ==
  /\ InTask /\ calls # <<>>
  /\ calls' = Front(calls)
  /\ IF Last(calls).kind = "atomic"
       THEN /\ obj' = Last(calls).obj
            /\ array' = Kept([a \in ArrayId |->
                               IF Last(calls).array[a] # None
                               THEN Last(calls).array[a] ELSE array[a]],
                             obj', usr, calls')
       ELSE UNCHANGED <<obj, array>>
  /\ UNCHANGED <<usr, ring, flush, outbound, countVars>>

-----------------------------------------------------------------------------
(* The end of a task: Comm::flush() and Object::clean().                    *)

\* A task, and what is done when it ends: with a user or a kind of connection.
StartTask(kind, arg) ==
  /\ phase' = "task"
  /\ then' = [kind |-> kind, arg |-> arg]

EndTask ==
  /\ phase = "task" /\ calls = <<>> /\ then.kind \notin {"create"}
  /\ phase' = "flush" /\ ops' = 0
  /\ UNCHANGED <<obj, array, usr, ring, flush, outbound, countVars, then, left, calls>>

\* An error that is not caught: receive() does not go on.
TaskFails ==
  /\ phase = "task" /\ calls = <<>>
  /\ phase' = "flush" /\ ops' = 0
  /\ then' = [kind |-> "idle", arg |-> None]
  /\ UNCHANGED <<obj, array, usr, ring, flush, outbound, countVars, left, calls>>

\* The user is taken out of the ring, and the slot is free.
Discard(u) ==
  /\ ring' = RemoveAt(ring, CHOOSE i \in DOMAIN ring : ring[i] = u)
  /\ nusers' = nusers - 1

\* The server is gone: it used what is not there.
Crash(why) ==
  /\ phase' = why
  /\ UNCHANGED <<obj, array, usr, ring, flush, outbound, countVars, then, left, calls, ops>>

\* The first outbound connection is made, or cleaned up with the others, or
\* its object is gone.
FlushOutbound ==
  LET u == Head(outbound)
      o == usr[u].obj
  IN  /\ phase = "flush" /\ outbound # <<>>
      /\ outbound' = Tail(outbound)
      /\ CASE IsUser(o) ->
                /\ usr' = [usr EXCEPT ![u].conn = "open", ![u].flush = FALSE,
                                      ![u].extra = None]
                /\ array' = [array EXCEPT ![usr[u].extra] = NoRequest]
                /\ UNCHANGED <<ring, flush, nusers>>
           [] ~IsUser(o) /\ Live(o) ->
                /\ flush' = <<u>> \o flush
                /\ UNCHANGED <<array, usr, ring, nusers>>
           [] OTHER ->
                /\ Discard(u)
                /\ usr' = [usr EXCEPT ![u] = NoUser]
                /\ array' = Kept(array, obj, usr', calls)
                /\ UNCHANGED flush
      /\ UNCHANGED <<obj, ndgram, odone, loopVars, calls, ops>>

\* What is left of what was accepted once text has been written.
Left(due, text) == IF IsPrefix(text, due) THEN SubSeq(due, Len(text) + 1, Len(due))
                   ELSE <<None>>

\* uflush() of user w with request r, when the connection takes n bytes; n is
\* -1 if it is broken, and None if it cannot be written to now.
UFlush(w, r, n) ==
  LET drained == w.osdone + n = Len(r.buf)
      text == SubSeq(r.buf, w.osdone + 1, w.osdone + n)
  IN  IF r.buf = None \/ n = -1
        THEN [user |-> [w EXCEPT !.output = FALSE,
                                 !.conn = IF r.buf # None THEN "lost" ELSE @],
              request |-> r]
      ELSE IF n = None THEN [user |-> w, request |-> r]
      ELSE [user |-> [w EXCEPT !.output = @ /\ ~drained, !.odone = @ \/ drained,
                               !.osdone = IF drained THEN 0 ELSE @ + n],
            request |-> [r EXCEPT !.buf = IF drained THEN None ELSE @,
                                  !.due = Left(@, text),
                                  !.owed = @ \/ drained]]

\* What the connection of w may answer.
Takes(w, r) ==
  IF ~w.output \/ r.buf = None THEN {None}
  ELSE IF w.conn = "lost" THEN {-1}
  ELSE {None, -1} \cup 0 .. Len(r.buf) - w.osdone

\* odone counts the users that become so.
Drained(w, v) == IF v.odone /\ ~w.odone THEN 1 ELSE 0

\* The first user in the flush list: blocking of input, output, the end of
\* the output, and the end of the connection of an object that is no user.
FlushUser ==
  LET u == Head(flush)
      o == usr[u].obj
      r == array[usr[u].extra]
      w == [usr[u] EXCEPT !.blocked = r.blocked, !.outbuf = FALSE,
                          !.osdone = IF usr[u].outbuf /\ r.changed THEN 0 ELSE @]
      stops == r.stopped /\ ~w.stopped
  IN  /\ phase = "flush" /\ outbound = <<>> /\ flush # <<>>
      /\ \/ w.conn # None
         \/ r.blocked = usr[u].blocked /\ ~stops /\ ~(w.output /\ r.buf # None)
      /\ \E n \in Takes(w, r) :
           LET out == IF w.output THEN UFlush(w, r, n) ELSE [user |-> w, request |-> r]
               x == [out.user EXCEPT !.stopped = r.stopped, !.flush = FALSE]
               q == [out.request EXCEPT !.changed = FALSE,
                                        !.buf = IF stops THEN None ELSE @,
                                        !.due = IF stops THEN <<>> ELSE @]
               sent == odone + Drained(w, x)
           IN  IF IsUser(o)
                 THEN /\ usr' = [usr EXCEPT ![u] = x]
                      /\ array' = Kept([array EXCEPT ![usr[u].extra] = q], obj, usr', calls)
                      /\ odone' = sent
                      /\ UNCHANGED <<obj, ring, nusers, ndgram>>
                 ELSE /\ Discard(u)
                      /\ usr' = [usr EXCEPT ![u] = NoUser]
                      /\ obj' = [obj EXCEPT ![o].extra = None]
                      /\ array' = Kept(array, obj', usr', calls)
                      /\ odone' = IF x.odone THEN sent - 1 ELSE sent
                      /\ ndgram' = IF x.dgram THEN (ndgram - 1) % DgramMod ELSE ndgram
      /\ flush' = Tail(flush)
      /\ UNCHANGED <<outbound, loopVars, calls, ops>>

\* The connection was never made.
FlushNoConnection ==
  LET u == Head(flush)
      r == array[usr[u].extra]
  IN  /\ phase = "flush" /\ outbound = <<>> /\ flush # <<>>
      /\ usr[u].conn = None
      /\ \/ r.blocked # usr[u].blocked
         \/ r.stopped /\ ~usr[u].stopped
         \/ usr[u].output /\ r.buf # None
      /\ Crash("no connection")

\* Destructed objects are cleaned up, and what follows the task goes on.
FlushEnd ==
  /\ phase = "flush" /\ outbound = <<>> /\ flush = <<>>
  /\ phase' = then.kind
  /\ obj' = [o \in Obj |-> IF obj[o].state = "dead" THEN NoObject ELSE obj[o]]
  /\ array' = Kept(array, obj', usr, calls)
  /\ left' = IF then.kind \in {"loop", "input"} THEN left ELSE 0
  /\ UNCHANGED <<usr, ring, flush, outbound, countVars, then, calls, ops>>

-----------------------------------------------------------------------------
(* The main loop: call-outs, and receive() with new connections and input.  *)

CallOutTask ==
  /\ phase = "idle"
  /\ StartTask("idle", None)
  /\ UNCHANGED <<obj, array, usr, ring, flush, outbound, countVars, left, calls, ops>>

Receive ==
  /\ phase = "idle"
  /\ phase' = "accept"
  /\ UNCHANGED <<obj, array, usr, ring, flush, outbound, countVars, then, left, calls, ops>>

\* The driver object is called to get an object for a new connection.
Accept(dgram) ==
  /\ phase = "accept"
  /\ IF dgram THEN ndgram < MaxDgram ELSE nusers < MaxUsers
  /\ StartTask("create", dgram)
  /\ UNCHANGED <<obj, array, usr, ring, flush, outbound, countVars, left, calls, ops>>

\* connect_datagram() does not ask whether there is a user left.
ConnectNoUser(o) ==
  /\ phase = "task" /\ "dgram" \in Connects
  /\ Live(o) /\ ~IsUser(o) /\ ndgram < MaxDgram
  /\ Undone = {} /\ FreeUsers = {}
  /\ Crash("no user")

\* accept(), acceptDgram(): the object gets its user, and open() is called.
CreateUser(o, u) ==
  LET a == NewArray(o)
      dgram == then.arg
  IN  /\ phase = "task" /\ then.kind = "create" /\ calls = <<>>
      /\ Live(o) /\ ~IsUser(o) /\ MayConnect(o)
      /\ u \in FreeUsers /\ NewArrays(o) # {}
      /\ SetUp(o, u, a)
      /\ usr' = [usr EXCEPT ![u] = [NewUser(o, a) EXCEPT !.conn = "open", !.dgram = dgram]]
      /\ array' = [array EXCEPT ![a] = NoRequest]
      /\ ring' = Append(ring, u)
      /\ nusers' = nusers + 1
      /\ ndgram' = IF dgram THEN ndgram + 1 ELSE ndgram
      /\ StartTask("accept", None)
      /\ UNCHANGED <<flush, outbound, odone, left, calls, ops>>

\* There was a user left before the driver object was called.
CreateNoUser ==
  /\ phase = "task" /\ then.kind = "create" /\ calls = <<>>
  /\ FreeUsers = {}
  /\ Crash("no user")

AcceptEnd ==
  /\ phase = "accept"
  /\ phase' = "loop"
  /\ left' = nusers
  /\ UNCHANGED <<obj, array, usr, ring, flush, outbound, countVars, then, calls, ops>>

\* The next user of the ring.
Visit(u) ==
  /\ phase = "loop" /\ left > 0 /\ ring # <<>> /\ u = Head(ring)
  /\ left' = left - 1
  /\ ring' = Append(Tail(ring), u)

Pending(u) ==
  /\ Visit(u) /\ usr[u].opending
  /\ UNCHANGED <<obj, array, usr, flush, outbound, countVars, phase, then, calls, ops>>

\* An outbound connection is made, or refused.
Connected(u, made) ==
  LET o == usr[u].obj
      w == [usr[u] EXCEPT !.opending = FALSE, !.conn = IF made THEN @ ELSE "lost"]
  IN  /\ Visit(u) /\ usr[u].opending
      /\ AddToFlush(u, w)
      /\ obj' = [obj EXCEPT ![o].user = made]
      /\ StartTask("loop", None)
      /\ UNCHANGED <<array, outbound, countVars, calls, ops>>

\* Pending output, and message_done() when there is no more.
Serve(u) ==
  LET o == usr[u].obj
      w == usr[u]
  IN  /\ Visit(u) /\ ~w.opending
      /\ \E n \in Takes(w, Request(o)) :
           LET out == IF w.output THEN UFlush(w, Request(o), n)
                      ELSE [user |-> w, request |-> Request(o)]
           IN  /\ usr' = [usr EXCEPT ![u] = [out.user EXCEPT !.odone = FALSE]]
               /\ Ask(o, [out.request EXCEPT !.owed = FALSE])
               /\ odone' = odone + Drained(w, out.user) - (IF out.user.odone THEN 1 ELSE 0)
               /\ \/ out.user.odone /\ StartTask("input", u)
                  \/ /\ phase' = "input"
                     /\ then' = [kind |-> "input", arg |-> u]
      /\ UNCHANGED <<obj, flush, outbound, nusers, ndgram, calls, ops>>

\* What is read from the connection of a user that was served: nothing, or
\* what receive_message() or receive_datagram() gets.  The loop ends when the
\* object is gone.
Gone(u) == ~InUse(u) \/ ~Live(usr[u].obj)

NoInput(u) ==
  /\ phase = "input" /\ u = then.arg
  /\ phase' = IF Gone(u) THEN "flush" ELSE "loop"
  /\ then' = [kind |-> "idle", arg |-> None]
  /\ UNCHANGED <<obj, array, usr, ring, flush, outbound, countVars, left, calls, ops>>

Input(u) ==
  /\ phase = "input" /\ u = then.arg
  /\ ~Gone(u) /\ ~usr[u].blocked /\ usr[u].conn = "open"
  /\ StartTask(IF usr[u].dgram THEN "loop" ELSE "idle", None)
  /\ UNCHANGED <<obj, array, usr, ring, flush, outbound, countVars, left, calls, ops>>

\* The other side has closed the connection, and there is no more output.
EndOfInput(u) ==
  LET o == usr[u].obj
  IN  /\ phase = "input" /\ u = then.arg
      /\ ~Gone(u) /\ ~usr[u].blocked /\ ~usr[u].dgram /\ ~usr[u].output
      /\ AddToFlush(u, [usr[u] EXCEPT !.conn = "lost"])
      /\ obj' = [obj EXCEPT ![o].user = FALSE]
      /\ calls' = <<CloseCall(o, FALSE)>>
      /\ StartTask("idle", None)
      /\ UNCHANGED <<array, ring, outbound, countVars, left, ops>>

EndLoop ==
  /\ phase = "loop" /\ (left = 0 \/ ring = <<>>)
  /\ phase' = "flush"
  /\ then' = [kind |-> "idle", arg |-> None]
  /\ left' = 0
  /\ UNCHANGED <<obj, array, usr, ring, flush, outbound, countVars, calls, ops>>

Next ==
  \/ \E o \in Obj : \/ NewObject(o) \/ Destruct(o) \/ Close(o) \/ Stop(o)
                    \/ \E b \in Byte : Send(o, b)
                    \/ \E on \in BOOLEAN : Block(o, on)
                    \/ \E u \in Slot : \/ CreateUser(o, u)
                                       \/ \E kind \in Connects : Connect(o, u, kind)
                    \/ ConnectNoUser(o)
  \/ EndClose \/ Enter \/ Return \/ Fail
  \/ EndTask \/ TaskFails \/ FlushOutbound \/ FlushUser \/ FlushNoConnection \/ FlushEnd
  \/ CallOutTask \/ Receive \/ CreateNoUser \/ AcceptEnd \/ EndLoop
  \/ \E dgram \in BOOLEAN : Accept(dgram)
  \/ \E u \in Slot : \/ Pending(u) \/ Serve(u) \/ NoInput(u) \/ Input(u) \/ EndOfInput(u)
                     \/ \E made \in BOOLEAN : Connected(u, made)

Spec == Init /\ [][Next]_vars

-----------------------------------------------------------------------------
BetweenTasks == phase = "idle"

\* Outside of tasks the users in use are those in the ring, each object with
\* the role of a user has one of its own, and nobody else has one: whatever
\* was closed, destructed or undone, and in whichever order (Comm::flush()).
SlotsRight ==
  BetweenTasks =>
    /\ nusers = Len(ring) /\ IsInjective(ring)
    /\ Range(ring) = {u \in Slot : InUse(u)}
    /\ \A u \in Range(ring) : LET o == usr[u].obj
                              IN  Live(o) /\ IsUser(o) /\ obj[o].slot = u
    /\ \A o \in Obj : IsUser(o) => usr[obj[o].slot].obj = o

\* odone, for which receive() does not wait for input, is the number of users
\* for which message_done() is to be called.
DoneCounted == odone = Cardinality({u \in Slot : usr[u].odone})

\* Users, the objects that they are connected to, and the counts that the loop
\* goes by agree.
UsersRight == SlotsRight /\ DoneCounted

\* What is left of the buffer is what has been accepted, is not undone, and has
\* not been written: write() and uflush() send nothing twice, lose nothing and
\* keep the order, when an atomic function that added to a buffer of which a
\* part is done has failed, too.
Rest(u) ==
  LET r == Request(usr[u].obj)
  IN  IF r.buf = None THEN <<>>
      ELSE IF usr[u].flush /\ r.changed THEN r.buf
      ELSE SubSeq(r.buf, usr[u].osdone + 1, Len(r.buf))

Connection(u) == InUse(u) /\ IsUser(usr[u].obj) /\ usr[u].conn # None

OutputKept ==
  \A u \in Slot : Connection(u) => Rest(u) = Request(usr[u].obj).due

\* Outside of tasks the flags of a user, which are not undone, are what its
\* object asks for, which is: block_input() and send_close().
RequestsDone ==
  BetweenTasks =>
    \A u \in Slot : Connection(u) =>
      /\ usr[u].blocked = Request(usr[u].obj).blocked
      /\ usr[u].stopped = Request(usr[u].obj).stopped

\* message_done() is called only when a buffer is drained, once, and not when
\* more has been sent since.
DoneTold ==
  BetweenTasks =>
    \A u \in Slot : Connection(u) /\ usr[u].odone => Request(usr[u].obj).owed

\* What an object asked for has been done when the task is over, and nothing
\* that it did not ask for.
RequestsRight == RequestsDone /\ DoneTold
=============================================================================
