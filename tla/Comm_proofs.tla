----------------------------- MODULE Comm_proofs -----------------------------
(***************************************************************************)
(* An inductive invariant of Comm, and with it the proof that users, output*)
(* and requests are right, when nobody reconnects an object that a user    *)
(* still has to do with.                                                   *)
(*                                                                         *)
(* There are several versions of the objects and their extra arrays: those *)
(* of the running code, and those that the atomic functions which have not *)
(* returned would restore.  Users, their flags and the flush list are not  *)
(* restored, so they have to suit every version: whichever of them is in   *)
(* force at the end of the task, Comm::flush() finds what it asks for.     *)
(***************************************************************************)
EXTENDS Comm, SequenceTheorems, FiniteSetTheorems, TLAPS

ObjectType == [state : {"none", "live", "dead"}, user : BOOLEAN,
               slot : Slot \cup {None}, extra : ArrayId \cup {None}]

UserType == [obj : Obj \cup {None}, extra : ArrayId \cup {None},
             conn : {None, "open", "lost"}, outbuf : BOOLEAN, osdone : Nat,
             dgram : BOOLEAN, flush : BOOLEAN, output : BOOLEAN, odone : BOOLEAN,
             blocked : BOOLEAN, stopped : BOOLEAN, opending : BOOLEAN]

Objects == [Obj -> ObjectType]
Arrays == [ArrayId -> RequestType \cup {None}]
Users == [Slot -> UserType]

CloseType == [kind : {"close"}, obj : Obj, user : Slot, destruct : BOOLEAN, array : {None}]
AtomicType == [kind : {"atomic"}, obj : Objects, array : Arrays]

Phases == {"idle", "accept", "loop", "input", "task", "flush", "no user", "no connection"}
Thens == {"idle", "create", "accept", "loop", "input"}

\* What the variables may hold.
Types ==
  /\ obj \in Objects /\ array \in Arrays /\ usr \in Users
  /\ ring \in Seq(Slot) /\ flush \in Seq(Slot) /\ outbound \in Seq(Slot)
  /\ nusers \in Int /\ odone \in Int
  /\ phase \in Phases /\ then.kind \in Thens
  /\ (then.kind = "create" => then.arg \in BOOLEAN)
  /\ calls \in Seq(CloseType \cup AtomicType)

-----------------------------------------------------------------------------
(* The versions.                                                            *)

\* What user w has still to write of what request r has.
RestOf(w, r) ==
  IF r.buf = None THEN <<>>
  ELSE IF w.flush /\ r.changed THEN r.buf
  ELSE SubSeq(r.buf, w.osdone + 1, Len(r.buf))

\* The fields w of a user and request r in array a suit each other: a user that
\* is not in the flush list does what is asked for, and one that is has the
\* array in which Comm::flush() will look.
Agree(w, a, r) ==
  /\ r \in RequestType
  /\ RestOf(w, r) = r.due
  /\ w.odone => r.owed
  /\ w.stopped => r.stopped
  /\ r.changed => w.flush /\ ~w.stopped
  /\ r.buf # None /\ ~r.changed => w.osdone <= Len(r.buf)
  /\ IF w.flush
     THEN /\ w.extra = a
          /\ w.outbuf => r.buf # None
     ELSE /\ w.blocked = r.blocked /\ w.stopped = r.stopped
          /\ r.buf = None => w.osdone = 0 \/ w.stopped

ArraysOf(o) == {o} \X (1 .. MaxUsers + 1)

\* Object o, a user in the version with objects ob and arrays arr, has a user of
\* its own among us.
Belongs(ob, arr, us, o) ==
  /\ ob[o].state = "live"
  /\ ob[o].slot \in Slot /\ us[ob[o].slot].obj = o
  /\ ob[o].extra \in ArraysOf(o)
  /\ Agree(us[ob[o].slot], ob[o].extra, arr[ob[o].extra])

\* User u was not asked for anything since ob and arr, and now there are cob
\* and carr.
Untouched(ob, arr, us, cob, carr, u) ==
  LET o == us[u].obj
  IN  /\ ob[o].user /\ ob[o].slot = u
      /\ ob[o].extra = cob[o].extra
      /\ arr[ob[o].extra] = carr[ob[o].extra]

Listless(us, u) == us[u].obj # None /\ ~us[u].flush

\* The users suit the version with ob and arr.
Version(ob, arr, us, cob, carr) ==
  /\ \A o \in Obj : ob[o].user => Belongs(ob, arr, us, o)
  /\ \A u \in Slot : Listless(us, u) => Untouched(ob, arr, us, cob, carr, u)

VersionsIn(ob, arr, us, cs) ==
  /\ Version(ob, arr, us, ob, arr)
  /\ \A i \in DOMAIN cs : cs[i].kind = "atomic" =>
                            Version(cs[i].obj, cs[i].array, us, ob, arr)

VersionsRight == VersionsIn(obj, array, usr, calls)

\* The object of a close() call c has been destructed, or it is what it was.
Closing(ob, c) == ob[c.obj].state = "dead" \/ (ob[c.obj].user /\ ob[c.obj].slot = c.user)

ClosesIn(ob, us, cs) ==
  \A i \in DOMAIN cs : cs[i].kind = "close" =>
    /\ us[cs[i].user].obj # None
    /\ cs[i].destruct =>
         /\ Closing(ob, cs[i])
         /\ \A j \in i + 1 .. Len(cs) : cs[j].kind = "atomic" => Closing(cs[j].obj, cs[i])

\* The user of a close() call is still there when it returns.
ClosesRight == ClosesIn(obj, usr, calls)

-----------------------------------------------------------------------------
(* The lists.                                                               *)

RingIn(us, rg, nu) ==
  /\ IsInjective(rg) /\ nu = Len(rg)
  /\ \A u \in Slot : u \in Range(rg) <=> us[u].obj # None

UsersApart(us) ==
  /\ \A u \in Slot : us[u].obj = None => us[u] = NoUser
  /\ \A u, v \in Slot : us[u].obj # None /\ us[u].obj = us[v].obj => u = v
  /\ \A u \in Slot : us[u].flush /\ ~us[u].outbuf => us[u].osdone = 0 \/ us[u].stopped

\* The ring has the users, with an object each.
UsersListed == RingIn(usr, ring, nusers) /\ UsersApart(usr)

\* A user that was not connected has not been asked for anything.
Calm(w) == w.osdone = 0 /\ ~w.outbuf /\ ~w.odone /\ ~w.blocked /\ ~w.stopped

FlushIn(us, fl, ou) ==
  /\ IsInjective(fl) /\ IsInjective(ou)
  /\ Range(fl) \cap Range(ou) = {}
  /\ \A u \in Slot : us[u].flush <=> u \in Range(fl) \cup Range(ou)
  /\ \A u \in Range(ou) : Calm(us[u])

\* A user has its flag when it is in one of the lists of what is to be done.
FlushListed == FlushIn(usr, flush, outbound)

\* Calls are made in tasks, and what tasks ask for is done when they end.
PhaseRight ==
  /\ phase \in {"idle", "accept", "loop", "input", "flush"} => calls = <<>>
  /\ phase \in {"idle", "accept", "loop", "input"} => flush = <<>> /\ outbound = <<>>
  /\ phase = "flush" => then.kind # "create"

\* DoneCounted is that of Comm.
IInv ==
  Types /\ VersionsRight /\ ClosesRight /\ UsersListed /\ FlushListed /\ PhaseRight
        /\ DoneCounted

-----------------------------------------------------------------------------
(* Buffers.                                                                 *)

\* The fields of a request.
LEMMA RequestFields ==
  ASSUME NEW r \in RequestType
  PROVE  /\ r.connect \in {None, "tcp", "dgram"}
         /\ r.blocked \in BOOLEAN /\ r.stopped \in BOOLEAN
         /\ r.buf \in Seq(Byte) \cup {None}
         /\ r.changed \in BOOLEAN /\ r.due \in Seq(Byte) /\ r.owed \in BOOLEAN
         /\ r = [connect |-> r.connect, blocked |-> r.blocked, stopped |-> r.stopped,
                 buf |-> r.buf, changed |-> r.changed, due |-> r.due, owed |-> r.owed]
BY DEF RequestType

\* The end of a string from place n on.
LEMMA EndOf ==
  ASSUME NEW s \in Seq(Byte), NEW n \in 0 .. Len(s)
  PROVE  /\ SubSeq(s, n + 1, Len(s)) \in Seq(Byte)
         /\ Len(SubSeq(s, n + 1, Len(s))) = Len(s) - n
         /\ \A i \in 1 .. Len(s) - n : SubSeq(s, n + 1, Len(s))[i] = s[n + i]
<1>1. n + 1 \in Int /\ Len(s) \in Int /\ n \in Int
  OBVIOUS
<1>2. \A i \in n + 1 .. Len(s) : s[i] \in Byte
  OBVIOUS
<1>3. /\ SubSeq(s, n + 1, Len(s)) \in Seq(Byte)
      /\ Len(SubSeq(s, n + 1, Len(s))) = IF n + 1 <= Len(s) THEN Len(s) - (n + 1) + 1 ELSE 0
      /\ \A i \in 1 .. Len(s) - (n + 1) + 1 :
           SubSeq(s, n + 1, Len(s))[i] = s[(n + 1) + i - 1]
  BY <1>1, <1>2, SubSeqProperties
<1> QED
  BY <1>1, <1>3

\* A part of a string.
LEMMA PartOf ==
  ASSUME NEW s \in Seq(Byte), NEW n \in Nat, NEW m \in Nat, n + m <= Len(s)
  PROVE  /\ SubSeq(s, n + 1, n + m) \in Seq(Byte)
         /\ Len(SubSeq(s, n + 1, n + m)) = m
         /\ \A i \in 1 .. m : SubSeq(s, n + 1, n + m)[i] = s[n + i]
<1>1. n + 1 \in Int /\ n + m \in Int /\ Len(s) \in Nat
  OBVIOUS
<1>2. \A i \in n + 1 .. n + m : s[i] \in Byte
  BY <1>1
<1>3. /\ SubSeq(s, n + 1, n + m) \in Seq(Byte)
      /\ Len(SubSeq(s, n + 1, n + m)) = IF n + 1 <= n + m THEN (n + m) - (n + 1) + 1 ELSE 0
      /\ \A i \in 1 .. (n + m) - (n + 1) + 1 :
           SubSeq(s, n + 1, n + m)[i] = s[(n + 1) + i - 1]
  BY <1>1, <1>2, SubSeqProperties
<1> QED
  BY SMTT(60), <1>1, <1>3

\* When the first m bytes of what is due are written, the rest is left.
LEMMA LeftIs ==
  ASSUME NEW s \in Seq(Byte), NEW n \in Nat, NEW m \in Nat, n + m <= Len(s)
  PROVE  /\ Left(SubSeq(s, n + 1, Len(s)), SubSeq(s, n + 1, n + m)) = SubSeq(s, n + m + 1, Len(s))
         /\ SubSeq(s, n + m + 1, Len(s)) \in Seq(Byte)
         /\ n + m = Len(s) => SubSeq(s, n + m + 1, Len(s)) = <<>>
<1> DEFINE d == SubSeq(s, n + 1, Len(s))
           t == SubSeq(s, n + 1, n + m)
           e == SubSeq(s, n + m + 1, Len(s))
<1>1. Len(s) \in Nat /\ n \in 0 .. Len(s) /\ n + m \in 0 .. Len(s)
  OBVIOUS
<1>2. d \in Seq(Byte) /\ Len(d) = Len(s) - n /\ \A i \in 1 .. Len(s) - n : d[i] = s[n + i]
  BY <1>1, EndOf
<1>3. t \in Seq(Byte) /\ Len(t) = m /\ \A i \in 1 .. m : t[i] = s[n + i]
  BY PartOf
<1>4. /\ e \in Seq(Byte) /\ Len(e) = Len(s) - (n + m)
      /\ \A i \in 1 .. Len(s) - (n + m) : e[i] = s[(n + m) + i]
  BY <1>1, EndOf
<1>5. /\ SubSeq(d, 1, m) \in Seq(Byte) /\ Len(SubSeq(d, 1, m)) = m
      /\ \A i \in 1 .. m : SubSeq(d, 1, m)[i] = d[i]
  <2> HIDE DEF d
  <2>1. 0 + m <= Len(d)
    BY <1>1, <1>2
  <2>2. /\ SubSeq(d, 0 + 1, 0 + m) \in Seq(Byte)
        /\ Len(SubSeq(d, 0 + 1, 0 + m)) = m
        /\ \A i \in 1 .. m : SubSeq(d, 0 + 1, 0 + m)[i] = d[0 + i]
    BY <1>2, <2>1, PartOf
  <2> QED
    BY <2>2
<1>6. SubSeq(d, 1, m) = t
  <2> HIDE DEF d, t
  <2> DEFINE c == SubSeq(d, 1, m)
  <2>1. c \in Seq(Byte) /\ Len(c) = m /\ \A i \in 1 .. m : c[i] = d[i]
    BY <1>5
  <2> HIDE DEF c
  <2>2. \A i \in 1 .. Len(c) : c[i] = t[i]
    <3> TAKE i \in 1 .. Len(c)
    <3>1. i \in 1 .. m /\ i \in 1 .. Len(s) - n
      BY <2>1, <1>1
    <3> QED
      BY <3>1, <2>1, <1>2, <1>3
  <2>3. c = t
    BY <2>1, <2>2, <1>3, SeqEqual, Zenon
  <2> QED
    BY <2>3 DEF c
<1>7. SubSeq(t, 1, m) = t
  BY <1>3, SubSeqFull
<1>8. Left(d, t) = SubSeq(d, m + 1, Len(d))
  <2> HIDE DEF d, t
  <2>1. IsPrefix(t, d)
    BY <1>1, <1>2, <1>3, <1>6, <1>7 DEF IsPrefix
  <2> QED
    BY <2>1, <1>3 DEF Left
<1>9. SubSeq(d, m + 1, Len(d)) = e
  <2> HIDE DEF d, t, e
  <2> DEFINE c == SubSeq(d, m + 1, Len(d))
  <2>1. m \in 0 .. Len(d)
    BY <1>1, <1>2
  <2>2. c \in Seq(Byte) /\ Len(c) = Len(d) - m /\ \A i \in 1 .. Len(d) - m : c[i] = d[m + i]
    BY <2>1, <1>2, EndOf
  <2> HIDE DEF c
  <2>3. Len(c) = Len(e)
    BY <1>1, <1>2, <1>4, <2>2
  <2>4. \A i \in 1 .. Len(c) : c[i] = e[i]
    <3> TAKE i \in 1 .. Len(c)
    <3>1. i \in 1 .. Len(d) - m /\ m + i \in 1 .. Len(s) - n /\ i \in 1 .. Len(s) - (n + m)
      BY <2>2, <1>1, <1>2
    <3>2. n + (m + i) = (n + m) + i
      BY <1>1, <3>1
    <3> QED
      BY <3>1, <3>2, <2>2, <1>2, <1>4
  <2>5. c = e
    BY <2>2, <2>3, <2>4, <1>4, SeqEqual
  <2> QED
    BY <2>5 DEF c
<1>10. n + m = Len(s) => e = <<>>
  BY <1>1, SubSeqEmpty
<1> QED
  BY <1>4, <1>8, <1>9, <1>10

\* What a user has written, what is to be written and what is accepted agree.
Sound(w, r) ==
  /\ r \in RequestType /\ w.osdone \in Nat
  /\ r.buf = None => r.due = <<>>
  /\ r.buf # None => w.osdone <= Len(r.buf) /\ SubSeq(r.buf, w.osdone + 1, Len(r.buf)) = r.due
  /\ w.odone => r.owed

\* uflush() when there is output to wait for.
Served(w, r, n) == IF w.output THEN UFlush(w, r, n) ELSE [user |-> w, request |-> r]

\* What uflush() leaves alone.
Alike(v, w) ==
  /\ v.obj = w.obj /\ v.extra = w.extra /\ v.dgram = w.dgram /\ v.flush = w.flush
  /\ v.outbuf = w.outbuf /\ v.blocked = w.blocked /\ v.stopped = w.stopped
  /\ v.opending = w.opending /\ (w.odone => v.odone)

\* uflush() writes what is next, and keeps the rest.
LEMMA ServedRight ==
  ASSUME NEW w \in UserType, NEW r, Sound(w, r), NEW n \in Takes(w, r)
  PROVE  /\ Served(w, r, n).user \in UserType
         /\ Sound(Served(w, r, n).user, Served(w, r, n).request)
         /\ Alike(Served(w, r, n).user, w)
         /\ Served(w, r, n).request.blocked = r.blocked
         /\ Served(w, r, n).request.stopped = r.stopped
         /\ Served(w, r, n).request.changed = r.changed
         /\ Served(w, r, n).request.buf = None =>
              Served(w, r, n).user.osdone = 0
                \/ (r.buf = None /\ Served(w, r, n).user.osdone = w.osdone)
<1>1. r \in RequestType /\ w.osdone \in Nat
  BY DEF Sound
<1>2. CASE ~w.output
  <2>1. Served(w, r, n) = [user |-> w, request |-> r]
    BY <1>2 DEF Served
  <2> QED
    BY <2>1, <1>1 DEF Alike, Sound
<1>3. CASE w.output /\ (r.buf = None \/ n = -1)
  <2> DEFINE c == IF r.buf # None THEN "lost" ELSE w.conn
             v1 == [w EXCEPT !.output = FALSE]
             v == [v1 EXCEPT !.conn = c]
  <2>1. v1 \in UserType
    BY DEF UserType
  <2>2. c \in {None, "open", "lost"} /\ v1.conn = w.conn
    BY DEF UserType
  <2>3. Served(w, r, n) = [user |-> v, request |-> r]
    BY <1>3, <2>1, <2>2 DEF Served, UFlush
  <2>4. v \in UserType /\ Alike(v, w) /\ v.osdone = w.osdone /\ v.odone = w.odone
    <3> HIDE DEF c
    <3> QED
      BY <2>2 DEF UserType, Alike
  <2> HIDE DEF v
  <2>5. Sound(v, r)
    BY <2>4 DEF Sound
  <2> QED
    BY <2>3, <2>4, <2>5, <1>3 DEF Sound
<1>4. CASE w.output /\ r.buf # None /\ n # -1 /\ n = None
  <2>1. Served(w, r, n) = [user |-> w, request |-> r]
    BY <1>4 DEF Served, UFlush
  <2> QED
    BY <2>1, <1>1 DEF Alike, Sound
<1>5. CASE w.output /\ r.buf # None /\ n # -1 /\ n # None
  <2> DEFINE m == w.osdone
             s == r.buf
  <2>1. s \in Seq(Byte) /\ m \in Nat /\ m <= Len(s)
    BY <1>1, <1>5, RequestFields DEF Sound
  <2>2. n \in Nat /\ m + n <= Len(s)
    <3>1. n \in 0 .. Len(s) - m
      BY <1>5 DEF Takes
    <3> QED
      BY <3>1, <2>1
  <2> DEFINE drained == m + n = Len(s)
             text == SubSeq(s, m + 1, m + n)
             e == SubSeq(s, m + n + 1, Len(s))
             k == IF drained THEN 0 ELSE m + n
             b == IF drained THEN None ELSE s
             out == w.output /\ ~drained
             od == w.odone \/ drained
             ow == r.owed \/ drained
             l == Left(r.due, text)
             v1 == [w EXCEPT !.output = out]
             v2 == [v1 EXCEPT !.odone = od]
             v == [v2 EXCEPT !.osdone = k]
             q1 == [r EXCEPT !.buf = b]
             q2 == [q1 EXCEPT !.due = l]
             q == [q2 EXCEPT !.owed = ow]
  <2>3. r.due = SubSeq(s, m + 1, Len(s))
    BY <1>5 DEF Sound
  <2>4. l = e /\ e \in Seq(Byte) /\ (drained => e = <<>>)
    <3> HIDE DEF m, s
    <3> QED
      BY ZenonT(120), <2>1, <2>2, <2>3, LeftIs
  <2>5. k \in Nat /\ drained \in BOOLEAN /\ w.output \in BOOLEAN /\ w.odone \in BOOLEAN
        /\ out \in BOOLEAN /\ od \in BOOLEAN /\ r.owed \in BOOLEAN /\ ow \in BOOLEAN
    BY <1>1, <2>1, <2>2, RequestFields DEF UserType
  <2>6. Served(w, r, n) = [user |-> v, request |-> q]
    <3> HIDE DEF drained, text, m, s
    <3>1. /\ UFlush(w, r, n).user =
               [w EXCEPT !.output = @ /\ ~drained, !.odone = @ \/ drained,
                         !.osdone = IF drained THEN 0 ELSE @ + n]
          /\ UFlush(w, r, n).request =
               [r EXCEPT !.buf = IF drained THEN None ELSE @, !.due = Left(@, text),
                         !.owed = @ \/ drained]
          /\ UFlush(w, r, n) = [user |-> UFlush(w, r, n).user, request |-> UFlush(w, r, n).request]
      BY <1>5 DEF UFlush, drained, text, m, s
    <3>2. UFlush(w, r, n).user = v
      BY <3>1 DEF UserType, m
    <3>3. UFlush(w, r, n).request = q
      BY <3>1, <1>1 DEF RequestType, s
    <3> QED
      BY <3>1, <3>2, <3>3, <1>5 DEF Served
  <2>7. v \in UserType /\ Alike(v, w) /\ v.osdone = k /\ v.odone = od
    <3> HIDE DEF k, od, out
    <3>1. v1 \in UserType /\ Alike(v1, w) /\ v1.osdone = m /\ v1.odone = w.odone
      BY <2>5 DEF UserType, Alike
    <3>2. v2 \in UserType /\ Alike(v2, v1) /\ v2.osdone = m /\ v2.odone = od
      <4> HIDE DEF v1
      <4> QED
        BY <3>1, <2>5 DEF UserType, Alike, od
    <3>3. v \in UserType /\ Alike(v, v2) /\ v.osdone = k /\ v.odone = od
      <4> HIDE DEF v1, v2
      <4> QED
        BY <3>2, <2>5 DEF UserType, Alike
    <3> HIDE DEF v, v1, v2
    <3> QED
      BY <3>1, <3>2, <3>3 DEF Alike
  <2>8. /\ q \in RequestType /\ q.buf = b /\ q.due = l /\ q.owed = ow
        /\ q.blocked = r.blocked /\ q.stopped = r.stopped /\ q.changed = r.changed
    <3>1. b \in Seq(Byte) \cup {None} /\ l \in Seq(Byte)
      BY <2>1, <2>4
    <3> HIDE DEF b, l, ow, drained, s, m
    <3> QED
      BY <1>1, <3>1, <2>5 DEF RequestType
  <2>9. Sound(v, q)
    <3> HIDE DEF v, q, l, e
    <3>1. CASE drained
      BY <3>1, <2>4, <2>5, <2>7, <2>8 DEF Sound
    <3>2. CASE ~drained
      BY <3>2, <1>1, <1>5, <2>1, <2>2, <2>4, <2>5, <2>7, <2>8 DEF Sound, e
    <3> QED
      BY <3>1, <3>2
  <2>10. q.buf = None => v.osdone = 0
    <3> HIDE DEF v, q
    <3> QED
      BY <1>5, <2>7, <2>8
  <2> HIDE DEF v, q
  <2> QED
    BY <2>6, <2>7, <2>8, <2>9, <2>10
<1> QED
  BY <1>2, <1>3, <1>4, <1>5

\* Fields of a user.
LEMMA UserFields ==
  ASSUME NEW w \in UserType
  PROVE  /\ w.osdone \in Nat /\ w.outbuf \in BOOLEAN /\ w.flush \in BOOLEAN
         /\ w.output \in BOOLEAN /\ w.odone \in BOOLEAN /\ w.blocked \in BOOLEAN
         /\ w.stopped \in BOOLEAN /\ w.opending \in BOOLEAN /\ w.dgram \in BOOLEAN
BY DEF UserType

\* A user that agrees with a request, which has not been changed, is sound.
LEMMA AgreeSound ==
  ASSUME NEW w \in UserType, NEW a, NEW r, Agree(w, a, r)
  PROVE  /\ r \in RequestType
         /\ r.buf = None => r.due = <<>>
         /\ ~r.changed => Sound(w, r)
         /\ r.changed /\ r.buf # None => r.due = r.buf
<1>1. w.osdone \in Nat
  BY UserFields
<1> QED
  BY <1>1 DEF Agree, RestOf, Sound

\* A user that is sound and not in the flush list agrees with a request which
\* is not changed.
LEMMA SoundAgree ==
  ASSUME NEW w \in UserType, NEW a, NEW r, Sound(w, r), ~w.flush, ~r.changed,
         w.blocked = r.blocked, w.stopped = r.stopped,
         r.buf = None => w.osdone = 0 \/ w.stopped
  PROVE  Agree(w, a, r)
BY UserFields DEF Agree, RestOf, Sound

\* The fields that put user w, of whose object a is the array and r what it
\* asks for, in the flush list, after which it may no longer be done.
Marks(x, w, a, r) ==
  /\ x.flush /\ x.obj = w.obj /\ x.osdone = w.osdone /\ x.stopped = w.stopped
  /\ x.odone => w.odone
  /\ x.extra = IF w.flush THEN w.extra ELSE a
  /\ x.outbuf = IF w.flush THEN w.outbuf ELSE r.buf # None

\* A user that is put in the flush list still suits the request.
LEMMA AgreeMarked ==
  ASSUME NEW w, NEW a, NEW r, Agree(w, a, r), NEW x, Marks(x, w, a, r)
  PROVE  Agree(x, a, r)
<1>1. r \in RequestType /\ (x.odone => r.owed) /\ (x.stopped => r.stopped)
      /\ (r.changed => x.flush /\ ~x.stopped)
      /\ (r.buf # None /\ ~r.changed => x.osdone <= Len(r.buf))
  BY DEF Agree, Marks
<1>2. RestOf(x, r) = r.due
  BY DEF Agree, Marks, RestOf
<1>3. x.flush /\ x.extra = a /\ (x.outbuf => r.buf # None)
  BY DEF Agree, Marks
<1> QED
  BY <1>1, <1>2, <1>3 DEF Agree

\* block_input() and send_close().
LEMMA AgreeAsked ==
  ASSUME NEW w, w.flush, NEW a, NEW r, Agree(w, a, r), NEW q \in RequestType,
         q.buf = r.buf, q.changed = r.changed, q.due = r.due, q.owed = r.owed,
         q.stopped = r.stopped \/ q.stopped
  PROVE  Agree(w, a, q)
<1>1. RestOf(w, q) = q.due
  BY DEF Agree, RestOf
<1> QED
  BY <1>1, RequestFields DEF Agree

\* What becomes of a user that is served in receive(), and of its request.
ServedUser(w, r, n) == [Served(w, r, n).user EXCEPT !.odone = FALSE]

ServedRequest(w, r, n) == [Served(w, r, n).request EXCEPT !.owed = FALSE]

\* They suit each other.
LEMMA AgreeServed ==
  ASSUME NEW w \in UserType, ~w.flush, NEW a, NEW r, Agree(w, a, r), NEW n \in Takes(w, r)
  PROVE  /\ Agree(ServedUser(w, r, n), a, ServedRequest(w, r, n))
         /\ ServedUser(w, r, n) \in UserType /\ ServedUser(w, r, n).obj = w.obj
         /\ ~ServedUser(w, r, n).flush /\ ServedUser(w, r, n).odone = FALSE
         /\ Served(w, r, n).user.odone \in BOOLEAN
         /\ w.odone => Served(w, r, n).user.odone
<1> DEFINE x == ServedUser(w, r, n)
           q == ServedRequest(w, r, n)
           v == Served(w, r, n).user
           p == Served(w, r, n).request
<1>1. r \in RequestType /\ ~r.changed /\ Sound(w, r)
  BY AgreeSound DEF Agree
<1>2. /\ v \in UserType /\ Sound(v, p) /\ Alike(v, w)
      /\ p.blocked = r.blocked /\ p.stopped = r.stopped /\ p.changed = r.changed
      /\ p.buf = None => v.osdone = 0 \/ (r.buf = None /\ v.osdone = w.osdone)
  BY <1>1, ServedRight
<1>3. p \in RequestType
  BY <1>2 DEF Sound
<1>0. x = [v EXCEPT !.odone = FALSE] /\ q = [p EXCEPT !.owed = FALSE]
  BY DEF ServedUser, ServedRequest
<1> HIDE DEF v, p, x, q
<1>4. /\ x \in UserType /\ x.osdone = v.osdone /\ x.obj = w.obj /\ x.flush = w.flush
      /\ x.odone = FALSE /\ x.blocked = w.blocked /\ x.stopped = w.stopped
  BY <1>0, <1>2 DEF UserType, Alike
<1>5. /\ q \in RequestType /\ q.buf = p.buf /\ q.due = p.due /\ q.changed = r.changed
      /\ q.blocked = r.blocked /\ q.stopped = r.stopped
  BY <1>0, <1>2, <1>3 DEF RequestType
<1>6. Sound(x, q)
  BY <1>2, <1>4, <1>5 DEF Sound
<1>7. w.blocked = r.blocked /\ w.stopped = r.stopped /\ (r.buf = None => w.osdone = 0 \/ w.stopped)
  BY DEF Agree
<1>8. q.buf = None => x.osdone = 0 \/ x.stopped
  BY <1>2, <1>4, <1>5, <1>7
<1>9. Agree(x, a, q)
  BY <1>1, <1>4, <1>5, <1>6, <1>7, <1>8, SoundAgree
<1>10. v.odone \in BOOLEAN /\ (w.odone => v.odone)
  BY <1>2, UserFields DEF Alike
<1> QED
  BY <1>4, <1>9, <1>10 DEF v, x, q

\* The fields of a user as its flushing starts with them.
Opened(w, r) == [w EXCEPT !.blocked = r.blocked, !.outbuf = FALSE,
                          !.osdone = IF w.outbuf /\ r.changed THEN 0 ELSE @]

\* What it leaves alone.
LEMMA OpenedIs ==
  ASSUME NEW w \in UserType, NEW r \in RequestType
  PROVE  /\ Opened(w, r) \in UserType
         /\ Opened(w, r).osdone = IF w.outbuf /\ r.changed THEN 0 ELSE w.osdone
         /\ Opened(w, r).stopped = w.stopped /\ Opened(w, r).odone = w.odone
         /\ Opened(w, r).obj = w.obj /\ Opened(w, r).blocked = r.blocked
<1> DEFINE k == IF w.outbuf /\ r.changed THEN 0 ELSE w.osdone
<1>1. k \in Nat /\ r.blocked \in BOOLEAN
  BY UserFields, RequestFields
<1> HIDE DEF k
<1>2. Opened(w, r) = [w EXCEPT !.blocked = r.blocked, !.outbuf = FALSE, !.osdone = k]
  BY DEF Opened, UserType, k
<1>3. Opened(w, r) \in UserType /\ Opened(w, r).osdone = k
      /\ Opened(w, r).stopped = w.stopped /\ Opened(w, r).odone = w.odone
      /\ Opened(w, r).obj = w.obj /\ Opened(w, r).blocked = r.blocked
  BY ZenonT(120), <1>1, <1>2 DEF UserType
<1> QED
  BY <1>3 DEF k

\* What becomes of a user of the flush list, and of its request.
FlushedUser(w, r, n) ==
  [Served(Opened(w, r), r, n).user EXCEPT !.stopped = r.stopped, !.flush = FALSE]

\* The end of the output is asked for, and was not before.
Stops(w, r) == r.stopped /\ ~Opened(w, r).stopped

\* What becomes of its request.
FlushedRequest(w, r, n) ==
  [Served(Opened(w, r), r, n).request EXCEPT
     !.changed = FALSE, !.buf = IF Stops(w, r) THEN None ELSE @,
     !.due = IF Stops(w, r) THEN <<>> ELSE @]

\* A user that Comm::flush() took out of the flush list does what was asked for.
LEMMA AgreeFlushed ==
  ASSUME NEW w \in UserType, w.flush, NEW a, NEW r, Agree(w, a, r),
         ~w.outbuf => w.osdone = 0 \/ w.stopped,
         NEW n \in Takes(Opened(w, r), r)
  PROVE  /\ Agree(FlushedUser(w, r, n), a, FlushedRequest(w, r, n))
         /\ FlushedUser(w, r, n) \in UserType /\ FlushedUser(w, r, n).obj = w.obj
         /\ ~FlushedUser(w, r, n).flush
         /\ w.odone => FlushedUser(w, r, n).odone
<1> DEFINE x == FlushedUser(w, r, n)
           q == FlushedRequest(w, r, n)
           stops == Stops(w, r)
           o == Opened(w, r)
           v == Served(o, r, n).user
           p == Served(o, r, n).request
<1>1. r \in RequestType
  BY DEF Agree
<1>2. /\ o \in UserType /\ o.osdone = IF w.outbuf /\ r.changed THEN 0 ELSE w.osdone
      /\ o.stopped = w.stopped /\ o.odone = w.odone
      /\ o.obj = w.obj /\ o.blocked = r.blocked
  BY <1>1, OpenedIs
<1>3. w.osdone \in Nat /\ o.osdone \in Nat
  BY <1>2, UserFields
<1>4. Sound(o, r)
  <2> HIDE DEF o
  <2>1. r.buf = None => r.due = <<>>
    BY AgreeSound
  <2>2. o.odone => r.owed
    BY <1>2 DEF Agree
  <2>3. ASSUME r.buf # None
        PROVE  o.osdone <= Len(r.buf) /\ SubSeq(r.buf, o.osdone + 1, Len(r.buf)) = r.due
    <3>1. r.buf \in Seq(Byte)
      BY <1>1, <2>3, RequestFields
    <3>2. CASE r.changed
      <4>1. r.due = r.buf
        BY <2>3, <3>2, AgreeSound
      <4>2. ~w.stopped
        BY <3>2 DEF Agree
      <4>3. o.osdone = 0
        BY <1>2, <3>2, <4>2
      <4>4. SubSeq(r.buf, 1, Len(r.buf)) = r.buf
        BY <3>1, SubSeqFull
      <4> QED
        BY <3>1, <4>1, <4>3, <4>4
    <3>3. CASE ~r.changed
      <4>1. Sound(w, r)
        BY <3>3, AgreeSound
      <4> QED
        BY <2>3, <3>3, <4>1, <1>2 DEF Sound
    <3> QED
      BY <3>2, <3>3
  <2> QED
    BY <1>1, <1>3, <2>1, <2>2, <2>3 DEF Sound
<1>5. r.buf = None => w.osdone = 0 \/ w.stopped
  BY DEF Agree
<1>6. /\ v \in UserType /\ Sound(v, p) /\ Alike(v, o)
      /\ p.blocked = r.blocked /\ p.stopped = r.stopped
      /\ p.buf = None => v.osdone = 0 \/ (r.buf = None /\ v.osdone = o.osdone)
  <2> HIDE DEF o
  <2> QED
    BY <1>2, <1>4, ServedRight DEF o
<1>7. p \in RequestType
  BY <1>6 DEF Sound
<1>0. /\ x = [v EXCEPT !.stopped = r.stopped, !.flush = FALSE]
      /\ q = [p EXCEPT !.changed = FALSE, !.buf = IF stops THEN None ELSE @,
                       !.due = IF stops THEN <<>> ELSE @]
  BY DEF FlushedUser, FlushedRequest
<1>8. r.stopped \in BOOLEAN /\ stops \in BOOLEAN /\ stops = (r.stopped /\ ~w.stopped)
  BY <1>1, <1>2, RequestFields, UserFields DEF Stops
<1> HIDE DEF v, p, o, x, q, stops
<1>9. /\ x \in UserType /\ x.obj = w.obj /\ x.stopped = r.stopped /\ ~x.flush
      /\ x.osdone = v.osdone /\ x.odone = v.odone /\ x.blocked = r.blocked
  BY ZenonT(120), <1>0, <1>2, <1>6, <1>8 DEF UserType, Alike
<1> DEFINE b == IF stops THEN None ELSE p.buf
           d == IF stops THEN <<>> ELSE p.due
<1>10. b \in Seq(Byte) \cup {None} /\ d \in Seq(Byte)
  BY <1>7, RequestFields
<1>11. q = [p EXCEPT !.changed = FALSE, !.buf = b, !.due = d]
  BY <1>0, <1>7 DEF RequestType
<1>12. /\ q \in RequestType /\ q.buf = b /\ q.due = d /\ q.owed = p.owed /\ ~q.changed
       /\ q.blocked = r.blocked /\ q.stopped = r.stopped
  <2> HIDE DEF b, d
  <2> QED
    BY <1>6, <1>7, <1>10, <1>11 DEF RequestType
<1>13. Sound(x, q)
  <2>1. CASE stops
    BY <2>1, <1>3, <1>6, <1>9, <1>12, UserFields DEF Sound
  <2>2. CASE ~stops
    BY <2>2, <1>6, <1>9, <1>12 DEF Sound
  <2> QED
    BY <2>1, <2>2
<1>14. q.buf = None => x.osdone = 0 \/ x.stopped
  <2>1. w.stopped => r.stopped
    BY DEF Agree
  <2>2. CASE stops
    BY <2>2, <1>8, <1>9
  <2>3. CASE ~stops
    BY <2>1, <2>3, <1>2, <1>5, <1>6, <1>8, <1>9, <1>12
  <2> QED
    BY <2>2, <2>3
<1>15. Agree(x, a, q)
  <2> HIDE DEF b, d
  <2> QED
    BY <1>9, <1>12, <1>13, <1>14, SoundAgree
<1>16. w.odone => x.odone
  BY <1>2, <1>6, <1>9 DEF Alike
<1> QED
  BY <1>9, <1>15, <1>16 DEF x, q

\* What write() leaves of the buffer, and the request with byte b.
OldText(y, r) == IF r.buf = None THEN <<>> ELSE SubSeq(r.buf, Done(y, r) + 1, Len(r.buf))

\* What becomes of the request.
Sent(y, r, b) ==
  [r EXCEPT !.buf = Append(OldText(y, r), b), !.changed = TRUE,
            !.due = Append(@, b), !.owed = @ /\ ~(r.buf = None)]

\* write() adds to what is due, whatever part of the buffer is done.
LEMMA AgreeSent ==
  ASSUME NEW w \in UserType, NEW a, NEW r, Agree(w, a, r), ~r.stopped,
         w.flush /\ ~w.outbuf => w.osdone = 0 \/ w.stopped,
         NEW x, Marks(x, w, a, r), r.buf = None => ~x.odone,
         NEW y, Marks(y, w, a, r), NEW b \in Byte
  PROVE  Agree(x, a, Sent(y, r, b))
<1>1. r \in RequestType /\ ~w.stopped
  BY DEF Agree
<1>2. r.due \in Seq(Byte) /\ r.buf \in Seq(Byte) \cup {None} /\ w.osdone \in Nat
      /\ r.changed \in BOOLEAN /\ r.owed \in BOOLEAN
  BY <1>1, RequestFields, UserFields
<1>3. OldText(y, r) = r.due
  <2>1. CASE r.buf = None
    BY <2>1, AgreeSound DEF OldText
  <2>2. CASE r.buf # None /\ r.changed
    <3>1. Done(y, r) = 0
      BY <2>2 DEF Done
    <3>2. SubSeq(r.buf, 1, Len(r.buf)) = r.buf
      BY <1>2, <2>2, SubSeqFull
    <3> QED
      BY <2>2, <3>1, <3>2, AgreeSound DEF OldText
  <2>3. CASE r.buf # None /\ ~r.changed
    <3>1. SubSeq(r.buf, w.osdone + 1, Len(r.buf)) = r.due
      BY <2>3, AgreeSound DEF Sound
    <3>2. Done(y, r) = w.osdone
      BY <1>1, <2>3 DEF Done, Marks
    <3> QED
      BY <2>3, <3>1, <3>2 DEF OldText
  <2> QED
    BY <2>1, <2>2, <2>3
<1> DEFINE d == Append(r.due, b)
           ow == r.owed /\ ~(r.buf = None)
           q == Sent(y, r, b)
<1>4. d \in Seq(Byte) /\ ow \in BOOLEAN /\ d # None
  <2>1. d \in Seq(Byte)
    BY <1>2, AppendProperties
  <2> QED
    BY <2>1, <1>2, CommAssumption
<1>5. q = [r EXCEPT !.buf = d, !.changed = TRUE, !.due = d, !.owed = ow]
  BY <1>1, <1>3 DEF Sent, RequestType
<1>6. /\ q \in RequestType /\ q.buf = d /\ q.due = d /\ q.changed /\ q.owed = ow
      /\ q.blocked = r.blocked /\ q.stopped = r.stopped
  <2> HIDE DEF d, ow, q
  <2> QED
    BY <1>1, <1>4, <1>5 DEF RequestType
<1> HIDE DEF d, q
<1>7. RestOf(x, q) = q.due
  BY <1>4, <1>6 DEF RestOf, Marks
<1>8. x.flush /\ x.extra = a /\ ~x.stopped /\ (x.odone => w.odone)
  BY <1>1 DEF Agree, Marks
<1>9. x.odone => q.owed
  BY <1>6, <1>8 DEF Agree
<1> QED
  BY <1>4, <1>6, <1>7, <1>8, <1>9 DEF Agree, q

\* The array of a new user.
LEMMA AgreeNew ==
  ASSUME NEW x, x.osdone = 0, ~x.odone, ~x.outbuf, x.blocked = FALSE, x.stopped = FALSE,
         x.flush \in BOOLEAN, NEW q \in RequestType, q.buf = None, ~q.changed,
         q.due = <<>>, ~x.flush => ~q.blocked /\ ~q.stopped
  PROVE  Agree(x, x.extra, q)
<1>1. q.blocked \in BOOLEAN /\ q.stopped \in BOOLEAN
  BY RequestFields
<1>2. RestOf(x, q) = q.due
  BY DEF RestOf
<1> QED
  BY <1>1, <1>2 DEF Agree

-----------------------------------------------------------------------------
(* Versions.                                                                *)

\* An object has one user.
Unique(us) ==
  \A u, v \in Slot : us[u].obj # None /\ us[u].obj = us[v].obj => u = v

\* The user of an object that is a user in a version.
LEMMA VersionUser ==
  ASSUME NEW ob, NEW arr, NEW us, NEW cob, NEW carr, Version(ob, arr, us, cob, carr),
         Unique(us), NEW u \in Slot, us[u].obj \in Obj, ob[us[u].obj].user
  PROVE  LET o == us[u].obj
         IN  /\ ob[o].slot = u /\ ob[o].state = "live"
             /\ ob[o].extra \in ArraysOf(o)
             /\ Agree(us[u], ob[o].extra, arr[ob[o].extra])
<1> DEFINE o == us[u].obj
<1>1. Belongs(ob, arr, us, o)
  BY DEF Version
<1>2. ob[o].slot \in Slot /\ us[ob[o].slot].obj = us[u].obj /\ us[u].obj # None
  BY <1>1, CommAssumption DEF Belongs
<1>3. ob[o].slot = u
  BY <1>2 DEF Unique
<1> QED
  BY <1>1, <1>3 DEF Belongs

\* A user that is not in the flush list does what its object asks for.
LEMMA ListlessUser ==
  ASSUME NEW ob, NEW arr, NEW us \in Users, Version(ob, arr, us, ob, arr),
         NEW u \in Slot, Listless(us, u)
  PROVE  LET o == us[u].obj
         IN  /\ o \in Obj /\ ob[o].user /\ ob[o].slot = u /\ ob[o].state = "live"
             /\ ob[o].extra \in ArraysOf(o)
             /\ Agree(us[u], ob[o].extra, arr[ob[o].extra])
<1> DEFINE o == us[u].obj
<1>1. Untouched(ob, arr, us, ob, arr, u)
  BY DEF Version
<1>2. us[u] \in UserType
  BY DEF Users
<1>3. o \in Obj
  BY <1>2 DEF UserType, Listless
<1>4. ob[o].user /\ ob[o].slot = u
  BY <1>1 DEF Untouched
<1>5. Belongs(ob, arr, us, o)
  BY <1>3, <1>4 DEF Version
<1> QED
  BY <1>3, <1>4, <1>5 DEF Belongs

\* Users other than u were not asked for anything.
Unasked(us, u, cob, carr, cob2, carr2) ==
  \A v \in Slot \ {u} : Listless(us, v) =>
    /\ cob2[us[v].obj].extra = cob[us[v].obj].extra
    /\ carr2[cob[us[v].obj].extra] = carr[cob[us[v].obj].extra]

\* A version that an atomic function would restore, when u is put in the flush
\* list for what is asked of the running code.
LEMMA MarkVersion ==
  ASSUME NEW ob, NEW arr, NEW us \in Users, NEW cob, NEW carr, NEW cob2, NEW carr2,
         Version(ob, arr, us, cob, carr), NEW u \in Slot, NEW x,
         Marks(x, us[u], cob[us[u].obj].extra, carr[cob[us[u].obj].extra]),
         Unasked(us, u, cob, carr, cob2, carr2)
  PROVE  Version(ob, arr, [us EXCEPT ![u] = x], cob2, carr2)
<1> DEFINE us2 == [us EXCEPT ![u] = x]
<1>1. us2[u] = x /\ \A v \in Slot \ {u} : us2[v] = us[v]
  BY DEF Users
<1> HIDE DEF us2
<1>2. ASSUME NEW o \in Obj, ob[o].user
      PROVE  Belongs(ob, arr, us2, o)
  <2>1. Belongs(ob, arr, us, o)
    BY <1>2 DEF Version
  <2> DEFINE s == ob[o].slot
             a == ob[o].extra
  <2>2. s \in Slot /\ us[s].obj = o /\ Agree(us[s], a, arr[a])
    BY <2>1 DEF Belongs
  <2>3. CASE s # u
    <3>1. us2[s] = us[s]
      BY <1>1, <2>2, <2>3
    <3> QED
      BY <2>1, <3>1 DEF Belongs
  <2>4. CASE s = u
    <3>1. o # None
      BY CommAssumption
    <3>2. ~us[u].flush => a = cob[o].extra /\ arr[a] = carr[a]
      BY <2>2, <2>4, <3>1 DEF Version, Listless, Untouched
    <3>3. Marks(x, us[u], a, arr[a])
      BY <2>2, <2>4, <3>2 DEF Marks
    <3>4. Agree(x, a, arr[a])
      BY <2>2, <2>4, <3>3, AgreeMarked
    <3>5. x.obj = o
      BY <2>2, <2>4 DEF Marks
    <3> QED
      BY <1>1, <2>1, <2>4, <3>4, <3>5 DEF Belongs
  <2> QED
    BY <2>3, <2>4
<1>3. ASSUME NEW v \in Slot, Listless(us2, v)
      PROVE  Untouched(ob, arr, us2, cob2, carr2, v)
  <2>1. v # u
    BY <1>1, <1>3 DEF Listless, Marks
  <2>2. us2[v] = us[v] /\ Listless(us, v)
    BY <1>1, <1>3, <2>1 DEF Listless
  <2>3. Untouched(ob, arr, us, cob, carr, v)
    BY <2>2 DEF Version
  <2> QED
    BY SMTT(60), <2>1, <2>2, <2>3 DEF Untouched, Unasked
<1> QED
  BY <1>2, <1>3 DEF Version, us2

\* The same when slot u, of which the version has no use, is for another object.
LEMMA ReplaceVersion ==
  ASSUME NEW ob, NEW arr, NEW us \in Users, NEW cob, NEW carr, NEW cob2, NEW carr2,
         Version(ob, arr, us, cob, carr), NEW u \in Slot, NEW x, x.flush,
         \A o \in Obj : ob[o].user => ob[o].slot # u,
         Unasked(us, u, cob, carr, cob2, carr2)
  PROVE  Version(ob, arr, [us EXCEPT ![u] = x], cob2, carr2)
<1> DEFINE us2 == [us EXCEPT ![u] = x]
<1>1. us2[u] = x /\ \A v \in Slot \ {u} : us2[v] = us[v]
  BY DEF Users
<1> HIDE DEF us2
<1>2. ASSUME NEW o \in Obj, ob[o].user
      PROVE  Belongs(ob, arr, us2, o)
  <2>1. Belongs(ob, arr, us, o) /\ ob[o].slot # u
    BY <1>2 DEF Version
  <2>2. us2[ob[o].slot] = us[ob[o].slot]
    BY <1>1, <2>1 DEF Belongs
  <2> QED
    BY <2>1, <2>2 DEF Belongs
<1>3. ASSUME NEW v \in Slot, Listless(us2, v)
      PROVE  Untouched(ob, arr, us2, cob2, carr2, v)
  <2>1. v # u
    BY <1>1, <1>3 DEF Listless
  <2>2. us2[v] = us[v] /\ Listless(us, v)
    BY <1>1, <1>3, <2>1 DEF Listless
  <2>3. Untouched(ob, arr, us, cob, carr, v)
    BY <2>2 DEF Version
  <2> QED
    BY <2>1, <2>2, <2>3 DEF Untouched, Unasked
<1> QED
  BY <1>2, <1>3 DEF Version, us2

\* Objects other than o are as they were, unless they are users no more, and
\* user u is not theirs.
Others(us, u, o, cob, carr, cob2, carr2) ==
  /\ \A p \in Obj \ {o} : cob2[p].user =>
       /\ cob2[p] = cob[p] /\ cob[p].slot # u
       /\ carr2[cob[p].extra] = carr[cob[p].extra]
  /\ \A v \in Slot \ {u} : Listless(us, v) => cob2[us[v].obj] = cob[us[v].obj]

\* The version of the running code when user u and object o change.
LEMMA CurrentVersion ==
  ASSUME NEW us \in Users, NEW cob, NEW carr, NEW cob2, NEW carr2,
         Version(cob, carr, us, cob, carr), NEW u \in Slot, NEW x, NEW o \in Obj,
         Others(us, u, o, cob, carr, cob2, carr2),
         cob2[o].user => Belongs(cob2, carr2, [us EXCEPT ![u] = x], o),
         x.obj # None /\ ~x.flush => cob2[x.obj].user /\ cob2[x.obj].slot = u
  PROVE  Version(cob2, carr2, [us EXCEPT ![u] = x], cob2, carr2)
<1> DEFINE us2 == [us EXCEPT ![u] = x]
<1>1. us2[u] = x /\ \A v \in Slot \ {u} : us2[v] = us[v]
  BY DEF Users
<1> HIDE DEF us2
<1>2. ASSUME NEW p \in Obj, cob2[p].user
      PROVE  Belongs(cob2, carr2, us2, p)
  <2>1. CASE p = o
    BY <1>2, <2>1 DEF us2
  <2>2. CASE p # o
    <3>1. cob2[p] = cob[p] /\ cob[p].slot # u /\ carr2[cob[p].extra] = carr[cob[p].extra]
      BY <1>2, <2>2 DEF Others
    <3>2. Belongs(cob, carr, us, p)
      BY <1>2, <3>1 DEF Version
    <3>3. us2[cob[p].slot] = us[cob[p].slot]
      BY <1>1, <3>1, <3>2 DEF Belongs
    <3> QED
      BY <3>1, <3>2, <3>3 DEF Belongs
  <2> QED
    BY <2>1, <2>2
<1>3. ASSUME NEW v \in Slot, Listless(us2, v)
      PROVE  Untouched(cob2, carr2, us2, cob2, carr2, v)
  <2>1. CASE v = u
    BY <1>1, <1>3, <2>1 DEF Untouched, Listless
  <2>2. CASE v # u
    <3>1. us2[v] = us[v] /\ Listless(us, v)
      BY <1>1, <1>3, <2>2 DEF Listless
    <3>2. cob2[us[v].obj] = cob[us[v].obj]
      BY <2>2, <3>1 DEF Others
    <3>3. Untouched(cob, carr, us, cob, carr, v)
      BY <3>1 DEF Version
    <3> QED
      BY <3>1, <3>2, <3>3 DEF Untouched
  <2> QED
    BY <2>1, <2>2
<1> QED
  BY <1>2, <1>3 DEF Version, us2

\* A version of which the arrays in use are the same.
LEMMA SameVersion ==
  ASSUME NEW ob, NEW arr, NEW arr2, NEW us, NEW cob, NEW carr, NEW cob2, NEW carr2,
         Version(ob, arr, us, cob, carr),
         \A o \in Obj : ob[o].user => arr2[ob[o].extra] = arr[ob[o].extra],
         \A v \in Slot : Listless(us, v) =>
           /\ ob[us[v].obj].extra = cob2[us[v].obj].extra
           /\ arr2[ob[us[v].obj].extra] = carr2[cob2[us[v].obj].extra]
  PROVE  Version(ob, arr2, us, cob2, carr2)
<1>1. ASSUME NEW o \in Obj, ob[o].user
      PROVE  Belongs(ob, arr2, us, o)
  BY <1>1 DEF Version, Belongs
<1>2. ASSUME NEW v \in Slot, Listless(us, v)
      PROVE  Untouched(ob, arr2, us, cob2, carr2, v)
  BY <1>2 DEF Version, Untouched
<1> QED
  BY <1>1, <1>2 DEF Version

\* Arrays that are held are kept.
LEMMA KeptIs ==
  ASSUME NEW arr \in Arrays, NEW ob, NEW us, NEW cs
  PROVE  /\ Kept(arr, ob, us, cs) \in Arrays
         /\ \A o \in Obj : ob[o].extra \in ArrayId =>
                             Kept(arr, ob, us, cs)[ob[o].extra] = arr[ob[o].extra]
<1> DEFINE saved == {cs[i].obj : i \in {j \in DOMAIN cs : cs[j].kind = "atomic"}}
           held == {t[o].extra : t \in saved \cup {ob}, o \in Obj}
                     \cup {us[u].extra : u \in {v \in Slot : us[v].flush}}
           k == [a \in ArrayId |-> IF a \in held THEN arr[a] ELSE None]
<1>1. Kept(arr, ob, us, cs) = k
  BY DEF Kept
<1>2. \A o \in Obj : ob[o].extra \in held
  OBVIOUS
<1> HIDE DEF held
<1>3. k \in Arrays
  BY DEF Arrays
<1>4. \A o \in Obj : ob[o].extra \in ArrayId => k[ob[o].extra] = arr[ob[o].extra]
  BY <1>2
<1> QED
  BY <1>1, <1>3, <1>4

\* Arrays of objects are arrays, of one object each.
LEMMA ArraysApart ==
  ASSUME NEW o, NEW p, NEW a \in ArraysOf(o), NEW b \in ArraysOf(p)
  PROVE  /\ o \in Obj => a \in ArrayId
         /\ o # p => a # b
BY DEF ArraysOf, ArrayId

-----------------------------------------------------------------------------
(* Lists of users, and how many users are done.                             *)

\* Who is in a list.
LEMMA RangeIs ==
  ASSUME NEW s \in Seq(Slot)
  PROVE  /\ Len(s) \in Nat /\ DOMAIN s = 1 .. Len(s)
         /\ \A i \in 1 .. Len(s) : s[i] \in Slot /\ s[i] \in Range(s)
         /\ \A u : u \in Range(s) <=> \E i \in 1 .. Len(s) : s[i] = u
         /\ Range(s) \subseteq Slot
         /\ IsInjective(s) <=> \A i, j \in 1 .. Len(s) : s[i] = s[j] => i = j
<1>1. Len(s) \in Nat /\ DOMAIN s = 1 .. Len(s) /\ \A i \in 1 .. Len(s) : s[i] \in Slot
  OBVIOUS
<1>2. \A u : u \in Range(s) <=> \E i \in 1 .. Len(s) : s[i] = u
  BY <1>1, Zenon DEF Range
<1>3. IsInjective(s) <=> \A i, j \in 1 .. Len(s) : s[i] = s[j] => i = j
  BY <1>1, Zenon DEF IsInjective
<1>4. \A i \in 1 .. Len(s) : s[i] \in Range(s)
  BY <1>2
<1>5. Range(s) \subseteq Slot
  BY <1>1, <1>2
<1> QED
  BY <1>1, <1>2, <1>3, <1>4, <1>5, Zenon

\* A user is put at the end of a list.
LEMMA Appended ==
  ASSUME NEW s \in Seq(Slot), NEW u \in Slot
  PROVE  /\ Append(s, u) \in Seq(Slot) /\ Len(Append(s, u)) = Len(s) + 1
         /\ Range(Append(s, u)) = Range(s) \cup {u}
         /\ IsInjective(s) /\ u \notin Range(s) => IsInjective(Append(s, u))
<1> DEFINE t == Append(s, u)
<1>1. /\ t \in Seq(Slot) /\ Len(t) = Len(s) + 1 /\ t[Len(s) + 1] = u
      /\ \A i \in 1 .. Len(s) : t[i] = s[i]
  BY AppendProperties
<1> HIDE DEF t
<1>2. Len(s) \in Nat
  OBVIOUS
<1>3. ASSUME NEW v
      PROVE  v \in Range(t) <=> v \in Range(s) \cup {u}
  <2>1. v \in Range(t) <=> \E i \in 1 .. Len(t) : t[i] = v
    BY <1>1, RangeIs
  <2>2. v \in Range(s) <=> \E i \in 1 .. Len(s) : s[i] = v
    BY RangeIs
  <2>3. (\E i \in 1 .. Len(t) : t[i] = v) <=> (v = u \/ \E i \in 1 .. Len(s) : s[i] = v)
    BY <1>1, <1>2
  <2> QED
    BY <2>1, <2>2, <2>3
<1>4. ASSUME IsInjective(s), u \notin Range(s)
      PROVE  IsInjective(t)
  <2>1. \A i, j \in 1 .. Len(s) : s[i] = s[j] => i = j
    BY <1>4, RangeIs
  <2>2. \A i \in 1 .. Len(s) : s[i] # u
    BY <1>4, RangeIs
  <2>3. \A i, j \in 1 .. Len(t) : t[i] = t[j] => i = j
    BY <1>1, <1>2, <2>1, <2>2
  <2> QED
    BY <2>3, <1>1, RangeIs
<1>5. Range(t) = Range(s) \cup {u}
  BY <1>3
<1> QED
  BY <1>1, <1>4, <1>5 DEF t

\* A user is put at the start of a list.
LEMMA Prepended ==
  ASSUME NEW s \in Seq(Slot), NEW u \in Slot
  PROVE  /\ <<u>> \o s \in Seq(Slot) /\ <<u>> \o s # <<>>
         /\ Range(<<u>> \o s) = Range(s) \cup {u}
         /\ IsInjective(s) /\ u \notin Range(s) => IsInjective(<<u>> \o s)
<1> DEFINE t == <<u>> \o s
<1>1. /\ t \in Seq(Slot) /\ Len(t) = Len(s) + 1 /\ t[1] = u
      /\ \A i \in 1 .. Len(t) : i > 1 => t[i] = s[i - 1]
  <2>1. <<u>> \in Seq(Slot) /\ Len(<<u>>) = 1 /\ <<u>>[1] = u
    OBVIOUS
  <2>2. /\ t \in Seq(Slot) /\ Len(t) = Len(<<u>>) + Len(s)
        /\ \A i \in 1 .. Len(<<u>>) + Len(s) :
             t[i] = IF i <= Len(<<u>>) THEN <<u>>[i] ELSE s[i - Len(<<u>>)]
    BY <2>1, ConcatProperties
  <2> HIDE DEF t
  <2>3. Len(s) \in Nat
    OBVIOUS
  <2> QED
    BY <2>1, <2>2, <2>3
<1> HIDE DEF t
<1>2. Len(s) \in Nat
  OBVIOUS
<1>3. ASSUME NEW v
      PROVE  v \in Range(t) <=> v \in Range(s) \cup {u}
  <2>1. v \in Range(t) <=> \E i \in 1 .. Len(t) : t[i] = v
    BY <1>1, RangeIs
  <2>2. v \in Range(s) <=> \E i \in 1 .. Len(s) : s[i] = v
    BY RangeIs
  <2>3. ASSUME NEW i \in 1 .. Len(s), s[i] = v
        PROVE  \E j \in 1 .. Len(t) : t[j] = v
    <3>1. i + 1 \in 1 .. Len(t) /\ i + 1 > 1 /\ (i + 1) - 1 = i
      BY <1>1, <1>2
    <3> QED
      BY <3>1, <2>3, <1>1
  <2>4. ASSUME NEW i \in 1 .. Len(t), t[i] = v, v # u
        PROVE  \E j \in 1 .. Len(s) : s[j] = v
    <3>1. i > 1
      BY <2>4, <1>1, <1>2
    <3>2. i - 1 \in 1 .. Len(s)
      BY <3>1, <1>1, <1>2
    <3> QED
      BY <3>1, <3>2, <2>4, <1>1
  <2>5. 1 \in 1 .. Len(t)
    BY <1>1, <1>2
  <2> QED
    BY <1>1, <2>1, <2>2, <2>3, <2>4, <2>5
<1>4. ASSUME IsInjective(s), u \notin Range(s)
      PROVE  IsInjective(t)
  <2>1. \A i, j \in 1 .. Len(s) : s[i] = s[j] => i = j
    BY <1>4, RangeIs
  <2>2. \A i \in 1 .. Len(s) : s[i] # u
    BY <1>4, RangeIs
  <2>3. ASSUME NEW i \in 1 .. Len(t), NEW j \in 1 .. Len(t), t[i] = t[j]
        PROVE  i = j
    <3>1. CASE i = 1 /\ j = 1
      BY <3>1
    <3>2. CASE i = 1 /\ j > 1
      <4>1. j - 1 \in 1 .. Len(s) /\ t[j] = s[j - 1]
        BY <3>2, <1>1, <1>2
      <4> QED
        BY <4>1, <3>2, <2>2, <2>3, <1>1
    <3>3. CASE i > 1 /\ j = 1
      <4>1. i - 1 \in 1 .. Len(s) /\ t[i] = s[i - 1]
        BY <3>3, <1>1, <1>2
      <4> QED
        BY <4>1, <3>3, <2>2, <2>3, <1>1
    <3>4. CASE i > 1 /\ j > 1
      <4>1. j - 1 \in 1 .. Len(s) /\ t[j] = s[j - 1] /\ i - 1 \in 1 .. Len(s) /\ t[i] = s[i - 1]
        BY <3>4, <1>1, <1>2
      <4>2. i - 1 = j - 1
        BY <4>1, <2>1, <2>3
      <4> QED
        BY <4>2, <1>2
    <3> QED
      BY <3>1, <3>2, <3>3, <3>4, <1>2
  <2> QED
    BY <2>3, <1>1, RangeIs
<1>5. Range(t) = Range(s) \cup {u}
  BY <1>3
<1>6. t # <<>>
  BY <1>1, <1>2
<1> QED
  BY <1>1, <1>4, <1>5, <1>6 DEF t

\* What is left of a list without its first user.
LEMMA Tailed ==
  ASSUME NEW s \in Seq(Slot), s # <<>>
  PROVE  /\ Tail(s) \in Seq(Slot) /\ Head(s) \in Slot /\ Head(s) \in Range(s)
         /\ Len(Tail(s)) = Len(s) - 1
         /\ IsInjective(s) => IsInjective(Tail(s)) /\ Range(Tail(s)) = Range(s) \ {Head(s)}
<1> DEFINE t == Tail(s)
<1>1. /\ t \in Seq(Slot) /\ Len(t) = Len(s) - 1 /\ Head(s) = s[1]
      /\ \A i \in 1 .. Len(t) : t[i] = s[i + 1]
  BY HeadTailProperties
<1> HIDE DEF t
<1>2. Len(s) \in Nat /\ Len(s) >= 1 /\ 1 \in 1 .. Len(s)
  OBVIOUS
<1>3. ASSUME IsInjective(s)
      PROVE  IsInjective(t) /\ Range(t) = Range(s) \ {s[1]}
  <2>1. \A i, j \in 1 .. Len(s) : s[i] = s[j] => i = j
    BY <1>3, RangeIs
  <2>2. ASSUME NEW i \in 1 .. Len(t), NEW j \in 1 .. Len(t), t[i] = t[j]
        PROVE  i = j
    <3>1. i + 1 \in 1 .. Len(s) /\ j + 1 \in 1 .. Len(s)
      BY <1>1, <1>2
    <3>2. i + 1 = j + 1
      BY <3>1, <2>1, <2>2, <1>1
    <3> QED
      BY <3>2
  <2>3. IsInjective(t)
    BY <2>2, <1>1, RangeIs
  <2>4. ASSUME NEW v
        PROVE  v \in Range(t) <=> v \in Range(s) \ {s[1]}
    <3>1. v \in Range(t) <=> \E i \in 1 .. Len(t) : t[i] = v
      BY <1>1, RangeIs
    <3>2. v \in Range(s) <=> \E i \in 1 .. Len(s) : s[i] = v
      BY RangeIs
    <3>3. ASSUME NEW i \in 1 .. Len(t), t[i] = v
          PROVE  v # s[1] /\ \E j \in 1 .. Len(s) : s[j] = v
      <4>1. i + 1 \in 1 .. Len(s) /\ i + 1 # 1
        BY <1>1, <1>2
      <4> QED
        BY <4>1, <3>3, <2>1, <1>1, <1>2
    <3>4. ASSUME NEW i \in 1 .. Len(s), s[i] = v, v # s[1]
          PROVE  \E j \in 1 .. Len(t) : t[j] = v
      <4>1. i # 1
        BY <3>4
      <4>2. i - 1 \in 1 .. Len(t) /\ (i - 1) + 1 = i
        BY <4>1, <1>1, <1>2
      <4> QED
        BY <4>2, <3>4, <1>1
    <3> QED
      BY <3>1, <3>2, <3>3, <3>4
  <2>5. Range(t) = Range(s) \ {s[1]}
    BY <2>4
  <2> QED
    BY <2>3, <2>5
<1>4. s[1] \in Slot /\ s[1] \in Range(s)
  BY <1>2, RangeIs
<1> QED
  BY <1>1, <1>3, <1>4 DEF t

\* The first user of a list is put at its end.
LEMMA Rotated ==
  ASSUME NEW s \in Seq(Slot), s # <<>>, IsInjective(s)
  PROVE  /\ Append(Tail(s), Head(s)) \in Seq(Slot)
         /\ Len(Append(Tail(s), Head(s))) = Len(s)
         /\ Range(Append(Tail(s), Head(s))) = Range(s)
         /\ IsInjective(Append(Tail(s), Head(s)))
<1> DEFINE t == Tail(s)
           u == Head(s)
<1>1. /\ t \in Seq(Slot) /\ u \in Slot /\ u \in Range(s)
      /\ Len(t) = Len(s) - 1 /\ IsInjective(t) /\ Range(t) = Range(s) \ {u}
  BY Tailed
<1> HIDE DEF t, u
<1>2. /\ Append(t, u) \in Seq(Slot) /\ Len(Append(t, u)) = Len(t) + 1
      /\ Range(Append(t, u)) = Range(t) \cup {u}
      /\ u \notin Range(t) => IsInjective(Append(t, u))
  BY <1>1, Appended
<1>3. Len(s) \in Nat
  OBVIOUS
<1>4. /\ Append(t, u) \in Seq(Slot) /\ Len(Append(t, u)) = Len(s)
      /\ Range(Append(t, u)) = Range(s) /\ IsInjective(Append(t, u))
  BY SMTT(60), <1>1, <1>2, <1>3
<1> QED
  BY <1>4 DEF t, u

\* A user is taken out of a list.
LEMMA Removed ==
  ASSUME NEW s \in Seq(Slot), IsInjective(s), NEW u \in Range(s)
  PROVE  LET t == RemoveAt(s, CHOOSE i \in DOMAIN s : s[i] = u)
         IN  /\ t \in Seq(Slot) /\ Len(t) = Len(s) - 1
             /\ IsInjective(t) /\ Range(t) = Range(s) \ {u}
<1> DEFINE k == CHOOSE i \in DOMAIN s : s[i] = u
           t == RemoveAt(s, k)
           c == SubSeq(s, 1, k - 1)
           d == SubSeq(s, k + 1, Len(s))
<1>1. DOMAIN s = 1 .. Len(s) /\ Len(s) \in Nat
  OBVIOUS
<1>2. k \in 1 .. Len(s) /\ s[k] = u
  <2>1. \E i \in DOMAIN s : s[i] = u
    BY <1>1, RangeIs
  <2> QED
    BY <2>1, <1>1
<1> HIDE DEF k
<1>3. \A i \in 1 .. Len(s) : s[i] \in Slot
  OBVIOUS
<1>4. /\ c \in Seq(Slot) /\ Len(c) = k - 1
      /\ \A i \in 1 .. k - 1 : c[i] = s[i]
  <2>1. k - 1 \in Int /\ 1 \in Int /\ \A i \in 1 .. k - 1 : s[i] \in Slot
    BY <1>1, <1>2, <1>3
  <2>2. /\ c \in Seq(Slot) /\ Len(c) = IF 1 <= k - 1 THEN (k - 1) - 1 + 1 ELSE 0
        /\ \A i \in 1 .. (k - 1) - 1 + 1 : c[i] = s[1 + i - 1]
    BY <2>1, SubSeqProperties
  <2> HIDE DEF c
  <2> QED
    BY <2>2, <1>2
<1>5. /\ d \in Seq(Slot) /\ Len(d) = Len(s) - k
      /\ \A i \in 1 .. Len(s) - k : d[i] = s[k + i]
  <2>1. k + 1 \in Int /\ Len(s) \in Int /\ \A i \in k + 1 .. Len(s) : s[i] \in Slot
    BY <1>1, <1>2, <1>3
  <2>2. /\ d \in Seq(Slot) /\ Len(d) = IF k + 1 <= Len(s) THEN Len(s) - (k + 1) + 1 ELSE 0
        /\ \A i \in 1 .. Len(s) - (k + 1) + 1 : d[i] = s[(k + 1) + i - 1]
    BY <2>1, SubSeqProperties
  <2> HIDE DEF c, d, t
  <2>3. (k + 1) - 1 = k /\ Len(s) - (k + 1) + 1 = Len(s) - k
        /\ \A i \in 1 .. Len(s) - k : (k + 1) + i - 1 = k + i
    BY <1>1, <1>2
  <2>4. Len(d) = Len(s) - k
    <3>1. Len(d) = IF k + 1 <= Len(s) THEN Len(s) - (k + 1) + 1 ELSE 0
      BY <2>2
    <3>2. k \in Int /\ Len(s) \in Int /\ k <= Len(s)
      BY <1>1, <1>2
    <3> QED
      BY <3>1, <3>2
  <2>5. \A i \in 1 .. Len(s) - k : d[i] = s[k + i]
    BY <2>2, <2>3
  <2> QED
    BY <2>2, <2>4, <2>5
<1>6. /\ t \in Seq(Slot) /\ Len(t) = Len(c) + Len(d)
      /\ \A i \in 1 .. Len(c) + Len(d) : t[i] = IF i <= Len(c) THEN c[i] ELSE d[i - Len(c)]
  <2>1. t = c \o d
    BY DEF RemoveAt
  <2> HIDE DEF t, c, d
  <2> QED
    BY <2>1, <1>4, <1>5, ConcatProperties
<1> HIDE DEF t, c, d
<1>7. Len(t) = Len(s) - 1
  BY <1>1, <1>2, <1>4, <1>5, <1>6
<1>8. \A i \in 1 .. Len(t) : t[i] = IF i < k THEN s[i] ELSE s[i + 1]
  <2> TAKE i \in 1 .. Len(t)
  <2>1. CASE i < k
    BY <2>1, <1>1, <1>2, <1>4, <1>5, <1>6
  <2>2. CASE i >= k
    <3>1. i - (k - 1) \in 1 .. Len(s) - k /\ k + (i - (k - 1)) = i + 1 /\ ~(i <= k - 1)
      BY <2>2, <1>1, <1>2, <1>7
    <3>2. t[i] = d[i - (k - 1)]
      BY <3>1, <1>4, <1>5, <1>6
    <3> QED
      BY <3>1, <3>2, <2>2, <1>1, <1>2, <1>5
  <2> QED
    BY <2>1, <2>2, <1>1, <1>2, <1>7
<1>9. \A i, j \in 1 .. Len(s) : s[i] = s[j] => i = j
  BY RangeIs
<1>10. ASSUME NEW i \in 1 .. Len(t), NEW j \in 1 .. Len(t), t[i] = t[j]
       PROVE  i = j
  <2> DEFINE m(x) == IF x < k THEN x ELSE x + 1
  <2>1. m(i) \in 1 .. Len(s) /\ m(j) \in 1 .. Len(s) /\ t[i] = s[m(i)] /\ t[j] = s[m(j)]
    BY <1>1, <1>2, <1>7, <1>8
  <2>2. m(i) = m(j)
    BY <2>1, <1>9, <1>10
  <2> QED
    BY <2>2, <1>2
<1>11. IsInjective(t)
  BY <1>10, <1>6, RangeIs
<1>12. ASSUME NEW v
       PROVE  v \in Range(t) <=> v \in Range(s) \ {u}
  <2>1. v \in Range(t) <=> \E i \in 1 .. Len(t) : t[i] = v
    BY <1>6, RangeIs
  <2>2. v \in Range(s) <=> \E i \in 1 .. Len(s) : s[i] = v
    BY RangeIs
  <2>3. ASSUME NEW i \in 1 .. Len(t), t[i] = v
        PROVE  v # u /\ \E j \in 1 .. Len(s) : s[j] = v
    <3> DEFINE m == IF i < k THEN i ELSE i + 1
    <3>1. m \in 1 .. Len(s) /\ m # k /\ t[i] = s[m]
      BY <1>1, <1>2, <1>7, <1>8
    <3> QED
      BY <3>1, <2>3, <1>2, <1>9
  <2>4. ASSUME NEW i \in 1 .. Len(s), s[i] = v, v # u
        PROVE  \E j \in 1 .. Len(t) : t[j] = v
    <3> DEFINE m == IF i < k THEN i ELSE i - 1
    <3>1. i # k
      BY <2>4, <1>2
    <3>2. m \in 1 .. Len(t) /\ t[m] = s[i]
      BY <3>1, <1>1, <1>2, <1>7, <1>8
    <3> QED
      BY <3>2, <2>4
  <2> QED
    BY <2>1, <2>2, <2>3, <2>4
<1>13. Range(t) = Range(s) \ {u}
  BY <1>12
<1> QED
  BY Zenon, <1>6, <1>7, <1>11, <1>13 DEF t, k

\* DoneCounted, for users us and count od.
DoneIn(us, od) == od = Cardinality({u \in Slot : us[u].odone})

\* odone counts the users that are done.
LEMMA DoneCount ==
  ASSUME NEW us \in Users, NEW u \in Slot, NEW x, x.odone \in BOOLEAN, NEW od \in Int,
         DoneIn(us, od)
  PROVE  LET us2 == [us EXCEPT ![u] = x]
         IN  /\ x.odone = us[u].odone => DoneIn(us2, od)
             /\ x.odone /\ ~us[u].odone => DoneIn(us2, od + 1)
             /\ ~x.odone /\ us[u].odone => DoneIn(us2, od - 1)
<1> DEFINE us2 == [us EXCEPT ![u] = x]
           S == {v \in Slot : us[v].odone}
           T == {v \in Slot : us2[v].odone}
<1>1. us2[u] = x /\ \A v \in Slot \ {u} : us2[v] = us[v]
  BY DEF Users
<1> HIDE DEF us2
<1>2. us[u].odone \in BOOLEAN
  BY UserFields DEF Users
<1>3. IsFiniteSet(S) /\ Cardinality(S) \in Nat
  <2>1. IsFiniteSet(S)
    BY CommAssumption, FS_Subset
  <2> QED
    BY <2>1, FS_CardinalityType
<1>4. CASE x.odone = us[u].odone
  <2>1. T = S
    BY <1>1, <1>4
  <2> QED
    BY <2>1, <1>4 DEF DoneIn, us2
<1>5. CASE x.odone /\ ~us[u].odone
  <2>1. T = S \cup {u} /\ u \notin S
    BY <1>1, <1>5
  <2> HIDE DEF S, T
  <2>2. Cardinality(T) = Cardinality(S) + 1
    BY <2>1, <1>3, FS_AddElement
  <2> QED
    BY <2>2, <1>5 DEF DoneIn, us2, S, T
<1>6. CASE ~x.odone /\ us[u].odone
  <2>1. T = S \ {u} /\ u \in S
    BY <1>1, <1>6
  <2> HIDE DEF S, T
  <2>2. Cardinality(T) = Cardinality(S) - 1
    BY <2>1, <1>3, FS_RemoveElement
  <2> QED
    BY <2>2, <1>6 DEF DoneIn, us2, S, T
<1> QED
  BY <1>2, <1>4, <1>5, <1>6

-----------------------------------------------------------------------------
(* Steps that change nothing but where the loop is.                         *)

\* Only the phase, what follows, and the order of the users change.
Elsewhere ==
  /\ UNCHANGED <<obj, array, usr, flush, outbound, nusers, odone, calls>>
  /\ ring' \in Seq(Slot) /\ RingIn(usr, ring', nusers)

\* Such a step keeps the invariant.
LEMMA ElsewhereRight ==
  ASSUME IInv, Elsewhere, phase' \in Phases, then'.kind \in Thens,
         then'.kind = "create" => then'.arg \in BOOLEAN, PhaseRight'
  PROVE  IInv'
<1>1. Types'
  BY DEF IInv, Types, Elsewhere
<1>2. VersionsRight' /\ ClosesRight'
  BY DEF IInv, Elsewhere, VersionsRight, ClosesRight
<1>3. UsersListed'
  BY DEF IInv, Elsewhere, UsersListed
<1>4. FlushListed'
  BY DEF IInv, Elsewhere, FlushListed
<1>5. DoneCounted'
  BY DEF IInv, Elsewhere, DoneCounted
<1> QED
  BY <1>1, <1>2, <1>3, <1>4, <1>5 DEF IInv

\* It is one when the ring is the same, too.
LEMMA SameRing ==
  ASSUME IInv, UNCHANGED <<obj, array, usr, ring, flush, outbound, nusers, odone, calls>>
  PROVE  Elsewhere
BY DEF IInv, Types, UsersListed, Elsewhere

\* The tasks that end, the call-outs, and the steps of the main loop.
LEMMA LoopRight ==
  ASSUME IInv,
         \/ EndTask \/ TaskFails \/ CallOutTask \/ Receive \/ AcceptEnd \/ EndLoop
         \/ \E dgram \in BOOLEAN : Accept(dgram)
         \/ \E u \in Slot : NoInput(u) \/ Input(u)
  PROVE  IInv'
<1>1. UNCHANGED <<obj, array, usr, ring, flush, outbound, nusers, odone, calls>>
  BY DEF EndTask, TaskFails, CallOutTask, Receive, AcceptEnd, EndLoop, Accept, NoInput, Input,
         StartTask, countVars
<1>2. PhaseRight /\ phase \in Phases /\ then.kind \in Thens
      /\ (then.kind = "create" => then.arg \in BOOLEAN)
  BY DEF IInv, Types
<1>3. /\ phase' \in Phases /\ then'.kind \in Thens
      /\ then'.kind = "create" => then'.arg \in BOOLEAN
      /\ PhaseRight'
  <2>1. CASE EndTask
    BY <2>1, <1>1, <1>2 DEF EndTask, PhaseRight, Phases
  <2>2. CASE TaskFails
    BY <2>2, <1>1, <1>2 DEF TaskFails, PhaseRight, Phases, Thens
  <2>3. CASE CallOutTask
    BY <2>3, <1>1, <1>2 DEF CallOutTask, StartTask, PhaseRight, Phases, Thens
  <2>4. CASE Receive
    BY <2>4, <1>1, <1>2 DEF Receive, PhaseRight, Phases
  <2>5. CASE AcceptEnd
    BY <2>5, <1>1, <1>2 DEF AcceptEnd, PhaseRight, Phases
  <2>6. CASE EndLoop
    BY <2>6, <1>1, <1>2 DEF EndLoop, PhaseRight, Phases, Thens
  <2>7. CASE \E dgram \in BOOLEAN : Accept(dgram)
    BY <2>7, <1>1, <1>2 DEF Accept, StartTask, PhaseRight, Phases, Thens
  <2>8. CASE \E u \in Slot : NoInput(u)
    BY <2>8, <1>1, <1>2 DEF NoInput, PhaseRight, Phases, Thens
  <2>9. CASE \E u \in Slot : Input(u)
    BY <2>9, <1>1, <1>2 DEF Input, StartTask, PhaseRight, Phases, Thens
  <2> QED
    BY <2>1, <2>2, <2>3, <2>4, <2>5, <2>6, <2>7, <2>8, <2>9
<1> QED
  BY <1>1, <1>3, SameRing, ElsewhereRight

\* The steps after which the server is gone.
LEMMA CrashRight ==
  ASSUME IInv, FlushNoConnection \/ CreateNoUser \/ \E o \in Obj : ConnectNoUser(o)
  PROVE  IInv'
<1>1. PICK why \in {"no user", "no connection"} : Crash(why)
  BY DEF FlushNoConnection, CreateNoUser, ConnectNoUser
<1>2. UNCHANGED <<obj, array, usr, ring, flush, outbound, nusers, odone, calls, then>>
  BY <1>1 DEF Crash, countVars
<1>3. phase' \in Phases /\ then'.kind \in Thens
      /\ (then'.kind = "create" => then'.arg \in BOOLEAN) /\ PhaseRight'
  BY <1>1, <1>2 DEF Crash, IInv, Types, PhaseRight, Phases
<1> QED
  BY <1>2, <1>3, SameRing, ElsewhereRight

\* The next user of the ring is the one after it.
LEMMA VisitRight ==
  ASSUME IInv, NEW u \in Slot, Visit(u)
  PROVE  /\ phase = "loop" /\ calls = <<>> /\ flush = <<>> /\ outbound = <<>>
         /\ usr[u].obj # None /\ ~usr[u].flush
         /\ ring' \in Seq(Slot) /\ Len(ring') = Len(ring) /\ Range(ring') = Range(ring)
         /\ IsInjective(ring')
<1>1. phase = "loop" /\ ring # <<>> /\ u = Head(ring) /\ ring' = Append(Tail(ring), Head(ring))
  BY DEF Visit
<1>2. calls = <<>> /\ flush = <<>> /\ outbound = <<>>
  BY <1>1 DEF IInv, PhaseRight
<1>3. ring \in Seq(Slot) /\ IsInjective(ring)
  BY DEF IInv, Types, UsersListed, RingIn
<1>4. /\ ring' \in Seq(Slot) /\ Len(ring') = Len(ring) /\ Range(ring') = Range(ring)
      /\ IsInjective(ring')
  BY <1>1, <1>3, Rotated
<1>5. u \in Range(ring)
  BY <1>1, <1>3, Tailed
<1>6. usr[u].obj # None
  BY <1>5 DEF IInv, UsersListed, RingIn
<1>7. Range(flush) = {} /\ Range(outbound) = {}
  BY <1>2 DEF Range
<1>8. ~usr[u].flush
  BY <1>7 DEF IInv, FlushListed, FlushIn
<1> QED
  BY <1>1, <1>2, <1>4, <1>6, <1>8

\* A connection that is still being made is passed by.
LEMMA PendingRight ==
  ASSUME IInv, NEW u \in Slot, Pending(u)
  PROVE  IInv'
<1>1. Visit(u) /\ UNCHANGED <<obj, array, usr, flush, outbound, nusers, odone, calls, phase, then>>
  BY DEF Pending, countVars
<1>2. /\ ring' \in Seq(Slot) /\ Len(ring') = Len(ring) /\ Range(ring') = Range(ring)
      /\ IsInjective(ring')
  BY <1>1, VisitRight
<1>3. RingIn(usr, ring', nusers)
  BY <1>2 DEF IInv, UsersListed, RingIn
<1>4. phase' \in Phases /\ then'.kind \in Thens
      /\ (then'.kind = "create" => then'.arg \in BOOLEAN) /\ PhaseRight'
  BY SMTT(60), <1>1 DEF IInv, Types, PhaseRight
<1> QED
  BY <1>1, <1>2, <1>3, <1>4, ElsewhereRight DEF Elsewhere

-----------------------------------------------------------------------------
(* Calls, and objects without connection.                                   *)

\* Calls.
CallType == CloseType \cup AtomicType

\* The calls without the last one.
LEMMA FrontIs ==
  ASSUME NEW cs \in Seq(CallType), cs # <<>>
  PROVE  /\ Len(cs) \in Nat /\ Len(cs) >= 1 /\ DOMAIN cs = 1 .. Len(cs)
         /\ Front(cs) \in Seq(CallType) /\ Len(Front(cs)) = Len(cs) - 1
         /\ DOMAIN Front(cs) = 1 .. Len(cs) - 1
         /\ \A i \in 1 .. Len(cs) - 1 : Front(cs)[i] = cs[i]
         /\ Last(cs) = cs[Len(cs)] /\ Last(cs) \in CallType
<1>1. Len(cs) \in Nat /\ Len(cs) >= 1 /\ DOMAIN cs = 1 .. Len(cs)
      /\ \A i \in 1 .. Len(cs) : cs[i] \in CallType
  OBVIOUS
<1> DEFINE n == Len(cs) - 1
           f == SubSeq(cs, 1, n)
<1>2. n \in Nat /\ \A i \in 1 .. n : cs[i] \in CallType
  BY <1>1
<1>3. /\ f \in Seq(CallType) /\ Len(f) = IF 1 <= n THEN n - 1 + 1 ELSE 0
      /\ \A i \in 1 .. n - 1 + 1 : f[i] = cs[1 + i - 1]
  <2> HIDE DEF n
  <2> QED
    BY <1>2, SubSeqProperties
<1> HIDE DEF f
<1>4. f \in Seq(CallType) /\ Len(f) = n /\ \A i \in 1 .. n : f[i] = cs[i]
  <2> HIDE DEF n
  <2>1. n - 1 + 1 = n /\ \A i \in 1 .. n : 1 + i - 1 = i
    BY <1>2
  <2>2. Len(f) = n
    <3>1. Len(f) = IF 1 <= n THEN n - 1 + 1 ELSE 0
      BY <1>3
    <3>2. n \in Nat
      BY <1>2
    <3> QED
      BY <3>1, <3>2
  <2> QED
    BY <1>3, <2>1, <2>2
<1>5. Front(cs) = f /\ Last(cs) = cs[Len(cs)]
  BY DEF Front, Last, f
<1>6. DOMAIN f = 1 .. n
  BY <1>4
<1>7. cs[Len(cs)] \in CallType
  BY <1>1
<1> QED
  BY Zenon, <1>1, <1>4, <1>5, <1>6, <1>7

\* When a call returns there is one version less.
LEMMA VersionsFront ==
  ASSUME NEW ob, NEW arr, NEW us, NEW cs \in Seq(CallType), cs # <<>>
  PROVE  /\ VersionsIn(ob, arr, us, cs) => VersionsIn(ob, arr, us, Front(cs))
         /\ ClosesIn(ob, us, cs) => ClosesIn(ob, us, Front(cs))
<1> DEFINE f == Front(cs)
<1>1. /\ Len(cs) \in Nat /\ DOMAIN cs = 1 .. Len(cs)
      /\ f \in Seq(CallType) /\ Len(f) = Len(cs) - 1 /\ DOMAIN f = 1 .. Len(cs) - 1
      /\ \A i \in 1 .. Len(cs) - 1 : f[i] = cs[i]
  BY FrontIs
<1> HIDE DEF f
<1>2. \A i \in 1 .. Len(cs) - 1 : i \in 1 .. Len(cs)
      /\ \A j \in i + 1 .. Len(f) : j \in 1 .. Len(cs) - 1 /\ j \in i + 1 .. Len(cs)
  BY <1>1
<1>3. ASSUME VersionsIn(ob, arr, us, cs)
      PROVE  VersionsIn(ob, arr, us, f)
  BY <1>1, <1>2, <1>3 DEF VersionsIn
<1>4. ASSUME ClosesIn(ob, us, cs)
      PROVE  ClosesIn(ob, us, f)
  <2> SUFFICES ASSUME NEW i \in 1 .. Len(cs) - 1, f[i].kind = "close"
               PROVE  /\ us[f[i].user].obj # None
                      /\ f[i].destruct =>
                           /\ Closing(ob, f[i])
                           /\ \A j \in i + 1 .. Len(f) :
                                f[j].kind = "atomic" => Closing(f[j].obj, f[i])
    BY <1>1 DEF ClosesIn
  <2>1. f[i] = cs[i] /\ i \in DOMAIN cs
    BY <1>1, <1>2
  <2>2. /\ us[cs[i].user].obj # None
        /\ cs[i].destruct =>
             /\ Closing(ob, cs[i])
             /\ \A j \in i + 1 .. Len(cs) : cs[j].kind = "atomic" => Closing(cs[j].obj, cs[i])
    BY <2>1, <1>4 DEF ClosesIn
  <2>3. \A j \in i + 1 .. Len(f) : f[j] = cs[j] /\ j \in i + 1 .. Len(cs)
    BY <1>1, <1>2
  <2> QED
    BY <2>1, <2>2, <2>3
<1> QED
  BY <1>3, <1>4 DEF f

\* When an atomic function is called there is one more, like that of the
\* running code.
LEMMA VersionsAppend ==
  ASSUME NEW ob, NEW arr, NEW us, NEW cs \in Seq(CallType), NEW c \in CallType,
         VersionsIn(ob, arr, us, cs), ClosesIn(ob, us, cs),
         c.kind = "atomic" => c.obj = ob /\ c.array = arr,
         c.kind = "close" => us[c.user].obj # None /\ Closing(ob, c)
  PROVE  VersionsIn(ob, arr, us, Append(cs, c)) /\ ClosesIn(ob, us, Append(cs, c))
<1> DEFINE t == Append(cs, c)
           n == Len(cs)
<1>1. /\ n \in Nat /\ DOMAIN cs = 1 .. n /\ DOMAIN t = 1 .. n + 1 /\ Len(t) = n + 1
      /\ t[n + 1] = c /\ \A i \in 1 .. n : t[i] = cs[i]
  BY AppendProperties
<1> HIDE DEF t, n
<1>2. \A i \in 1 .. n + 1 : i \in 1 .. n \/ i = n + 1
  BY <1>1
<1>3. VersionsIn(ob, arr, us, t)
  <2>1. Version(ob, arr, us, ob, arr)
    BY DEF VersionsIn
  <2>2. ASSUME NEW i \in 1 .. n, t[i].kind = "atomic"
        PROVE  Version(t[i].obj, t[i].array, us, ob, arr)
    BY <2>2, <1>1 DEF VersionsIn
  <2>3. ASSUME t[n + 1].kind = "atomic"
        PROVE  Version(t[n + 1].obj, t[n + 1].array, us, ob, arr)
    BY <2>1, <2>3, <1>1
  <2> QED
    BY <1>1, <1>2, <2>1, <2>2, <2>3 DEF VersionsIn
<1>4. ASSUME NEW i \in 1 .. n, t[i].kind = "close"
      PROVE  /\ us[t[i].user].obj # None
             /\ t[i].destruct =>
                  /\ Closing(ob, t[i])
                  /\ \A j \in i + 1 .. n + 1 :
                       t[j].kind = "atomic" => Closing(t[j].obj, t[i])
  <2>1. t[i] = cs[i]
    BY <1>1
  <2>2. /\ us[cs[i].user].obj # None
        /\ cs[i].destruct =>
             /\ Closing(ob, cs[i])
             /\ \A j \in i + 1 .. n : cs[j].kind = "atomic" => Closing(cs[j].obj, cs[i])
    BY <2>1, <1>1, <1>4 DEF ClosesIn, n
  <2>3. \A j \in i + 1 .. n + 1 : j = n + 1 \/ (j \in i + 1 .. n /\ t[j] = cs[j])
    BY <1>1
  <2> QED
    BY <2>1, <2>2, <2>3, <1>1
<1>5. ASSUME t[n + 1].kind = "close"
      PROVE  /\ us[t[n + 1].user].obj # None
             /\ Closing(ob, t[n + 1])
             /\ \A j \in (n + 1) + 1 .. n + 1 : FALSE
  BY <1>1, <1>5
<1>6. ClosesIn(ob, us, t)
  BY <1>1, <1>2, <1>4, <1>5 DEF ClosesIn
<1> QED
  BY <1>3, <1>6 DEF t

\* In a task, calls may be open and users may wait.
LEMMA TaskPhase ==
  ASSUME IInv, phase = "task", UNCHANGED loopVars
  PROVE  /\ PhaseRight' /\ phase' \in Phases /\ then'.kind \in Thens
         /\ then'.kind = "create" => then'.arg \in BOOLEAN
BY DEF IInv, Types, PhaseRight, loopVars

\* Only objects, arrays and calls change in a task.
ObjectsOnly ==
  /\ phase = "task" /\ UNCHANGED loopVars
  /\ UNCHANGED <<usr, ring, flush, outbound, nusers, odone>>

\* It keeps the invariant when the versions and the calls are right.
LEMMA ObjectsOnlyRight ==
  ASSUME IInv, ObjectsOnly, obj' \in Objects, array' \in Arrays, calls' \in Seq(CallType),
         VersionsIn(obj', array', usr, calls'), ClosesIn(obj', usr, calls')
  PROVE  IInv'
<1>1. PhaseRight' /\ phase' \in Phases /\ then'.kind \in Thens
      /\ (then'.kind = "create" => then'.arg \in BOOLEAN)
  BY TaskPhase DEF ObjectsOnly
<1>2. Types'
  BY <1>1 DEF IInv, Types, ObjectsOnly, CallType
<1>3. VersionsRight' /\ ClosesRight'
  BY DEF ObjectsOnly, VersionsRight, ClosesRight
<1>4. UsersListed' /\ FlushListed' /\ DoneCounted'
  BY DEF IInv, ObjectsOnly, UsersListed, FlushListed, DoneCounted
<1> QED
  BY <1>1, <1>2, <1>3, <1>4 DEF IInv

\* What the invariant says of the versions and the calls.
LEMMA CallsAre ==
  ASSUME IInv
  PROVE  /\ calls \in Seq(CallType) /\ DOMAIN calls = 1 .. Len(calls)
         /\ VersionsIn(obj, array, usr, calls) /\ ClosesIn(obj, usr, calls)
         /\ Version(obj, array, usr, obj, array)
         /\ \A i \in DOMAIN calls : calls[i].kind = "atomic" =>
              Version(calls[i].obj, calls[i].array, usr, obj, array)
         /\ usr \in Users /\ obj \in Objects /\ array \in Arrays /\ Unique(usr)
<1>1. calls \in Seq(CallType) /\ usr \in Users /\ obj \in Objects /\ array \in Arrays
  BY DEF IInv, Types, CallType
<1>2. VersionsIn(obj, array, usr, calls) /\ ClosesIn(obj, usr, calls) /\ Unique(usr)
  BY DEF IInv, VersionsRight, ClosesRight, UsersListed, UsersApart, Unique
<1> QED
  BY <1>1, <1>2 DEF VersionsIn

\* An object that is no user is made or destructed.
LEMMA ObjectRight ==
  ASSUME IInv, ObjectsOnly, UNCHANGED <<array, calls>>,
         NEW o \in Obj, ~IsUser(o), NEW n \in ObjectType, ~n.user,
         obj' = [obj EXCEPT ![o] = n], n.state = "dead" \/ obj[o].state # "dead"
  PROVE  IInv'
<1>1. calls \in Seq(CallType) /\ usr \in Users /\ obj \in Objects /\ array \in Arrays
      /\ VersionsIn(obj, array, usr, calls) /\ ClosesIn(obj, usr, calls)
  BY CallsAre
<1>2. obj' \in Objects /\ obj'[o] = n /\ \A p \in Obj \ {o} : obj'[p] = obj[p]
  BY <1>1 DEF Objects
<1>3. ASSUME NEW v \in Slot, Listless(usr, v)
      PROVE  obj'[usr[v].obj] = obj[usr[v].obj]
  <2>1. usr[v].obj \in Obj /\ obj[usr[v].obj].user
    BY <1>1, <1>3, ListlessUser DEF VersionsIn
  <2> QED
    BY <1>2, <2>1 DEF IsUser
<1>4. Version(obj', array, usr, obj', array)
  <2>1. ASSUME NEW p \in Obj, obj'[p].user
        PROVE  Belongs(obj', array, usr, p)
    <3>1. obj'[p] = obj[p]
      BY <1>2, <2>1
    <3> QED
      BY <1>1, <2>1, <3>1 DEF VersionsIn, Version, Belongs
  <2>2. ASSUME NEW v \in Slot, Listless(usr, v)
        PROVE  Untouched(obj', array, usr, obj', array, v)
    BY <1>1, <1>3, <2>2 DEF VersionsIn, Version, Untouched
  <2> QED
    BY <2>1, <2>2 DEF Version
<1>5. ASSUME NEW i \in DOMAIN calls, calls[i].kind = "atomic"
      PROVE  Version(calls[i].obj, calls[i].array, usr, obj', array)
  <2>1. Version(calls[i].obj, calls[i].array, usr, obj, array)
    BY <1>1, <1>5 DEF VersionsIn
  <2>2. ASSUME NEW v \in Slot, Listless(usr, v)
        PROVE  /\ calls[i].obj[usr[v].obj].extra = obj'[usr[v].obj].extra
               /\ calls[i].array[calls[i].obj[usr[v].obj].extra] = array[obj'[usr[v].obj].extra]
    BY <1>3, <2>1, <2>2 DEF Version, Untouched
  <2> QED
    BY <2>1, <2>2, SameVersion
<1>6. VersionsIn(obj', array, usr, calls)
  BY <1>4, <1>5 DEF VersionsIn
<1>7. ASSUME NEW i \in DOMAIN calls, calls[i].kind = "close", Closing(obj, calls[i])
      PROVE  Closing(obj', calls[i])
  <2>1. calls[i].obj \in Obj
    <3>1. calls[i] \in CallType
      BY <1>1
    <3> QED
      BY <3>1, <1>7 DEF CallType, CloseType, AtomicType
  <2>2. CASE calls[i].obj = o
    BY <1>2, <1>7, <2>2 DEF Closing, IsUser
  <2>3. CASE calls[i].obj # o
    BY <1>2, <1>7, <2>1, <2>3 DEF Closing
  <2> QED
    BY <2>2, <2>3
<1>8. ClosesIn(obj', usr, calls)
  BY <1>1, <1>7 DEF ClosesIn
<1> QED
  BY <1>1, <1>2, <1>6, <1>8, ObjectsOnlyRight

\* A new object.
LEMMA NewObjectRight ==
  ASSUME IInv, NEW o \in Obj, NewObject(o)
  PROVE  IInv'
<1>1. /\ ObjectsOnly /\ UNCHANGED <<array, calls>> /\ obj[o].state = "none"
      /\ obj' = [obj EXCEPT ![o] = [NoObject EXCEPT !.state = "live"]]
  BY DEF NewObject, InTask, Runs, ObjectsOnly, countVars
<1> DEFINE n == [NoObject EXCEPT !.state = "live"]
<1>2. n \in ObjectType /\ ~n.user
  BY DEF NoObject, ObjectType
<1>3. ~IsUser(o)
  <2>1. Version(obj, array, usr, obj, array)
    BY CallsAre
  <2> QED
    BY <1>1, <2>1 DEF Version, Belongs, IsUser
<1> HIDE DEF n
<1>4. obj' = [obj EXCEPT ![o] = n] /\ obj[o].state # "dead"
  BY <1>1 DEF n
<1> QED
  BY <1>1, <1>2, <1>3, <1>4, ObjectRight

\* An object without connection is destructed.
LEMMA DestructRight ==
  ASSUME IInv, NEW o \in Obj, Destruct(o)
  PROVE  IInv'
<1>1. /\ ObjectsOnly /\ UNCHANGED <<array, calls>> /\ ~IsUser(o)
      /\ obj' = [obj EXCEPT ![o].state = "dead"]
  BY DEF Destruct, Op, Runs, ObjectsOnly, countVars
<1> DEFINE n == [obj[o] EXCEPT !.state = "dead"]
<1>2. obj[o] \in ObjectType /\ obj' = [obj EXCEPT ![o] = n]
  BY <1>1 DEF IInv, Types, Objects
<1>3. n \in ObjectType /\ ~n.user /\ n.state = "dead"
  BY <1>1, <1>2 DEF ObjectType, IsUser
<1> HIDE DEF n
<1> QED
  BY <1>1, <1>2, <1>3, ObjectRight

\* A destructed user object is to be closed.
LEMMA CloseRight ==
  ASSUME IInv, NEW o \in Obj, Close(o)
  PROVE  IInv'
<1> DEFINE c == CloseCall(o, TRUE)
<1>1. ObjectsOnly /\ UNCHANGED <<obj, array>> /\ IsUser(o) /\ calls' = Append(calls, c)
  BY DEF Close, Op, Runs, ObjectsOnly, countVars
<1>2. calls \in Seq(CallType) /\ VersionsIn(obj, array, usr, calls) /\ ClosesIn(obj, usr, calls)
      /\ Version(obj, array, usr, obj, array) /\ obj \in Objects /\ array \in Arrays
  BY CallsAre
<1>3. obj[o].slot \in Slot /\ usr[obj[o].slot].obj = o /\ o # None
  BY <1>1, <1>2, CommAssumption DEF Version, Belongs, IsUser
<1>4. /\ c \in CallType /\ c.kind = "close" /\ c.obj = o /\ c.user = obj[o].slot
  BY <1>3 DEF CloseCall, CallType, CloseType
<1> HIDE DEF c
<1>5. usr[c.user].obj # None /\ Closing(obj, c)
  BY <1>1, <1>3, <1>4 DEF Closing, IsUser
<1>6. VersionsIn(obj, array, usr, Append(calls, c)) /\ ClosesIn(obj, usr, Append(calls, c))
  BY <1>2, <1>4, <1>5, VersionsAppend
<1>7. Append(calls, c) \in Seq(CallType)
  BY <1>2, <1>4
<1> QED
  BY <1>1, <1>2, <1>6, <1>7, ObjectsOnlyRight

\* An atomic function is called: there is another version, as things are now.
LEMMA EnterRight ==
  ASSUME IInv, Enter
  PROVE  IInv'
<1> DEFINE c == [kind |-> "atomic", obj |-> obj, array |-> array]
<1>1. ObjectsOnly /\ UNCHANGED <<obj, array>> /\ calls' = Append(calls, c)
  BY DEF Enter, Op, Runs, ObjectsOnly, countVars
<1>2. calls \in Seq(CallType) /\ VersionsIn(obj, array, usr, calls) /\ ClosesIn(obj, usr, calls)
      /\ obj \in Objects /\ array \in Arrays
  BY CallsAre
<1>3. c \in CallType /\ c.kind = "atomic" /\ c.obj = obj /\ c.array = array
  BY <1>2 DEF CallType, AtomicType
<1> HIDE DEF c
<1>4. VersionsIn(obj, array, usr, Append(calls, c)) /\ ClosesIn(obj, usr, Append(calls, c))
  BY <1>2, <1>3, VersionsAppend
<1>5. Append(calls, c) \in Seq(CallType)
  BY <1>2, <1>3
<1> QED
  BY <1>1, <1>2, <1>4, <1>5, ObjectsOnlyRight

\* An atomic function returns, and what it did stays.
LEMMA ReturnRight ==
  ASSUME IInv, Return
  PROVE  IInv'
<1>1. ObjectsOnly /\ UNCHANGED <<obj, array>> /\ calls # <<>> /\ calls' = Front(calls)
  BY DEF Return, InTask, Runs, ObjectsOnly, countVars
<1>2. calls \in Seq(CallType) /\ VersionsIn(obj, array, usr, calls) /\ ClosesIn(obj, usr, calls)
      /\ obj \in Objects /\ array \in Arrays
  BY CallsAre
<1>3. VersionsIn(obj, array, usr, Front(calls)) /\ ClosesIn(obj, usr, Front(calls))
      /\ Front(calls) \in Seq(CallType)
  BY <1>1, <1>2, VersionsFront, FrontIs
<1> QED
  BY <1>1, <1>2, <1>3, ObjectsOnlyRight

\* What an atomic function that fails restores: its arrays, where it has any.
Restored(arr) == [a \in ArrayId |-> IF arr[a] # None THEN arr[a] ELSE array[a]]

\* The version of the last call, with what becomes of the arrays.
LEMMA RestoredVersion ==
  ASSUME NEW ob \in Objects, NEW arr \in Arrays, NEW us \in Users, NEW cs, array \in Arrays,
         Version(ob, arr, us, obj, array)
  PROVE  /\ Kept(Restored(arr), ob, us, cs) \in Arrays
         /\ \A o \in Obj : ob[o].user =>
              Kept(Restored(arr), ob, us, cs)[ob[o].extra] = arr[ob[o].extra]
<1> DEFINE r == Restored(arr)
           k == Kept(r, ob, us, cs)
<1>1. r \in Arrays
  BY DEF Restored, Arrays
<1>2. \A a \in ArrayId : r[a] = IF arr[a] # None THEN arr[a] ELSE array[a]
  BY DEF Restored
<1> HIDE DEF r
<1>3. k \in Arrays /\ \A o \in Obj : ob[o].extra \in ArrayId => k[ob[o].extra] = r[ob[o].extra]
  BY <1>1, KeptIs
<1> HIDE DEF k
<1>4. ASSUME NEW o \in Obj, ob[o].user
      PROVE  k[ob[o].extra] = arr[ob[o].extra]
  <2>1. ob[o].extra \in ArraysOf(o) /\ arr[ob[o].extra] \in RequestType
    BY <1>4 DEF Version, Belongs, Agree
  <2>2. ob[o].extra \in ArrayId /\ arr[ob[o].extra] # None
    BY <2>1, ArraysApart, CommAssumption
  <2> QED
    BY <1>2, <1>3, <2>2
<1> QED
  BY <1>3, <1>4 DEF k, r

\* An error restores the version of the atomic function, for which the users
\* have been kept right.
LEMMA FailRight ==
  ASSUME IInv, Fail
  PROVE  IInv'
<1> DEFINE n == Len(calls)
           c == Last(calls)
           f == Front(calls)
<1>1. /\ ObjectsOnly /\ calls # <<>> /\ calls' = f
      /\ IF c.kind = "atomic"
           THEN obj' = c.obj /\ array' = Kept(Restored(c.array), obj', usr, calls')
           ELSE UNCHANGED <<obj, array>>
  BY DEF Fail, InTask, Runs, ObjectsOnly, countVars, Restored
<1>2. calls \in Seq(CallType) /\ VersionsIn(obj, array, usr, calls) /\ ClosesIn(obj, usr, calls)
      /\ obj \in Objects /\ array \in Arrays /\ usr \in Users
  BY CallsAre
<1>3. /\ n \in Nat /\ n >= 1 /\ DOMAIN calls = 1 .. n
      /\ f \in Seq(CallType) /\ Len(f) = n - 1 /\ DOMAIN f = 1 .. n - 1
      /\ \A i \in 1 .. n - 1 : f[i] = calls[i]
      /\ c = calls[n] /\ c \in CallType
  BY <1>1, <1>2, FrontIs
<1>4. VersionsIn(obj, array, usr, f) /\ ClosesIn(obj, usr, f)
  BY <1>1, <1>2, VersionsFront
<1> HIDE DEF n, c, f
<1>5. CASE c.kind # "atomic"
  BY <1>1, <1>2, <1>3, <1>4, <1>5, ObjectsOnlyRight
<1>6. CASE c.kind = "atomic"
  <2>1. obj' = c.obj /\ array' = Kept(Restored(c.array), c.obj, usr, f)
    BY <1>1, <1>6
  <2>2. c.obj \in Objects /\ c.array \in Arrays
    BY <1>3, <1>6 DEF CallType, CloseType, AtomicType
  <2>3. Version(c.obj, c.array, usr, obj, array)
    BY <1>2, <1>3, <1>6 DEF VersionsIn
  <2>4. /\ array' \in Arrays
        /\ \A o \in Obj : c.obj[o].user => array'[c.obj[o].extra] = c.array[c.obj[o].extra]
    BY <1>2, <2>1, <2>2, <2>3, RestoredVersion
  <2>5. Version(c.obj, array', usr, c.obj, array')
    <3>1. \A v \in Slot : Listless(usr, v) =>
            /\ c.obj[usr[v].obj].extra = c.obj[usr[v].obj].extra
            /\ array'[c.obj[usr[v].obj].extra] = array'[c.obj[usr[v].obj].extra]
      OBVIOUS
    <3> QED
      BY <2>3, <2>4, <3>1, SameVersion
  <2>6. ASSUME NEW v \in Slot, Listless(usr, v)
        PROVE  /\ obj[usr[v].obj].extra = c.obj[usr[v].obj].extra
               /\ array[obj[usr[v].obj].extra] = array'[c.obj[usr[v].obj].extra]
    <3>1. usr[v].obj \in Obj
      BY <1>2, <2>6, ListlessUser DEF VersionsIn
    <3>2. /\ c.obj[usr[v].obj].user /\ c.obj[usr[v].obj].extra = obj[usr[v].obj].extra
          /\ c.array[c.obj[usr[v].obj].extra] = array[c.obj[usr[v].obj].extra]
      BY <2>3, <2>6 DEF Version, Untouched
    <3> QED
      BY <2>4, <3>1, <3>2
  <2>7. ASSUME NEW i \in 1 .. n - 1, f[i].kind = "atomic"
        PROVE  Version(f[i].obj, f[i].array, usr, c.obj, array')
    <3> DEFINE ob == f[i].obj
               arr == f[i].array
    <3>1. Version(ob, arr, usr, obj, array)
      BY <1>3, <1>4, <2>7 DEF VersionsIn
    <3>2. ASSUME NEW v \in Slot, Listless(usr, v)
          PROVE  /\ ob[usr[v].obj].extra = c.obj[usr[v].obj].extra
                 /\ arr[ob[usr[v].obj].extra] = array'[c.obj[usr[v].obj].extra]
      <4>1. ob[usr[v].obj].extra = obj[usr[v].obj].extra
            /\ arr[ob[usr[v].obj].extra] = array[ob[usr[v].obj].extra]
        BY <3>1, <3>2 DEF Version, Untouched
      <4> QED
        BY Zenon, <2>6, <3>2, <4>1
    <3> HIDE DEF ob, arr
    <3>3. Version(ob, arr, usr, c.obj, array')
      BY <3>1, <3>2, SameVersion
    <3> QED
      BY <3>3 DEF ob, arr
  <2>8. VersionsIn(c.obj, array', usr, f)
    BY <1>3, <2>5, <2>7 DEF VersionsIn
  <2>9. ASSUME NEW i \in 1 .. n - 1, f[i].kind = "close", f[i].destruct
        PROVE  Closing(c.obj, f[i])
    <3>1. f[i] = calls[i] /\ i \in DOMAIN calls /\ n \in i + 1 .. Len(calls)
      BY <1>3 DEF n
    <3> QED
      BY <1>2, <1>3, <1>6, <2>9, <3>1 DEF ClosesIn
  <2>10. ClosesIn(c.obj, usr, f)
    BY <1>3, <1>4, <2>9 DEF ClosesIn
  <2>11. VersionsIn(obj', array', usr, calls') /\ ClosesIn(obj', usr, calls')
    BY <1>1, <2>1, <2>8, <2>10
  <2> QED
    BY <1>1, <1>3, <2>1, <2>2, <2>4, <2>11, ObjectsOnlyRight
<1> QED
  BY <1>5, <1>6

-----------------------------------------------------------------------------
(* Users that are put in the flush list.                                    *)

\* Fields w that differ from those of a user, v, in nothing that a request has
\* to do with.
Near(w, v) ==
  /\ w \in UserType /\ w.obj = v.obj /\ w.extra = v.extra /\ w.flush = v.flush
  /\ w.outbuf = v.outbuf /\ w.osdone = v.osdone
  /\ w.blocked = v.blocked /\ w.stopped = v.stopped /\ (w.odone => v.odone)

\* What addtoflush() makes of a user.
LEMMA ListedIs ==
  ASSUME IInv, NEW u \in Slot, usr[u].obj # None, NEW w, Near(w, usr[u])
  PROVE  LET o == usr[u].obj
             x == Listed(w)
         IN  /\ o \in Obj
             /\ x \in UserType /\ x.obj = o /\ x.odone = w.odone /\ x.flush
             /\ x.blocked = usr[u].blocked
             /\ Marks(x, usr[u], obj[o].extra, array[obj[o].extra])
             /\ ~x.outbuf => x.osdone = 0 \/ x.stopped
<1> DEFINE o == usr[u].obj
           x == Listed(w)
           a == obj[o].extra
<1>1. usr \in Users /\ usr[u] \in UserType /\ obj \in Objects /\ w \in UserType /\ w.obj = o
  BY CallsAre DEF Users, Near
<1>2. o \in Obj
  BY <1>1 DEF UserType
<1>3. a \in ArrayId \cup {None}
  BY <1>1, <1>2 DEF Objects, ObjectType
<1>4. CASE w.flush
  <2>1. x = w
    BY <1>4 DEF Listed
  <2>2. usr[u].flush
    BY <1>4 DEF Near
  <2>3. ~x.outbuf => x.osdone = 0 \/ x.stopped
    BY <2>1, <2>2 DEF Near, IInv, UsersListed, UsersApart
  <2>4. Marks(x, usr[u], a, array[a])
    BY <1>1, <2>1, <2>2 DEF Near, Marks, UserType
  <2> QED
    BY <1>1, <1>2, <1>4, <2>1, <2>3, <2>4 DEF Near
<1>5. CASE ~w.flush
  <2> DEFINE b == array[a].buf # None
             x1 == [w EXCEPT !.flush = TRUE]
             x2 == [x1 EXCEPT !.extra = a]
             x3 == [x2 EXCEPT !.outbuf = b]
  <2>1. x = x3
    <3>1. x = [w EXCEPT !.flush = TRUE, !.extra = a, !.outbuf = b]
      BY <1>1, <1>5 DEF Listed, Request
    <3> HIDE DEF a, b
    <3> QED
      BY <3>1, <1>1 DEF UserType
  <2>2. ~usr[u].flush /\ Listless(usr, u)
    BY <1>5 DEF Near, Listless
  <2>3. Agree(usr[u], a, array[a])
    BY <1>1, <2>2, ListlessUser, CallsAre
  <2>4. b \in BOOLEAN /\ a \in ArrayId \cup {None}
    BY <1>3
  <2>5. /\ x3 \in UserType /\ x3.obj = o /\ x3.flush = TRUE /\ x3.extra = a
        /\ x3.outbuf = b /\ x3.osdone = w.osdone /\ x3.stopped = w.stopped
        /\ x3.odone = w.odone /\ x3.blocked = w.blocked
    <3> HIDE DEF a, b, o
    <3> QED
      BY <1>1, <2>4 DEF UserType
  <2> HIDE DEF x3
  <2>6. Marks(x, usr[u], a, array[a])
    BY <2>1, <2>2, <2>5 DEF Marks, Near
  <2>7. ~x.outbuf => x.osdone = 0 \/ x.stopped
    BY <2>1, <2>2, <2>3, <2>5 DEF Agree, Near
  <2> QED
    BY <1>2, <2>1, <2>5, <2>6, <2>7 DEF Near
<1> QED
  BY <1>4, <1>5

\* addtoflush() keeps the lists right.
LEMMA AddRight ==
  ASSUME IInv, NEW u \in Slot, usr[u].obj # None, NEW w, Near(w, usr[u]), AddToFlush(u, w)
  PROVE  /\ usr' = [usr EXCEPT ![u] = Listed(w)] /\ usr' \in Users
         /\ usr'[u] = Listed(w) /\ \A v \in Slot : usr'[v].obj = usr[v].obj
         /\ flush' \in Seq(Slot)
         /\ FlushIn(usr', flush', outbound) /\ UsersApart(usr')
<1> DEFINE x == Listed(w)
<1>1. usr \in Users /\ flush \in Seq(Slot) /\ outbound \in Seq(Slot)
  BY DEF IInv, Types
<1>2. /\ x \in UserType /\ x.obj = usr[u].obj /\ x.flush /\ x.odone = w.odone
      /\ x.blocked = usr[u].blocked /\ (~x.outbuf => x.osdone = 0 \/ x.stopped)
      /\ Marks(x, usr[u], obj[usr[u].obj].extra, array[obj[usr[u].obj].extra])
  BY ListedIs
<1>3. usr' = [usr EXCEPT ![u] = x] /\ flush' = IF usr[u].flush THEN flush ELSE <<u>> \o flush
  BY DEF AddToFlush
<1> HIDE DEF x
<1>4. usr' \in Users /\ usr'[u] = x /\ \A v \in Slot \ {u} : usr'[v] = usr[v]
  BY <1>1, <1>2, <1>3 DEF Users
<1>5. \A v \in Slot : usr'[v].obj = usr[v].obj
  BY <1>2, <1>4
<1>6. FlushIn(usr, flush, outbound)
  BY DEF IInv, FlushListed
<1>7. UsersApart(usr')
  <2>1. UsersApart(usr)
    BY DEF IInv, UsersListed
  <2>2. \A v \in Slot : usr'[v].obj = None => usr'[v] = NoUser
    BY <1>4, <1>5, <2>1 DEF UsersApart
  <2>3. \A v \in Slot : usr'[v].flush /\ ~usr'[v].outbuf => usr'[v].osdone = 0 \/ usr'[v].stopped
    BY <1>2, <1>4, <2>1 DEF UsersApart
  <2> QED
    BY <1>5, <2>1, <2>2, <2>3 DEF UsersApart
<1>8. /\ flush' \in Seq(Slot) /\ IsInjective(flush') /\ Range(flush') = Range(flush) \cup ({u} \ Range(outbound))
  <2>1. CASE usr[u].flush
    <3>1. u \in Range(flush) \cup Range(outbound)
      BY <1>6, <2>1 DEF FlushIn
    <3> QED
      BY <1>1, <1>3, <1>6, <2>1, <3>1 DEF FlushIn
  <2>2. CASE ~usr[u].flush
    <3>1. u \notin Range(flush) /\ u \notin Range(outbound) /\ IsInjective(flush)
      BY <1>6, <2>2 DEF FlushIn
    <3>2. /\ <<u>> \o flush \in Seq(Slot) /\ Range(<<u>> \o flush) = Range(flush) \cup {u}
          /\ IsInjective(<<u>> \o flush)
      BY <1>1, <3>1, Prepended
    <3> QED
      BY <1>3, <2>2, <3>1, <3>2
  <2> QED
    BY <2>1, <2>2
<1>9. ASSUME NEW v \in Range(outbound)
      PROVE  Calm(usr'[v])
  <2>1. Calm(usr[v]) /\ v \in Slot /\ usr[v].flush
    BY <1>1, <1>6, <1>9, RangeIs DEF FlushIn
  <2>2. CASE v = u
    <3>1. x.outbuf = usr[u].outbuf
      BY <1>2, <2>1, <2>2 DEF Marks
    <3> QED
      BY <1>2, <1>4, <2>1, <2>2, <3>1 DEF Calm, Marks
  <2>3. CASE v # u
    BY <1>4, <2>1, <2>3
  <2> QED
    BY <2>2, <2>3
<1>10. FlushIn(usr', flush', outbound)
  <2>1. \A v \in Slot : usr'[v].flush <=> v \in Range(flush') \cup Range(outbound)
    BY <1>2, <1>4, <1>6, <1>8 DEF FlushIn
  <2>2. Range(flush') \cap Range(outbound) = {}
    BY <1>6, <1>8 DEF FlushIn
  <2> QED
    BY <1>6, <1>8, <1>9, <2>1, <2>2 DEF FlushIn
<1> QED
  BY <1>3, <1>4, <1>5, <1>7, <1>8, <1>10 DEF x

\* The versions of atomic functions do not mind.
LEMMA AddVersions ==
  ASSUME IInv, NEW u \in Slot, usr[u].obj # None, NEW w, Near(w, usr[u]), AddToFlush(u, w),
         NEW ob2, NEW arr2, Unasked(usr, u, obj, array, ob2, arr2),
         NEW i \in DOMAIN calls, calls[i].kind = "atomic"
  PROVE  Version(calls[i].obj, calls[i].array, usr', ob2, arr2)
<1>1. Version(calls[i].obj, calls[i].array, usr, obj, array) /\ usr \in Users
  BY CallsAre
<1>2. Marks(Listed(w), usr[u], obj[usr[u].obj].extra, array[obj[usr[u].obj].extra])
  BY ListedIs
<1>3. usr' = [usr EXCEPT ![u] = Listed(w)]
  BY DEF AddToFlush
<1> DEFINE us2 == [usr EXCEPT ![u] = Listed(w)]
<1>4. Version(calls[i].obj, calls[i].array, us2, ob2, arr2)
  BY <1>1, <1>2, MarkVersion
<1> QED
  BY <1>3, <1>4

\* The object of a user, and its array, are not those of others.
LEMMA UserIs ==
  ASSUME IInv, NEW o \in Obj, IsUser(o)
  PROVE  /\ obj[o].slot \in Slot /\ usr[obj[o].slot].obj = o /\ o # None
         /\ obj[o].state = "live"
         /\ obj[o].extra \in ArraysOf(o) /\ obj[o].extra \in ArrayId
         /\ Agree(usr[obj[o].slot], obj[o].extra, array[obj[o].extra])
         /\ \A p \in Obj \ {o} : IsUser(p) =>
              /\ obj[p].slot # obj[o].slot /\ obj[p].extra # obj[o].extra
              /\ obj[p].extra \in ArrayId
         /\ \A v \in Slot \ {obj[o].slot} : Listless(usr, v) =>
              /\ usr[v].obj \in Obj \ {o} /\ IsUser(usr[v].obj)
              /\ obj[usr[v].obj].extra # obj[o].extra
              /\ obj[usr[v].obj].extra \in ArrayId
<1>1. Version(obj, array, usr, obj, array) /\ usr \in Users /\ Unique(usr)
  BY CallsAre
<1>2. \A p \in Obj : IsUser(p) => Belongs(obj, array, usr, p)
  BY <1>1 DEF Version, IsUser
<1>3. Belongs(obj, array, usr, o) /\ o # None
  BY <1>2, CommAssumption
<1>4. obj[o].extra \in ArraysOf(o) /\ obj[o].extra \in ArrayId
  BY <1>3, ArraysApart DEF Belongs
<1>5. ASSUME NEW p \in Obj \ {o}, IsUser(p)
      PROVE  /\ obj[p].slot # obj[o].slot /\ obj[p].extra # obj[o].extra
             /\ obj[p].extra \in ArrayId
  <2>1. Belongs(obj, array, usr, p)
    BY <1>2, <1>5
  <2>2. obj[p].extra \in ArraysOf(p)
    BY <2>1 DEF Belongs
  <2>3. obj[p].extra # obj[o].extra /\ obj[p].extra \in ArrayId
    BY <1>4, <2>2, ArraysApart
  <2> QED
    BY <1>3, <2>1, <2>3 DEF Belongs
<1>6. ASSUME NEW v \in Slot \ {obj[o].slot}, Listless(usr, v)
      PROVE  usr[v].obj \in Obj \ {o} /\ IsUser(usr[v].obj)
  <2>1. usr[v].obj \in Obj /\ obj[usr[v].obj].user /\ obj[usr[v].obj].slot = v
    BY <1>1, <1>6, ListlessUser
  <2> QED
    BY <2>1, <1>6 DEF IsUser
<1> QED
  BY <1>3, <1>4, <1>5, <1>6 DEF Belongs

\* Only users and what they are asked for change in a task.
LEMMA AskRight ==
  ASSUME IInv, phase = "task", UNCHANGED loopVars,
         UNCHANGED <<obj, ring, outbound, nusers, calls>>,
         NEW o \in Obj, IsUser(o), NEW w, Near(w, usr[obj[o].slot]), AddToFlush(obj[o].slot, w),
         NEW q, Agree(Listed(w), obj[o].extra, q),
         array' = [array EXCEPT ![obj[o].extra] = q],
         odone' \in Int, DoneIn(usr', odone')
  PROVE  IInv'
<1> DEFINE u == obj[o].slot
           a == obj[o].extra
           x == Listed(w)
<1>1. calls \in Seq(CallType) /\ ClosesIn(obj, usr, calls)
      /\ Version(obj, array, usr, obj, array) /\ usr \in Users /\ obj \in Objects
      /\ array \in Arrays
  BY CallsAre
<1>2. /\ u \in Slot /\ usr[u].obj = o /\ o # None /\ obj[o].state = "live"
      /\ a \in ArraysOf(o) /\ a \in ArrayId
      /\ \A p \in Obj \ {o} : IsUser(p) =>
           obj[p].slot # u /\ obj[p].extra # a /\ obj[p].extra \in ArrayId
      /\ \A v \in Slot \ {u} : Listless(usr, v) =>
           /\ usr[v].obj \in Obj \ {o} /\ IsUser(usr[v].obj)
           /\ obj[usr[v].obj].extra # a /\ obj[usr[v].obj].extra \in ArrayId
  BY UserIs
<1> HIDE DEF u
<1>3. /\ x.obj = o /\ x.flush
  BY <1>2, ListedIs DEF u
<1>4. /\ usr' = [usr EXCEPT ![u] = x] /\ usr' \in Users /\ usr'[u] = x
      /\ (\A v \in Slot : usr'[v].obj = usr[v].obj)
      /\ flush' \in Seq(Slot) /\ FlushIn(usr', flush', outbound) /\ UsersApart(usr')
  BY <1>2, AddRight DEF u
<1> HIDE DEF a, x
<1>5. q \in RequestType
  BY DEF Agree
<1>6. array' \in Arrays /\ array'[a] = q
      /\ \A b \in ArrayId : b # a => array'[b] = array[b]
  BY <1>1, <1>2, <1>5 DEF Arrays, a
<1>7. Unasked(usr, u, obj, array, obj, array')
  BY <1>2, <1>6 DEF Unasked
<1>8. ASSUME NEW i \in DOMAIN calls, calls[i].kind = "atomic"
      PROVE  Version(calls[i].obj, calls[i].array, usr', obj, array')
  BY <1>2, <1>7, <1>8, AddVersions DEF u
<1>9. Others(usr, u, o, obj, array, obj, array')
  BY <1>2, <1>6 DEF Others, IsUser
<1> DEFINE us2 == [usr EXCEPT ![u] = x]
<1>10. Belongs(obj, array', us2, o)
  BY <1>2, <1>3, <1>4, <1>6 DEF Belongs, x, a, u
<1>11. Version(obj, array', us2, obj, array')
  <2> HIDE DEF us2
  <2>1. ~(x.obj # None /\ ~x.flush)
    BY <1>3
  <2> QED
    BY <1>1, <1>2, <1>9, <1>10, <2>1, CurrentVersion DEF us2
<1>12. VersionsIn(obj, array', usr', calls)
  BY <1>4, <1>8, <1>11 DEF VersionsIn
<1>13. ASSUME NEW i \in DOMAIN calls, calls[i].kind = "close"
       PROVE  calls[i].user \in Slot
  <2>1. calls[i] \in CallType
    BY <1>1
  <2> QED
    BY <2>1, <1>13 DEF CallType, CloseType, AtomicType
<1>14. ClosesIn(obj, usr', calls)
  BY <1>1, <1>4, <1>13 DEF ClosesIn
<1>15. RingIn(usr', ring, nusers)
  BY <1>4 DEF IInv, UsersListed, RingIn
<1>16. PhaseRight' /\ phase' \in Phases /\ then'.kind \in Thens
       /\ (then'.kind = "create" => then'.arg \in BOOLEAN)
  BY TaskPhase
<1>17. Types'
  BY <1>4, <1>6, <1>16 DEF IInv, Types
<1>18. VersionsRight' /\ ClosesRight'
  BY <1>12, <1>14 DEF VersionsRight, ClosesRight
<1>19. UsersListed' /\ FlushListed' /\ DoneCounted'
  BY <1>4, <1>15 DEF UsersListed, FlushListed, DoneCounted, DoneIn
<1> QED
  BY <1>16, <1>17, <1>18, <1>19 DEF IInv

\* A user is near itself.
LEMMA NearItself ==
  ASSUME IInv, NEW u \in Slot
  PROVE  /\ Near(usr[u], usr[u]) /\ usr[u] \in UserType
         /\ DoneIn(usr, odone) /\ odone \in Int
BY DEF IInv, Types, Users, Near, DoneCounted, DoneIn

\* addtoflush() does not change what users are done.
LEMMA SameDone ==
  ASSUME IInv, NEW u \in Slot, usr[u].obj # None, AddToFlush(u, usr[u])
  PROVE  DoneIn(usr', odone)
<1>1. usr \in Users /\ Near(usr[u], usr[u]) /\ usr[u] \in UserType
      /\ DoneIn(usr, odone) /\ odone \in Int
  BY NearItself, CallsAre
<1> DEFINE x == Listed(usr[u])
<1>2. x.odone = usr[u].odone
  BY <1>1, ListedIs
<1>3. x.odone \in BOOLEAN
  BY <1>1, <1>2, UserFields
<1> HIDE DEF x
<1>4. DoneIn([usr EXCEPT ![u] = x], odone)
  BY <1>1, <1>2, <1>3, DoneCount
<1> QED
  BY <1>4 DEF AddToFlush, x

\* block_input()
LEMMA BlockRight ==
  ASSUME IInv, NEW o \in Obj, NEW on \in BOOLEAN, Block(o, on)
  PROVE  IInv'
<1> DEFINE u == obj[o].slot
           a == obj[o].extra
           r == array[a]
           q == [r EXCEPT !.blocked = on]
<1>1. /\ phase = "task" /\ UNCHANGED loopVars /\ IsUser(o) /\ AddToFlush(u, usr[u])
      /\ array' = [array EXCEPT ![a] = q]
      /\ UNCHANGED <<obj, ring, outbound, nusers, odone, calls>>
  BY DEF Block, Op, Runs, Ask, Request, countVars
<1>2. u \in Slot /\ usr[u].obj # None /\ Agree(usr[u], a, r) /\ usr[u].obj = o
  BY <1>1, UserIs
<1> HIDE DEF u, a
<1>3. Near(usr[u], usr[u]) /\ odone \in Int
  BY <1>2, NearItself
<1>4. DoneIn(usr', odone)
  BY <1>1, <1>2, SameDone
<1> DEFINE x == Listed(usr[u])
<1>5. x.flush /\ Marks(x, usr[u], a, r)
  BY <1>2, <1>3, ListedIs DEF a
<1>6. Agree(x, a, r)
  BY <1>2, <1>5, AgreeMarked
<1> HIDE DEF x
<1>7. r \in RequestType
  BY <1>2 DEF Agree
<1> HIDE DEF r
<1>8. /\ q \in RequestType /\ q.buf = r.buf /\ q.changed = r.changed /\ q.due = r.due
      /\ q.owed = r.owed /\ q.stopped = r.stopped
  BY <1>7 DEF RequestType
<1> HIDE DEF q
<1>9. Agree(x, a, q)
  BY <1>5, <1>6, <1>8, AgreeAsked
<1> QED
  BY <1>1, <1>3, <1>4, <1>9, AskRight DEF u, a, x

\* send_close()
LEMMA StopRight ==
  ASSUME IInv, NEW o \in Obj, Stop(o)
  PROVE  IInv'
<1> DEFINE u == obj[o].slot
           a == obj[o].extra
           r == array[a]
           q == [r EXCEPT !.stopped = TRUE]
<1>1. /\ phase = "task" /\ UNCHANGED loopVars /\ IsUser(o) /\ AddToFlush(u, usr[u])
      /\ array' = [array EXCEPT ![a] = q]
      /\ UNCHANGED <<obj, ring, outbound, nusers, odone, calls>>
  BY DEF Stop, Op, Runs, Ask, Request, countVars
<1>2. u \in Slot /\ usr[u].obj # None /\ Agree(usr[u], a, r) /\ usr[u].obj = o
  BY <1>1, UserIs
<1> HIDE DEF u, a
<1>3. Near(usr[u], usr[u]) /\ odone \in Int
  BY <1>2, NearItself
<1>4. DoneIn(usr', odone)
  BY <1>1, <1>2, SameDone
<1> DEFINE x == Listed(usr[u])
<1>5. x.flush /\ Marks(x, usr[u], a, r)
  BY <1>2, <1>3, ListedIs DEF a
<1>6. Agree(x, a, r)
  BY <1>2, <1>5, AgreeMarked
<1> HIDE DEF x
<1>7. r \in RequestType
  BY <1>2 DEF Agree
<1> HIDE DEF r
<1>8. /\ q \in RequestType /\ q.buf = r.buf /\ q.changed = r.changed /\ q.due = r.due
      /\ q.owed = r.owed /\ q.stopped
  BY <1>7 DEF RequestType
<1> HIDE DEF q
<1>9. Agree(x, a, q)
  BY <1>5, <1>6, <1>8, AgreeAsked
<1> QED
  BY <1>1, <1>3, <1>4, <1>9, AskRight DEF u, a, x

\* send_message()
LEMMA SendRight ==
  ASSUME IInv, NEW o \in Obj, NEW b \in Byte, Send(o, b)
  PROVE  IInv'
<1> DEFINE u == obj[o].slot
           a == obj[o].extra
           r == array[a]
           new == r.buf = None
           w == IF new THEN [usr[u] EXCEPT !.odone = FALSE, !.output = TRUE] ELSE usr[u]
           x == Listed(w)
           y == Listed(usr[u])
           q == Sent(y, r, b)
<1>1. /\ phase = "task" /\ UNCHANGED loopVars /\ IsUser(o) /\ ~r.stopped
      /\ AddToFlush(u, w)
      /\ odone' = IF new /\ usr[u].odone THEN odone - 1 ELSE odone
      /\ array' = [array EXCEPT ![a] = q] \/ UNCHANGED array
      /\ UNCHANGED <<obj, ring, outbound, nusers, calls>>
  BY DEF Send, Write, Op, Runs, Ask, Request, Sent, OldText
<1>2. u \in Slot /\ usr[u].obj # None /\ Agree(usr[u], a, r) /\ usr[u].obj = o /\ a \in ArrayId
  BY <1>1, UserIs
<1> HIDE DEF u, a
<1>3. /\ Near(usr[u], usr[u]) /\ odone \in Int /\ usr[u] \in UserType
      /\ DoneIn(usr, odone) /\ usr \in Users /\ array \in Arrays
  BY <1>2, NearItself, CallsAre
<1> HIDE DEF r
<1>4. /\ w.odone = (usr[u].odone /\ ~new) /\ Near(w, usr[u])
  <2>1. CASE new
    <3> DEFINE w1 == [usr[u] EXCEPT !.odone = FALSE]
               w2 == [w1 EXCEPT !.output = TRUE]
    <3>1. w = w2
      BY <2>1, <1>3 DEF UserType
    <3>2. w2 \in UserType /\ ~w2.odone /\ w2.obj = usr[u].obj /\ w2.extra = usr[u].extra
          /\ w2.flush = usr[u].flush /\ w2.outbuf = usr[u].outbuf /\ w2.osdone = usr[u].osdone
          /\ w2.blocked = usr[u].blocked /\ w2.stopped = usr[u].stopped /\ w2.odone = FALSE
      BY <1>3 DEF UserType
    <3> HIDE DEF w2, w
    <3> QED
      BY <2>1, <3>1, <3>2 DEF Near
  <2>2. CASE ~new
    <3>1. w = usr[u]
      BY <2>2
    <3>2. usr[u].odone \in BOOLEAN
      BY <1>3, UserFields
    <3> QED
      BY <2>2, <3>1, <3>2, <1>3
  <2> QED
    BY <2>1, <2>2
<1> HIDE DEF w
<1>5. /\ x.odone = w.odone /\ Marks(x, usr[u], a, r)
  BY <1>2, <1>4, ListedIs DEF a, r
<1>6. Marks(y, usr[u], a, r)
  BY <1>2, <1>3, ListedIs DEF a, r
<1>7. usr[u].flush /\ ~usr[u].outbuf => usr[u].osdone = 0 \/ usr[u].stopped
  BY <1>2 DEF IInv, UsersListed, UsersApart
<1> HIDE DEF x, y
<1>8. new => ~x.odone
  BY <1>4, <1>5
<1>9. Agree(x, a, r)
  BY <1>2, <1>5, AgreeMarked
<1>10. Agree(x, a, q)
  BY <1>1, <1>2, <1>3, <1>5, <1>6, <1>7, <1>8, AgreeSent
<1>11. odone' \in Int /\ DoneIn(usr', odone')
  <2>1. x.odone = (usr[u].odone /\ ~new) /\ usr[u].odone \in BOOLEAN /\ new \in BOOLEAN
    BY <1>3, <1>4, <1>5, UserFields
  <2> HIDE DEF new
  <2>4. x.odone \in BOOLEAN
    BY <2>1
  <2>2. LET us2 == [usr EXCEPT ![u] = x]
        IN  /\ x.odone = usr[u].odone => DoneIn(us2, odone)
            /\ x.odone /\ ~usr[u].odone => DoneIn(us2, odone + 1)
            /\ ~x.odone /\ usr[u].odone => DoneIn(us2, odone - 1)
    BY <2>4, <1>2, <1>3, DoneCount
  <2>3. usr' = [usr EXCEPT ![u] = x]
    BY <1>1 DEF AddToFlush, x
  <2>5. CASE new /\ usr[u].odone
    <3>1. ~x.odone
      BY <2>1, <2>5
    <3>2. DoneIn([usr EXCEPT ![u] = x], odone - 1)
      BY <3>1, <2>2, <2>5
    <3>3. odone' = odone - 1
      BY <2>5, <1>1
    <3> QED
      BY <3>2, <3>3, <2>3, <1>3
  <2>6. CASE ~(new /\ usr[u].odone)
    <3>1. x.odone = usr[u].odone
      BY <2>1, <2>4, <2>6
    <3> QED
      BY <3>1, <2>2, <2>3, <2>6, <1>1, <1>3
  <2> QED
    BY <2>5, <2>6
<1> HIDE DEF q
<1>12. CASE array' = [array EXCEPT ![a] = q]
  BY <1>1, <1>4, <1>10, <1>11, <1>12, AskRight DEF u, a, x
<1>13. CASE UNCHANGED array
  <2>1. array' = [array EXCEPT ![a] = r]
    BY <1>2, <1>3, <1>13 DEF Arrays, r
  <2> QED
    BY <1>1, <1>4, <1>9, <1>11, <2>1, AskRight DEF u, a, x
<1> QED
  BY <1>1, <1>12, <1>13

\* close() returns, and its object is destructed.
LEMMA EndCloseRight ==
  ASSUME IInv, EndClose
  PROVE  IInv'
<1> DEFINE n == Len(calls)
           c == Last(calls)
           f == Front(calls)
           o == c.obj
           u == c.user
<1>1. /\ phase = "task" /\ UNCHANGED loopVars /\ calls # <<>> /\ c.kind = "close"
      /\ calls' = f
      /\ IF c.destruct
           THEN /\ AddToFlush(u, usr[u])
                /\ obj' = [obj EXCEPT ![o].user = FALSE, ![o].state = "dead"]
           ELSE UNCHANGED <<usr, flush, obj>>
      /\ UNCHANGED <<array, ring, outbound, nusers, odone>>
  BY DEF EndClose, InTask, Runs, countVars
<1>2. calls \in Seq(CallType) /\ ClosesIn(obj, usr, calls) /\ VersionsIn(obj, array, usr, calls)
      /\ obj \in Objects /\ array \in Arrays /\ usr \in Users
      /\ Version(obj, array, usr, obj, array)
  BY CallsAre
<1>3. /\ n \in Nat /\ n >= 1 /\ DOMAIN calls = 1 .. n
      /\ f \in Seq(CallType) /\ Len(f) = n - 1 /\ DOMAIN f = 1 .. n - 1
      /\ \A i \in 1 .. n - 1 : f[i] = calls[i]
      /\ c = calls[n] /\ c \in CallType
  BY <1>1, <1>2, FrontIs
<1>4. VersionsIn(obj, array, usr, f) /\ ClosesIn(obj, usr, f)
  BY <1>1, <1>2, VersionsFront
<1>5. /\ o \in Obj /\ u \in Slot /\ usr[u].obj # None
      /\ c.destruct => Closing(obj, c)
  <2>1. c \in CloseType
    BY <1>1, <1>3 DEF CallType, AtomicType
  <2>2. n \in DOMAIN calls
    BY <1>3
  <2> QED
    BY <1>1, <1>2, <1>3, <2>1, <2>2 DEF CloseType, ClosesIn
<1> HIDE DEF n, c, f
<1>6. CASE ~c.destruct
  <2>1. ObjectsOnly
    BY <1>1, <1>6 DEF ObjectsOnly
  <2> QED
    BY <1>1, <1>2, <1>3, <1>4, <1>6, <2>1, ObjectsOnlyRight
<1>7. CASE c.destruct
  <2> DEFINE x == Listed(usr[u])
             d == [obj[o] EXCEPT !.user = FALSE, !.state = "dead"]
             p == usr[u].obj
  <2>1. AddToFlush(u, usr[u]) /\ obj' = [obj EXCEPT ![o] = d]
    BY <1>1, <1>2, <1>5, <1>7 DEF Objects
  <2>2. d \in ObjectType /\ ~d.user /\ d.state = "dead" /\ d.extra = obj[o].extra
    <3>1. obj[o] \in ObjectType
      BY <1>2, <1>5 DEF Objects
    <3> QED
      BY <3>1 DEF ObjectType
  <2> HIDE DEF d, u, o
  <2>3. obj' \in Objects /\ obj'[o] = d /\ \A m \in Obj \ {o} : obj'[m] = obj[m]
    BY <1>2, <1>5, <2>1, <2>2 DEF Objects
  <2>4. Near(usr[u], usr[u]) /\ odone \in Int
    BY <1>5, NearItself
  <2>5. /\ p \in Obj /\ x.obj = p /\ x.flush /\ x \in UserType
        /\ Marks(x, usr[u], obj[p].extra, array[obj[p].extra])
    BY <1>5, <2>4, ListedIs
  <2>6. /\ usr' = [usr EXCEPT ![u] = x] /\ usr' \in Users /\ usr'[u] = x
        /\ (\A v \in Slot : usr'[v].obj = usr[v].obj)
        /\ flush' \in Seq(Slot) /\ FlushIn(usr', flush', outbound) /\ UsersApart(usr')
    BY <1>5, <2>1, <2>4, AddRight
  <2>7. DoneIn(usr', odone)
    BY <1>5, <2>1, SameDone
  <2>8. ASSUME NEW m \in Obj, obj'[m].user
        PROVE  m # o /\ IsUser(m) /\ obj'[m] = obj[m]
    BY <2>2, <2>3, <2>8 DEF IsUser
  <2>9. ASSUME NEW v \in Slot \ {u}, Listless(usr, v)
        PROVE  usr[v].obj # o /\ usr[v].obj \in Obj /\ obj'[usr[v].obj] = obj[usr[v].obj]
    <3>1. usr[v].obj \in Obj /\ obj[usr[v].obj].user /\ obj[usr[v].obj].slot = v
          /\ obj[usr[v].obj].state = "live"
      BY <1>2, <2>9, ListlessUser
    <3>2. usr[v].obj # o
      BY <1>5, <1>7, <3>1, <2>9 DEF Closing, o, u
    <3> QED
      BY <2>3, <3>1, <3>2
  <2>10. Unasked(usr, u, obj, array, obj', array)
    BY <2>9 DEF Unasked
  <2>11. ASSUME NEW i \in DOMAIN calls, calls[i].kind = "atomic"
         PROVE  Version(calls[i].obj, calls[i].array, usr', obj', array)
    BY <1>5, <2>1, <2>4, <2>10, <2>11, AddVersions
  \* The user in the slot may be that of another object by now.
  <2>12. ASSUME p # o, obj[p].user
         PROVE  Version(obj', array, usr', obj', array)
    <3>1. IsUser(p) /\ obj'[p] = obj[p]
      BY <2>3, <2>5, <2>12 DEF IsUser
    <3>2. Belongs(obj, array, usr, p) /\ obj[p].slot = u
      <4>1. Unique(usr)
        BY CallsAre
      <4>2. Belongs(obj, array, usr, p)
        BY <1>2, <2>5, <2>12 DEF Version
      <4> QED
        BY <4>1, <4>2, <1>5 DEF Belongs, Unique
    <3>3. Agree(x, obj[p].extra, array[obj[p].extra])
      BY SMTT(60), <2>5, <3>2, AgreeMarked DEF Belongs
    <3>4. Belongs(obj', array, usr', p)
      BY Zenon, <2>5, <2>6, <3>1, <3>2, <3>3 DEF Belongs
    <3>5. Others(usr, u, p, obj, array, obj', array)
      <4>1. ASSUME NEW m \in Obj \ {p}, obj'[m].user
            PROVE  obj'[m] = obj[m] /\ obj[m].slot # u
        <5>1. IsUser(m) /\ obj'[m] = obj[m]
          BY <4>1, <2>8
        <5>2. obj[m].slot # obj[p].slot
          BY <3>1, <5>1, <2>5, UserIs
        <5> QED
          BY <5>1, <5>2, <3>2
      <4> QED
        BY <4>1, <2>9 DEF Others
    <3> DEFINE us2 == [usr EXCEPT ![u] = x]
    <3>6. Belongs(obj', array, us2, p)
      BY <3>4, <2>6
    <3> HIDE DEF x, p, us2
    <3>7. ~(x.obj # None /\ ~x.flush)
      BY <2>5
    <3>8. Version(obj', array, us2, obj', array)
      BY <1>2, <1>5, <2>5, <3>5, <3>6, <3>7, CurrentVersion DEF us2
    <3> QED
      BY <3>8, <2>6 DEF us2
  <2>13. ASSUME ~(p # o /\ obj[p].user)
         PROVE  Version(obj', array, usr', obj', array)
    <3>1. Others(usr, u, o, obj, array, obj', array)
      <4>1. ASSUME NEW m \in Obj \ {o}, obj'[m].user
            PROVE  obj'[m] = obj[m] /\ obj[m].slot # u
        <5>1. IsUser(m) /\ obj'[m] = obj[m]
          BY <4>1, <2>8
        <5>2. usr[obj[m].slot].obj = m
          BY <5>1, UserIs
        <5> QED
          BY <5>1, <5>2, <2>13 DEF IsUser
      <4> QED
        BY <4>1, <2>9 DEF Others
    <3> DEFINE us2 == [usr EXCEPT ![u] = x]
    <3> HIDE DEF x, us2
    <3>2. ~obj'[o].user /\ ~(x.obj # None /\ ~x.flush)
      BY <2>2, <2>3, <2>5
    <3>3. Version(obj', array, us2, obj', array)
      BY <1>2, <1>5, <3>1, <3>2, CurrentVersion DEF us2, o
    <3> QED
      BY <3>3, <2>6 DEF us2
  <2>14. VersionsIn(obj', array, usr', calls)
    BY <2>11, <2>12, <2>13 DEF VersionsIn
  <2>15. ASSUME NEW i \in DOMAIN calls, calls[i].kind = "close"
         PROVE  /\ calls[i].user \in Slot /\ calls[i].obj \in Obj
                /\ Closing(obj, calls[i]) => Closing(obj', calls[i])
    <3>1. calls[i] \in CallType
      BY <1>2
    <3>2. calls[i].user \in Slot /\ calls[i].obj \in Obj
      BY <3>1, <2>15 DEF CallType, CloseType, AtomicType
    <3> QED
      BY <3>2, <2>2, <2>3 DEF Closing
  <2>16. ClosesIn(obj', usr', calls)
    BY <1>2, <2>6, <2>15 DEF ClosesIn
  <2>17. VersionsIn(obj', array, usr', f) /\ ClosesIn(obj', usr', f)
    BY <1>1, <1>2, <2>14, <2>16, VersionsFront DEF f
  <2>18. RingIn(usr', ring, nusers)
    BY <2>6 DEF IInv, UsersListed, RingIn
  <2>19. PhaseRight' /\ phase' \in Phases /\ then'.kind \in Thens
         /\ (then'.kind = "create" => then'.arg \in BOOLEAN)
    BY <1>1, TaskPhase
  <2>20. Types'
    BY <1>1, <1>3, <2>3, <2>6, <2>19 DEF IInv, Types, CallType
  <2>21. VersionsRight' /\ ClosesRight'
    BY <1>1, <2>17 DEF VersionsRight, ClosesRight
  <2>22. UsersListed' /\ FlushListed' /\ DoneCounted'
    BY <1>1, <2>6, <2>7, <2>18 DEF UsersListed, FlushListed, DoneCounted, DoneIn
  <2> QED
    BY <2>19, <2>20, <2>21, <2>22 DEF IInv
<1> QED
  BY <1>6, <1>7

-----------------------------------------------------------------------------
(* New users.                                                               *)

\* What a new user x of object o is set up with: array a, which holds q.
NewSetUp(o, u, a, x, q) ==
  /\ Live(o) /\ ~IsUser(o) /\ (\A v \in Slot : usr[v].obj # o)
  /\ a \in ArraysOf(o)
  /\ x \in UserType /\ x.obj = o /\ x.extra = a /\ Calm(x)
  /\ q \in RequestType /\ q.buf = None /\ ~q.changed /\ q.due = <<>>
  /\ (x.flush \/ (~q.blocked /\ ~q.stopped))
  /\ SetUp(o, u, a)
  /\ usr' = [usr EXCEPT ![u] = x]
  /\ array' \in Arrays /\ array'[a] = q
  /\ \A p \in Obj \ {o} : obj[p].extra \in ArrayId \ {a} =>
                             array'[obj[p].extra] = array[obj[p].extra]

\* A slot that a new user may have: it is free, or its object is no user.
Usable(u) == usr[u].obj = None \/ (~IsUser(usr[u].obj) /\ usr[u].flush)

\* The new user suits its request, and nothing changes for the others.
LEMMA SetUpRight ==
  ASSUME IInv, NEW o \in Obj, NEW u \in Slot, NEW a, NEW x, NEW q,
         NewSetUp(o, u, a, x, q), Usable(u), ~usr[u].odone
  PROVE  /\ obj' \in Objects /\ usr' \in Users
         /\ usr'[u] = x /\ (\A v \in Slot \ {u} : usr'[v] = usr[v])
         /\ Version(obj', array', usr', obj', array')
         /\ Unasked(usr, u, obj, array, obj', array')
         /\ UsersApart(usr') /\ DoneIn(usr', odone) /\ ClosesIn(obj', usr', calls)
<1> DEFINE n == [obj[o] EXCEPT !.user = TRUE, !.slot = u, !.extra = a]
<1>1. calls \in Seq(CallType) /\ ClosesIn(obj, usr, calls)
      /\ Version(obj, array, usr, obj, array) /\ usr \in Users /\ obj \in Objects
      /\ Unique(usr)
  BY CallsAre
<1>2. o # None /\ a \in ArrayId
  BY ArraysApart, CommAssumption DEF NewSetUp
<1>3. /\ n \in ObjectType /\ n.user /\ n.slot = u /\ n.extra = a /\ n.state = "live"
      /\ obj' = [obj EXCEPT ![o] = n]
  <2>1. obj[o] \in ObjectType /\ obj[o].state = "live"
    BY <1>1 DEF Objects, NewSetUp, Live
  <2>2. obj' = [obj EXCEPT ![o] = n]
    BY <1>1, <2>1 DEF NewSetUp, SetUp, Objects, ObjectType
  <2>3. n \in ObjectType /\ n.user /\ n.slot = u /\ n.extra = a /\ n.state = "live"
    BY <1>2, <2>1 DEF ObjectType
  <2> QED
    BY <2>2, <2>3
<1> HIDE DEF n
<1>4. obj' \in Objects /\ obj'[o] = n /\ \A p \in Obj \ {o} : obj'[p] = obj[p]
  BY <1>1, <1>3 DEF Objects
<1>5. /\ x \in UserType /\ x.obj = o /\ usr' = [usr EXCEPT ![u] = x]
      /\ ~x.odone /\ x.osdone = 0
  BY DEF NewSetUp, Calm
<1>6. usr' \in Users /\ usr'[u] = x /\ \A v \in Slot \ {u} : usr'[v] = usr[v]
  BY <1>1, <1>5 DEF Users
\* Other objects.
<1>7. ASSUME NEW p \in Obj \ {o}, IsUser(p)
      PROVE  obj[p].slot # u /\ array'[obj[p].extra] = array[obj[p].extra]
  <2>1. usr[obj[p].slot].obj = p /\ p # None /\ obj[p].extra \in ArraysOf(p)
        /\ obj[p].extra \in ArrayId
    BY <1>7, UserIs
  <2>2. obj[p].slot # u
    BY <1>7, <2>1 DEF Usable
  <2>3. a \in ArraysOf(o)
    BY DEF NewSetUp
  <2>4. obj[p].extra # a
    BY <2>1, <2>3, ArraysApart
  <2> QED
    BY <2>1, <2>2, <2>4 DEF NewSetUp
<1>8. ASSUME NEW v \in Slot \ {u}, Listless(usr, v)
      PROVE  usr[v].obj \in Obj \ {o} /\ IsUser(usr[v].obj)
  <2>1. usr[v].obj \in Obj /\ obj[usr[v].obj].user
    BY <1>1, <1>8, ListlessUser
  <2> QED
    BY <2>1 DEF IsUser, NewSetUp
<1>9. Others(usr, u, o, obj, array, obj', array')
  BY <1>4, <1>7, <1>8 DEF Others, IsUser
<1>10. Unasked(usr, u, obj, array, obj', array')
  BY <1>4, <1>7, <1>8 DEF Unasked
<1>11. Belongs(obj', array', usr', o)
  <2>1. Agree(x, a, q)
    <3>1. x.flush \in BOOLEAN /\ x.blocked = FALSE /\ x.stopped = FALSE
      BY <1>5, UserFields DEF NewSetUp, Calm
    <3>2. x.osdone = 0 /\ ~x.odone /\ ~x.outbuf /\ x.extra = a
      BY DEF NewSetUp, Calm
    <3>3. q \in RequestType /\ q.buf = None /\ ~q.changed /\ q.due = <<>>
          /\ (~x.flush => ~q.blocked /\ ~q.stopped)
      BY DEF NewSetUp
    <3>4. Agree(x, x.extra, q)
      BY <3>1, <3>2, <3>3, AgreeNew
    <3> QED
      BY <3>2, <3>4
  <2> QED
    BY <1>3, <1>4, <1>5, <1>6, <2>1 DEF Belongs, NewSetUp
<1> DEFINE us2 == [usr EXCEPT ![u] = x]
<1>12. Version(obj', array', us2, obj', array')
  <2>1. obj'[o].user => Belongs(obj', array', us2, o)
    BY <1>5, <1>11
  <2>2. x.obj # None /\ ~x.flush => obj'[x.obj].user /\ obj'[x.obj].slot = u
    BY <1>3, <1>4, <1>5
  <2> QED
    BY <1>1, <1>9, <2>1, <2>2, CurrentVersion
<1>13. UsersApart(usr')
  <2>1. UsersApart(usr)
    BY DEF IInv, UsersListed
  <2>2. \A v \in Slot : usr'[v].obj = None => usr'[v] = NoUser
    BY <1>2, <1>5, <1>6, <2>1 DEF UsersApart
  <2>3. \A v, w \in Slot : usr'[v].obj # None /\ usr'[v].obj = usr'[w].obj => v = w
    <3>1. \A v \in Slot : usr[v].obj # o
      BY DEF NewSetUp
    <3> QED
      BY <1>5, <1>6, <2>1, <3>1 DEF UsersApart
  <2>4. \A v \in Slot : usr'[v].flush /\ ~usr'[v].outbuf => usr'[v].osdone = 0 \/ usr'[v].stopped
    BY <1>5, <1>6, <2>1 DEF UsersApart
  <2> QED
    BY <2>2, <2>3, <2>4 DEF UsersApart
<1>14. DoneIn(us2, odone)
  <2>1. DoneIn(usr, odone) /\ odone \in Int /\ usr[u] \in UserType
    BY NearItself
  <2>2. x.odone \in BOOLEAN /\ x.odone = usr[u].odone
    BY <1>5, <2>1, UserFields
  <2> QED
    BY <1>1, <2>1, <2>2, DoneCount
<1>15. ASSUME NEW i \in DOMAIN calls, calls[i].kind = "close"
       PROVE  /\ calls[i].user \in Slot
              /\ Closing(obj, calls[i]) => Closing(obj', calls[i])
  <2>1. calls[i] \in CallType
    BY <1>1
  <2>2. calls[i].user \in Slot /\ calls[i].obj \in Obj
    BY <2>1, <1>15 DEF CallType, CloseType, AtomicType
  <2>3. ~(obj[o].state = "dead" \/ obj[o].user)
    BY DEF NewSetUp, Live, IsUser
  <2> QED
    BY <1>4, <2>2, <2>3 DEF Closing
<1>16. \A v \in Slot : usr[v].obj # None => usr'[v].obj # None
  BY <1>2, <1>5, <1>6
<1>17. ClosesIn(obj', usr', calls)
  BY <1>1, <1>15, <1>16 DEF ClosesIn
<1> QED
  BY <1>4, <1>5, <1>6, <1>10, <1>12, <1>13, <1>14, <1>17

\* The array that a new user gets is one of its object.
LEMMA NewArrayIs ==
  ASSUME NEW o, NewArrays(o) # {}
  PROVE  NewArray(o) \in ArraysOf(o)
<1>1. NewArray(o) \in NewArrays(o)
  BY DEF NewArray
<1> QED
  BY <1>1 DEF NewArrays, ArraysOf

\* A slot that is not in the ring is free.
LEMMA FreeSlot ==
  ASSUME IInv, NEW u \in FreeUsers
  PROVE  u \in Slot /\ u \notin Range(ring) /\ usr[u] = NoUser /\ usr[u].obj = None
         /\ ~usr[u].flush /\ ~usr[u].odone
<1>1. u \in Slot /\ u \notin Range(ring)
  BY DEF FreeUsers
<1>2. usr[u].obj = None
  BY <1>1 DEF IInv, UsersListed, RingIn
<1>3. usr[u] = NoUser
  BY <1>1, <1>2 DEF IInv, UsersListed, UsersApart
<1>4. ~NoUser.flush /\ ~NoUser.odone
  BY DEF NoUser, NewUser
<1> QED
  BY <1>1, <1>2, <1>3, <1>4

\* Requests of new connections.
LEMMA RequestsAre ==
  ASSUME NEW kind \in {"tcp", "dgram"}, NEW q,
         q = [NoRequest EXCEPT !.connect = kind, !.blocked = (kind = "tcp"),
                               !.stopped = (kind = "tcp")]
  PROVE  /\ NoRequest \in RequestType /\ NoRequest.buf = None /\ ~NoRequest.changed
         /\ NoRequest.due = <<>> /\ ~NoRequest.blocked /\ ~NoRequest.stopped
         /\ NoRequest.owed = FALSE
         /\ q \in RequestType /\ q.buf = None /\ ~q.changed /\ q.due = <<>>
<1> DEFINE t == kind = "tcp"
<1>1. <<>> \in Seq(Byte) /\ t \in BOOLEAN
  OBVIOUS
<1>2. /\ NoRequest \in RequestType /\ NoRequest.buf = None /\ NoRequest.changed = FALSE
      /\ NoRequest.due = <<>> /\ NoRequest.blocked = FALSE /\ NoRequest.stopped = FALSE
      /\ NoRequest.owed = FALSE
  BY <1>1 DEF NoRequest, RequestType
<1>3. q = [NoRequest EXCEPT !.connect = kind, !.blocked = t, !.stopped = t]
  OBVIOUS
<1> HIDE DEF t
<1>4. q \in RequestType /\ q.buf = None /\ ~q.changed /\ q.due = <<>>
  BY <1>1, <1>2, <1>3 DEF RequestType
<1> QED
  BY <1>2, <1>4

\* A connection is accepted, and the object that the driver gave is its user.
LEMMA CreateUserRight ==
  ASSUME IInv, ~Reconnects, NEW o \in Obj, NEW u \in Slot, CreateUser(o, u)
  PROVE  IInv'
<1> DEFINE a == NewArray(o)
           x == [NewUser(o, a) EXCEPT !.conn = "open", !.dgram = then.arg]
           q == NoRequest
<1>1. /\ phase = "task" /\ calls = <<>> /\ calls' = <<>> /\ Live(o) /\ ~IsUser(o)
      /\ (\A v \in Slot : usr[v].obj # o)
      /\ then.arg \in BOOLEAN
      /\ u \in FreeUsers /\ a \in ArraysOf(o) /\ SetUp(o, u, a)
      /\ usr' = [usr EXCEPT ![u] = x] /\ array' = [array EXCEPT ![a] = q]
      /\ ring' = Append(ring, u) /\ nusers' = nusers + 1
      /\ phase' = "task" /\ then'.kind = "accept"
      /\ UNCHANGED <<flush, outbound, odone>>
  BY NewArrayIs DEF CreateUser, MayConnect, StartTask, IInv, Types
<1>2. usr \in Users /\ obj \in Objects /\ array \in Arrays
      /\ ring \in Seq(Slot) /\ nusers \in Int /\ RingIn(usr, ring, nusers)
      /\ flush \in Seq(Slot) /\ outbound \in Seq(Slot) /\ odone \in Int
      /\ FlushIn(usr, flush, outbound)
  BY DEF IInv, Types, UsersListed, FlushListed
<1> HIDE DEF a
<1>3. a \in ArrayId
  BY <1>1, ArraysApart
<1>4. /\ x \in UserType /\ x.obj = o /\ x.extra = a /\ Calm(x) /\ ~x.flush
  BY <1>1, <1>3 DEF NewUser, UserType, Calm
<1> HIDE DEF x, q
<1>5. q \in RequestType /\ q.buf = None /\ ~q.changed /\ q.due = <<>> /\ ~q.blocked /\ ~q.stopped
  BY RequestsAre DEF q
<1>6. array' \in Arrays /\ array'[a] = q /\ \A b \in ArrayId \ {a} : array'[b] = array[b]
  BY <1>1, <1>2, <1>3, <1>5 DEF Arrays
<1>7. /\ u \notin Range(ring) /\ usr[u].obj = None /\ ~usr[u].flush /\ ~usr[u].odone
  BY <1>1, FreeSlot
<1>8. NewSetUp(o, u, a, x, q) /\ Usable(u)
  BY <1>1, <1>4, <1>5, <1>6, <1>7 DEF NewSetUp, Usable
<1>9. /\ obj' \in Objects /\ usr' \in Users
      /\ usr'[u] = x /\ (\A v \in Slot \ {u} : usr'[v] = usr[v])
      /\ Version(obj', array', usr', obj', array')
      /\ UsersApart(usr') /\ DoneIn(usr', odone) /\ ClosesIn(obj', usr', calls)
  BY <1>7, <1>8, SetUpRight
<1>10. /\ ring' \in Seq(Slot) /\ Len(ring') = Len(ring) + 1 /\ Range(ring') = Range(ring) \cup {u}
       /\ IsInjective(ring')
  BY <1>1, <1>2, <1>7, Appended DEF RingIn
<1>11. RingIn(usr', ring', nusers')
  <2>1. x.obj # None
    BY <1>4, CommAssumption
  <2> QED
    BY <1>1, <1>2, <1>9, <1>10, <2>1 DEF RingIn
<1>12. FlushIn(usr', flush', outbound')
  <2>1. \A v \in Slot : usr'[v].flush <=> usr[v].flush
    BY <1>4, <1>7, <1>9
  <2>2. \A v \in Range(outbound) : v \in Slot \ {u}
    BY <1>2, <1>7, RangeIs DEF FlushIn
  <2>3. \A v \in Range(outbound) : Calm(usr'[v])
    BY <1>2, <1>9, <2>2 DEF FlushIn
  <2> QED
    BY <1>1, <1>2, <2>1, <2>3 DEF FlushIn
<1>13. Types'
  BY <1>1, <1>2, <1>6, <1>9, <1>10 DEF Types, Phases, Thens
<1>14. VersionsRight' /\ ClosesRight'
  BY <1>1, <1>9 DEF VersionsRight, ClosesRight, VersionsIn
<1>15. UsersListed' /\ FlushListed' /\ DoneCounted' /\ PhaseRight'
  BY <1>1, <1>9, <1>11, <1>12 DEF UsersListed, FlushListed, DoneCounted, DoneIn, PhaseRight
<1> QED
  BY <1>13, <1>14, <1>15 DEF IInv

\* connect() and connect_datagram(): the user is to be connected at the end of
\* the task.
LEMMA ConnectRight ==
  ASSUME IInv, ~Reconnects, NEW o \in Obj, NEW u \in Slot, NEW kind \in Connects,
         Connect(o, u, kind)
  PROVE  IInv'
<1> DEFINE a == NewArray(o)
           x == [NewUser(o, a) EXCEPT !.flush = TRUE, !.opending = TRUE,
                                      !.dgram = (kind = "dgram")]
           q == [NoRequest EXCEPT !.connect = kind, !.blocked = (kind = "tcp"),
                                  !.stopped = (kind = "tcp")]
           k == Kept(array, obj', usr', calls)
<1>1. /\ phase = "task" /\ UNCHANGED loopVars /\ Live(o) /\ ~IsUser(o)
      /\ (\A v \in Slot : usr[v].obj # o)
      /\ a \in ArraysOf(o) /\ SetUp(o, u, a)
      /\ usr' = [usr EXCEPT ![u] = x] /\ array' = [k EXCEPT ![a] = q]
      /\ UNCHANGED <<flush, odone, calls>>
  BY NewArrayIs DEF Connect, MayConnect, Op, Runs
<1>2. \/ /\ u \in FreeUsers /\ outbound' = <<u>> \o outbound
         /\ ring' = Append(ring, u) /\ nusers' = nusers + 1
      \/ /\ u \in Undone /\ MayReuse(u) /\ UNCHANGED <<outbound, ring, nusers>>
  BY DEF Connect
<1>3. usr \in Users /\ obj \in Objects /\ array \in Arrays
      /\ ring \in Seq(Slot) /\ nusers \in Int /\ RingIn(usr, ring, nusers)
      /\ flush \in Seq(Slot) /\ outbound \in Seq(Slot) /\ odone \in Int
      /\ FlushIn(usr, flush, outbound) /\ calls \in Seq(CallType)
  BY CallsAre DEF IInv, Types, UsersListed, FlushListed
<1> HIDE DEF a
<1>4. a \in ArrayId /\ kind \in {"tcp", "dgram"}
  BY <1>1, ArraysApart, CommAssumption
<1>5. /\ x \in UserType /\ x.obj = o /\ x.extra = a /\ Calm(x) /\ x.flush
  BY <1>4 DEF NewUser, UserType, Calm
<1> HIDE DEF x
<1>6. q \in RequestType /\ q.buf = None /\ ~q.changed /\ q.due = <<>>
  BY <1>4, RequestsAre
<1> HIDE DEF q
<1>7. k \in Arrays /\ \A p \in Obj : obj'[p].extra \in ArrayId => k[obj'[p].extra] = array[obj'[p].extra]
  BY <1>3, KeptIs
<1> HIDE DEF k
<1>8. array' \in Arrays /\ array'[a] = q /\ \A b \in ArrayId \ {a} : array'[b] = k[b]
  BY <1>1, <1>4, <1>6, <1>7 DEF Arrays
<1>9. ASSUME NEW p \in Obj \ {o}, obj[p].extra \in ArrayId \ {a}
      PROVE  array'[obj[p].extra] = array[obj[p].extra]
  <2>1. obj'[p] = obj[p]
    BY <1>1, <1>3 DEF SetUp, Objects
  <2> QED
    BY <2>1, <1>7, <1>8, <1>9
<1>10. NewSetUp(o, u, a, x, q)
  BY <1>1, <1>5, <1>6, <1>8, <1>9 DEF NewSetUp
\* The slot is not in use, or it is that of a connection that was undone.
<1>11. u \in Undone => u \in Range(outbound) /\ ~IsUser(usr[u].obj)
  <2>1. ASSUME NEW j \in DOMAIN outbound, u = outbound[j]
        PROVE  u \in Range(outbound)
    BY <2>1 DEF Range
  <2> QED
    BY <2>1 DEF Undone
<1>12. u \in Undone => usr[u].flush /\ Calm(usr[u]) /\ usr[u].obj # None /\ u \in Range(ring)
  <2>1. ASSUME u \in Range(outbound)
        PROVE  usr[u].flush /\ Calm(usr[u]) /\ usr[u].obj # None
    <3>1. usr[u].flush /\ Calm(usr[u])
      BY <1>3, <2>1 DEF FlushIn
    <3>2. ~NoUser.flush
      BY DEF NoUser, NewUser
    <3>3. usr[u].obj # None
      BY <3>1, <3>2 DEF IInv, UsersListed, UsersApart
    <3> QED
      BY <3>1, <3>3
  <2> QED
    BY <2>1, <1>3, <1>11 DEF RingIn
<1>13. Usable(u) /\ ~usr[u].odone
  BY <1>2, <1>11, <1>12, FreeSlot DEF Usable, Calm
<1>14. /\ obj' \in Objects /\ usr' \in Users
       /\ usr'[u] = x /\ (\A v \in Slot \ {u} : usr'[v] = usr[v])
       /\ Version(obj', array', usr', obj', array')
       /\ Unasked(usr, u, obj, array, obj', array')
       /\ UsersApart(usr') /\ DoneIn(usr', odone) /\ ClosesIn(obj', usr', calls)
  BY <1>10, <1>13, SetUpRight
<1>15. ASSUME NEW i \in DOMAIN calls, calls[i].kind = "atomic"
       PROVE  Version(calls[i].obj, calls[i].array, usr', obj', array')
  <2> DEFINE ob == calls[i].obj
             arr == calls[i].array
             us2 == [usr EXCEPT ![u] = x]
  <2>1. Version(ob, arr, usr, obj, array)
    BY <1>15, CallsAre
  <2>2. u \in Undone => ~ob[usr[u].obj].user
    BY <1>2, <1>15, FreeSlot, <1>12 DEF MayReuse
  <2>3. ASSUME NEW p \in Obj, ob[p].user
        PROVE  ob[p].slot # u
    <3>1. usr[ob[p].slot].obj = p /\ p # None
      BY <2>1, <2>3, CommAssumption DEF Version, Belongs
    <3>2. u \in FreeUsers => usr[u].obj = None
      BY FreeSlot
    <3> QED
      BY <1>2, <2>2, <2>3, <3>1, <3>2
  <2> HIDE DEF ob, arr
  <2>4. Version(ob, arr, us2, obj', array')
    BY <1>3, <1>5, <1>14, <2>1, <2>3, ReplaceVersion
  <2> QED
    BY <1>1, <2>4 DEF ob, arr
<1>16. x.obj # None
  BY <1>5, CommAssumption
<1>17. /\ ring' \in Seq(Slot) /\ nusers' \in Int /\ RingIn(usr', ring', nusers')
       /\ outbound' \in Seq(Slot) /\ FlushIn(usr', flush', outbound')
  <2>1. CASE u \in FreeUsers /\ outbound' = <<u>> \o outbound
             /\ ring' = Append(ring, u) /\ nusers' = nusers + 1
    <3>1. u \notin Range(ring) /\ ~usr[u].flush
      BY <2>1, FreeSlot
    <3>2. u \notin Range(flush) /\ u \notin Range(outbound)
      BY <1>3, <3>1 DEF FlushIn
    <3>3. /\ ring' \in Seq(Slot) /\ Len(ring') = Len(ring) + 1
          /\ Range(ring') = Range(ring) \cup {u} /\ IsInjective(ring')
      BY <1>3, <2>1, <3>1, Appended DEF RingIn
    <3>4. /\ outbound' \in Seq(Slot) /\ Range(outbound') = Range(outbound) \cup {u}
          /\ IsInjective(outbound')
      BY <1>3, <2>1, <3>2, Prepended DEF FlushIn
    <3>5. RingIn(usr', ring', nusers')
      BY <1>3, <1>14, <1>16, <2>1, <3>3 DEF RingIn
    <3>6. \A v \in Range(outbound') : Calm(usr'[v])
      BY <1>3, <1>5, <1>14, <3>4, RangeIs DEF FlushIn
    <3>7. FlushIn(usr', flush', outbound')
      <4>1. \A v \in Slot : usr'[v].flush <=> v \in Range(flush) \cup Range(outbound')
        BY <1>3, <1>5, <1>14, <3>4 DEF FlushIn
      <4> QED
        BY <1>1, <1>3, <3>2, <3>4, <3>6, <4>1 DEF FlushIn
    <3> QED
      BY <1>3, <2>1, <3>3, <3>4, <3>5, <3>7
  <2>2. CASE u \in Undone /\ UNCHANGED <<outbound, ring, nusers>>
    <3>1. RingIn(usr', ring, nusers)
      BY <1>3, <1>12, <1>14, <1>16, <2>2 DEF RingIn
    <3>2. \A v \in Range(outbound) : Calm(usr'[v])
      BY <1>3, <1>5, <1>14, RangeIs DEF FlushIn
    <3>3. FlushIn(usr', flush, outbound)
      BY <1>3, <1>5, <1>12, <1>14, <2>2, <3>2 DEF FlushIn
    <3> QED
      BY <1>1, <1>3, <2>2, <3>1, <3>3
  <2> QED
    BY <1>2, <2>1, <2>2
<1>18. PhaseRight' /\ phase' \in Phases /\ then'.kind \in Thens
       /\ (then'.kind = "create" => then'.arg \in BOOLEAN)
  BY <1>1, TaskPhase
<1>19. Types'
  BY <1>1, <1>3, <1>8, <1>14, <1>17, <1>18 DEF Types, CallType
<1>20. VersionsRight' /\ ClosesRight'
  BY <1>1, <1>14, <1>15 DEF VersionsRight, ClosesRight, VersionsIn
<1>21. UsersListed' /\ FlushListed' /\ DoneCounted'
  BY <1>1, <1>14, <1>17 DEF UsersListed, FlushListed, DoneCounted, DoneIn
<1> QED
  BY <1>18, <1>19, <1>20, <1>21 DEF IInv

-----------------------------------------------------------------------------
(* Connections that are made, closed or written to in the main loop.        *)

\* When no calls are open there is one version.
LEMMA NoCallsRight ==
  ASSUME Types', PhaseRight', calls' = <<>>, Version(obj', array', usr', obj', array'),
         RingIn(usr', ring', nusers'), UsersApart(usr'), FlushIn(usr', flush', outbound'),
         DoneIn(usr', odone')
  PROVE  IInv'
<1>1. VersionsRight' /\ ClosesRight'
  BY DEF VersionsRight, ClosesRight, VersionsIn, ClosesIn
<1>2. UsersListed' /\ FlushListed' /\ DoneCounted'
  BY DEF UsersListed, FlushListed, DoneCounted, DoneIn
<1> QED
  BY <1>1, <1>2 DEF IInv

\* A connection tells that it is made or closed: the object is a user, or not
\* any more, and its user is put in the flush list.
LEMMA ToldRight ==
  ASSUME IInv, NEW u \in Slot, Listless(usr, u), NEW w, Near(w, usr[u]),
         w.odone = usr[u].odone, AddToFlush(u, w), NEW m \in BOOLEAN,
         obj' = [obj EXCEPT ![usr[u].obj].user = m], UNCHANGED array
  PROVE  /\ obj' \in Objects /\ Version(obj', array', usr', obj', array')
         /\ DoneIn(usr', odone)
<1> DEFINE o == usr[u].obj
           n == [obj[o] EXCEPT !.user = m]
           x == Listed(w)
<1>1. Version(obj, array, usr, obj, array) /\ usr \in Users /\ obj \in Objects
  BY CallsAre
<1>2. /\ o \in Obj /\ IsUser(o) /\ obj[o].slot = u /\ obj[o].state = "live"
      /\ obj[o].extra \in ArraysOf(o) /\ Agree(usr[u], obj[o].extra, array[obj[o].extra])
  BY <1>1, ListlessUser DEF IsUser
<1>3. usr[u].obj # None
  BY DEF Listless
<1>4. /\ x \in UserType /\ x.obj = o /\ x.odone = w.odone /\ x.flush
      /\ Marks(x, usr[u], obj[o].extra, array[obj[o].extra])
  BY <1>3, ListedIs
<1>5. usr' = [usr EXCEPT ![u] = x]
  BY DEF AddToFlush
<1> HIDE DEF x
<1>6. usr'[u] = x
  BY <1>1, <1>5 DEF Users
<1>7. /\ n \in ObjectType /\ n.user = m /\ n.slot = u /\ n.state = "live"
      /\ n.extra = obj[o].extra /\ obj' = [obj EXCEPT ![o] = n]
  <2>1. obj[o] \in ObjectType
    BY <1>1, <1>2 DEF Objects
  <2> HIDE DEF o
  <2>2. obj' = [obj EXCEPT ![o] = n]
    BY DEF o
  <2>3. n \in ObjectType /\ n.user = m /\ n.slot = obj[o].slot /\ n.state = obj[o].state
        /\ n.extra = obj[o].extra
    BY <2>1 DEF ObjectType
  <2> QED
    BY <1>2, <2>2, <2>3
<1> HIDE DEF n, o
<1>8. obj' \in Objects /\ obj'[o] = n /\ \A p \in Obj \ {o} : obj'[p] = obj[p]
  BY <1>1, <1>2, <1>7 DEF Objects
<1>9. Agree(x, obj[o].extra, array[obj[o].extra])
  BY <1>2, <1>4, AgreeMarked
<1>10. Others(usr, u, o, obj, array, obj', array)
  <2>1. ASSUME NEW p \in Obj \ {o}, obj'[p].user
        PROVE  obj'[p] = obj[p] /\ obj[p].slot # u
    <3>1. obj'[p] = obj[p] /\ IsUser(p)
      BY <1>8, <2>1 DEF IsUser
    <3>2. obj[p].slot # obj[o].slot
      BY <1>2, <2>1, <3>1, UserIs
    <3> QED
      BY <1>2, <3>1, <3>2
  <2>2. ASSUME NEW v \in Slot \ {u}, Listless(usr, v)
        PROVE  obj'[usr[v].obj] = obj[usr[v].obj]
    <3>1. usr[v].obj \in Obj /\ obj[usr[v].obj].slot = v
      BY SMTT(60), <1>1, <2>2, ListlessUser
    <3> QED
      BY <1>2, <1>8, <2>2, <3>1
  <2> QED
    BY <2>1, <2>2 DEF Others
<1>11. obj'[o].user => Belongs(obj', array, usr', o)
  BY <1>2, <1>4, <1>6, <1>7, <1>8, <1>9 DEF Belongs
<1> DEFINE us2 == [usr EXCEPT ![u] = x]
<1>12. Version(obj', array, us2, obj', array)
  <2>1. obj'[o].user => Belongs(obj', array, us2, o)
    BY <1>5, <1>11
  <2>2. ~(x.obj # None /\ ~x.flush)
    BY <1>4
  <2> HIDE DEF us2
  <2> QED
    BY <1>1, <1>2, <1>10, <2>1, <2>2, CurrentVersion DEF us2
<1>13. DoneIn(us2, odone)
  <2>1. DoneIn(usr, odone) /\ odone \in Int /\ usr[u] \in UserType
    BY NearItself
  <2>2. x.odone \in BOOLEAN /\ x.odone = usr[u].odone
    BY <1>4, <2>1, UserFields
  <2> QED
    BY <1>1, <2>1, <2>2, DoneCount
<1> QED
  BY <1>5, <1>8, <1>12, <1>13

\* An outbound connection is made, or refused.
LEMMA ConnectedRight ==
  ASSUME IInv, NEW u \in Slot, NEW made \in BOOLEAN, Connected(u, made)
  PROVE  IInv'
<1> DEFINE w1 == [usr[u] EXCEPT !.opending = FALSE]
           w == [w1 EXCEPT !.conn = IF made THEN usr[u].conn ELSE "lost"]
<1>1. usr \in Users /\ usr[u] \in UserType /\ ring \in Seq(Slot) /\ outbound \in Seq(Slot)
      /\ array \in Arrays /\ calls \in Seq(CallType) /\ nusers \in Int /\ odone \in Int
      /\ RingIn(usr, ring, nusers)
  BY CallsAre, NearItself DEF IInv, Types, UsersListed
<1>2. /\ Visit(u) /\ obj' = [obj EXCEPT ![usr[u].obj].user = made]
      /\ phase' = "task" /\ then'.kind = "loop"
      /\ UNCHANGED <<array, outbound, nusers, odone, calls>>
  BY DEF Connected, StartTask, countVars
<1>3. AddToFlush(u, w)
  <2>1. AddToFlush(u, [usr[u] EXCEPT !.opending = FALSE, !.conn = IF made THEN @ ELSE "lost"])
    BY DEF Connected
  <2>2. [usr[u] EXCEPT !.opending = FALSE, !.conn = IF made THEN @ ELSE "lost"] = w
    BY <1>1 DEF UserType
  <2> QED
    BY <2>1, <2>2
<1>4. Near(w, usr[u]) /\ w.odone = usr[u].odone
  <2> DEFINE c == IF made THEN usr[u].conn ELSE "lost"
  <2>1. c \in {None, "open", "lost"}
    BY <1>1 DEF UserType
  <2>2. w = [w1 EXCEPT !.conn = c]
    OBVIOUS
  <2> HIDE DEF c, w
  <2> QED
    BY <1>1, <2>1, <2>2 DEF Near, UserType
<1> HIDE DEF w
<1>5. /\ calls = <<>> /\ Listless(usr, u)
      /\ ring' \in Seq(Slot) /\ Len(ring') = Len(ring) /\ Range(ring') = Range(ring)
      /\ IsInjective(ring')
  BY <1>2, VisitRight DEF Listless
<1>6. /\ obj' \in Objects /\ Version(obj', array', usr', obj', array') /\ DoneIn(usr', odone)
  BY <1>2, <1>3, <1>4, <1>5, ToldRight
<1>7. /\ usr' \in Users /\ (\A v \in Slot : usr'[v].obj = usr[v].obj)
      /\ flush' \in Seq(Slot) /\ FlushIn(usr', flush', outbound) /\ UsersApart(usr')
  BY <1>3, <1>4, <1>5, AddRight DEF Listless
<1>8. RingIn(usr', ring', nusers)
  BY <1>1, <1>5, <1>7 DEF RingIn
<1>9. Types' /\ PhaseRight'
  BY <1>1, <1>2, <1>5, <1>6, <1>7 DEF Types, CallType, Phases, Thens, PhaseRight
<1> QED
  BY <1>2, <1>5, <1>6, <1>7, <1>8, <1>9, NoCallsRight

\* In the main loop no user is in the flush list.
LEMMA LoopUsers ==
  ASSUME IInv, phase \in {"idle", "accept", "loop", "input"}
  PROVE  calls = <<>> /\ flush = <<>> /\ outbound = <<>> /\ \A u \in Slot : ~usr[u].flush
<1>1. calls = <<>> /\ flush = <<>> /\ outbound = <<>>
  BY DEF IInv, PhaseRight
<1>2. Range(flush) = {} /\ Range(outbound) = {}
  BY <1>1 DEF Range
<1> QED
  BY <1>1, <1>2 DEF IInv, FlushListed, FlushIn

\* The other side has closed the connection.
LEMMA EndOfInputRight ==
  ASSUME IInv, NEW u \in Slot, EndOfInput(u)
  PROVE  IInv'
<1> DEFINE w == [usr[u] EXCEPT !.conn = "lost"]
           o == usr[u].obj
           c == CloseCall(o, FALSE)
<1>1. usr \in Users /\ usr[u] \in UserType /\ ring \in Seq(Slot) /\ outbound \in Seq(Slot)
      /\ array \in Arrays /\ calls \in Seq(CallType) /\ nusers \in Int /\ odone \in Int
      /\ RingIn(usr, ring, nusers) /\ obj \in Objects /\ Version(obj, array, usr, obj, array)
  BY CallsAre, NearItself DEF IInv, Types, UsersListed
<1>2. /\ phase = "input" /\ usr[u].obj # None /\ AddToFlush(u, w)
      /\ obj' = [obj EXCEPT ![usr[u].obj].user = FALSE]
      /\ calls' = <<c>> /\ phase' = "task" /\ then'.kind = "idle"
      /\ UNCHANGED <<array, ring, outbound, nusers, odone>>
  BY DEF EndOfInput, StartTask, countVars, Gone, InUse
<1>3. Near(w, usr[u]) /\ w.odone = usr[u].odone
  BY <1>1 DEF Near, UserType
<1> HIDE DEF w
<1>4. Listless(usr, u)
  BY <1>2, LoopUsers DEF Listless
<1>5. /\ obj' \in Objects /\ Version(obj', array', usr', obj', array') /\ DoneIn(usr', odone)
  BY <1>2, <1>3, <1>4, ToldRight
<1>6. /\ usr' \in Users /\ (\A v \in Slot : usr'[v].obj = usr[v].obj)
      /\ flush' \in Seq(Slot) /\ FlushIn(usr', flush', outbound) /\ UsersApart(usr')
  BY <1>2, <1>3, AddRight
<1>7. RingIn(usr', ring', nusers)
  BY <1>1, <1>2, <1>6 DEF RingIn
<1>8. o \in Obj /\ obj[o].slot = u
  BY <1>1, <1>4, ListlessUser
<1>9. c \in CallType /\ c.kind = "close" /\ c.user = u /\ c.destruct = FALSE
  BY <1>8 DEF CloseCall, CallType, CloseType
<1> HIDE DEF c
<1>10. calls' \in Seq(CallType) /\ DOMAIN calls' = {1} /\ calls'[1] = c
  BY <1>2, <1>9
<1>11. Types' /\ PhaseRight'
  BY <1>1, <1>2, <1>5, <1>6, <1>10 DEF Types, CallType, Phases, Thens, PhaseRight
<1>12. VersionsRight' /\ ClosesRight'
  <2>1. c.kind # "atomic"
    BY <1>9
  <2>2. usr'[u].obj # None
    BY <1>2, <1>6
  <2> QED
    BY <1>5, <1>9, <1>10, <2>1, <2>2 DEF VersionsRight, ClosesRight, VersionsIn, ClosesIn
<1>13. UsersListed' /\ FlushListed' /\ DoneCounted'
  BY <1>2, <1>5, <1>6, <1>7 DEF UsersListed, FlushListed, DoneCounted, DoneIn
<1> QED
  BY <1>11, <1>12, <1>13 DEF IInv

-----------------------------------------------------------------------------
(* The user of an object changes with its request, or goes.                 *)

\* x is what becomes of user u of object o, and q of its request.
Changes(u, o, x, q) ==
  /\ o \in Obj /\ IsUser(o) /\ obj[o].slot = u
  /\ x \in UserType /\ x.obj = o /\ ~x.flush
  /\ Agree(x, obj[o].extra, q)
  /\ obj' = obj /\ usr' = [usr EXCEPT ![u] = x]
  /\ array' \in Arrays /\ array'[obj[o].extra] = q
  /\ \A p \in Obj \ {o} : IsUser(p) => array'[obj[p].extra] = array[obj[p].extra]

\* A user that suits its request, and is not in the flush list, suits the
\* running code, and no other user is changed.
LEMMA ChangesRight ==
  ASSUME IInv, NEW u \in Slot, NEW o, NEW x, NEW q, Changes(u, o, x, q)
  PROVE  /\ Version(obj', array', usr', obj', array')
         /\ usr' \in Users /\ usr'[u] = x /\ (\A v \in Slot \ {u} : usr'[v] = usr[v])
         /\ (\A v \in Slot : usr'[v].obj = usr[v].obj)
         /\ UsersApart(usr')
<1>1. /\ o \in Obj /\ IsUser(o) /\ obj[o].slot = u
      /\ x \in UserType /\ x.obj = o /\ ~x.flush
      /\ Agree(x, obj[o].extra, q)
      /\ obj' = obj /\ usr' = [usr EXCEPT ![u] = x]
      /\ array' \in Arrays /\ array'[obj[o].extra] = q
      /\ \A p \in Obj \ {o} : IsUser(p) => array'[obj[p].extra] = array[obj[p].extra]
  BY DEF Changes
<1>2. usr \in Users /\ Version(obj, array, usr, obj, array) /\ UsersApart(usr)
  BY CallsAre DEF IInv, UsersListed
<1>3. /\ usr[u].obj = o /\ o # None /\ obj[o].state = "live" /\ obj[o].extra \in ArraysOf(o)
      /\ \A p \in Obj \ {o} : IsUser(p) => obj[p].slot # u
  BY <1>1, UserIs
<1>4. usr'[u] = x /\ (\A v \in Slot \ {u} : usr'[v] = usr[v]) /\ usr' \in Users
  BY <1>1, <1>2 DEF Users
<1>5. \A v \in Slot : usr'[v].obj = usr[v].obj
  BY <1>1, <1>3, <1>4
<1>6. UsersApart(usr')
  <2>1. \A v \in Slot : usr'[v].obj = None => usr'[v] = NoUser
    BY <1>1, <1>2, <1>3, <1>4 DEF UsersApart
  <2>2. \A v, t \in Slot : usr'[v].obj # None /\ usr'[v].obj = usr'[t].obj => v = t
    BY <1>2, <1>5 DEF UsersApart
  <2>3. \A v \in Slot : usr'[v].flush /\ ~usr'[v].outbuf =>
                          usr'[v].osdone = 0 \/ usr'[v].stopped
    BY <1>1, <1>2, <1>4 DEF UsersApart
  <2> QED
    BY <2>1, <2>2, <2>3 DEF UsersApart
<1>7. Others(usr, u, o, obj, array, obj, array')
  BY <1>1, <1>3 DEF Others, IsUser
<1> DEFINE us2 == [usr EXCEPT ![u] = x]
<1>8. Belongs(obj, array', us2, o)
  BY <1>1, <1>3, <1>4 DEF Belongs
<1>9. Version(obj, array', us2, obj, array')
  <2>1. x.obj # None /\ ~x.flush => obj[x.obj].user /\ obj[x.obj].slot = u
    BY <1>1 DEF IsUser
  <2> HIDE DEF us2
  <2> QED
    BY <1>1, <1>2, <1>7, <1>8, <2>1, CurrentVersion DEF us2
<1> QED
  BY <1>1, <1>4, <1>5, <1>6, <1>9

\* User u, of which the object is no user any more, goes.
Goes(u) ==
  /\ usr[u].obj # None /\ usr[u].flush
  /\ ~IsUser(usr[u].obj)
  /\ Discard(u)
  /\ usr' = [usr EXCEPT ![u] = NoUser]
  /\ obj' \in Objects /\ \A p \in Obj \ {usr[u].obj} : obj'[p] = obj[p]
  /\ obj'[usr[u].obj].user = FALSE
  /\ array' = Kept(array, obj', usr', calls)

\* The users that are left suit the running code, and are those of the ring.
LEMMA GoesRight ==
  ASSUME IInv, NEW u \in Slot, Goes(u)
  PROVE  /\ Version(obj', array', usr', obj', array')
         /\ usr' \in Users /\ usr'[u] = NoUser /\ (\A v \in Slot \ {u} : usr'[v] = usr[v])
         /\ UsersApart(usr') /\ ring' \in Seq(Slot) /\ nusers' \in Int
         /\ RingIn(usr', ring', nusers') /\ array' \in Arrays
<1> DEFINE o == usr[u].obj
<1>1. /\ usr[u].obj # None /\ usr[u].flush
      /\ ~IsUser(o) /\ Discard(u)
      /\ usr' = [usr EXCEPT ![u] = NoUser]
      /\ obj' \in Objects /\ (\A p \in Obj \ {o} : obj'[p] = obj[p])
      /\ obj'[o].user = FALSE
      /\ array' = Kept(array, obj', usr', calls)
  BY DEF Goes
<1>2. /\ usr \in Users /\ array \in Arrays /\ Version(obj, array, usr, obj, array)
      /\ UsersApart(usr) /\ RingIn(usr, ring, nusers) /\ ring \in Seq(Slot) /\ nusers \in Int
  BY CallsAre DEF IInv, UsersListed, Types
<1>3. o \in Obj
  BY <1>1, <1>2 DEF Users, UserType
<1>4. NoUser \in UserType /\ NoUser.obj = None /\ ~NoUser.flush /\ ~NoUser.odone
  BY DEF NoUser, NewUser, UserType
<1>5. usr'[u] = NoUser /\ (\A v \in Slot \ {u} : usr'[v] = usr[v]) /\ usr' \in Users
  BY <1>1, <1>2, <1>4 DEF Users
<1>6. UsersApart(usr')
  BY <1>2, <1>4, <1>5 DEF UsersApart
<1>7. array' \in Arrays
  BY <1>1, <1>2, KeptIs
<1>8. ring' \in Seq(Slot) /\ nusers' \in Int /\ RingIn(usr', ring', nusers')
  <2>1. u \in Range(ring) /\ IsInjective(ring) /\ nusers = Len(ring)
    BY <1>1, <1>2 DEF RingIn
  <2>2. /\ ring' \in Seq(Slot) /\ Len(ring') = Len(ring) - 1
        /\ IsInjective(ring') /\ Range(ring') = Range(ring) \ {u}
    <3>1. ring' = RemoveAt(ring, CHOOSE i \in DOMAIN ring : ring[i] = u)
      BY <1>1 DEF Discard
    <3> QED
      BY <1>2, <2>1, <3>1, Removed
  <2>3. nusers' = nusers - 1
    BY <1>1 DEF Discard
  <2>4. nusers' = Len(ring')
    BY <2>1, <2>2, <2>3
  <2>5. \A v \in Slot : v \in Range(ring') <=> usr'[v].obj # None
    BY <1>2, <1>4, <1>5, <2>2 DEF RingIn
  <2> QED
    BY <1>2, <2>2, <2>3, <2>4, <2>5 DEF RingIn
<1>9. Others(usr, u, o, obj, array, obj', array')
  <2>1. ASSUME NEW p \in Obj \ {o}, obj'[p].user
        PROVE  /\ obj'[p] = obj[p] /\ obj[p].slot # u
               /\ array'[obj[p].extra] = array[obj[p].extra]
    <3>1. obj'[p] = obj[p] /\ IsUser(p)
      BY <1>1, <2>1 DEF IsUser
    <3>2. usr[obj[p].slot].obj = p /\ obj[p].extra \in ArrayId
      BY <3>1, UserIs
    <3>3. array'[obj'[p].extra] = array[obj'[p].extra]
      BY <1>1, <1>2, <3>1, <3>2, KeptIs
    <3> QED
      BY <3>1, <3>2, <3>3
  <2>2. ASSUME NEW v \in Slot \ {u}, Listless(usr, v)
        PROVE  obj'[usr[v].obj] = obj[usr[v].obj]
    <3>1. usr[v].obj \in Obj
      BY <1>2, <2>2, ListlessUser
    <3>2. usr[v].obj # o
      BY <1>1, <1>2, <2>2 DEF UsersApart
    <3> QED
      BY <1>1, <3>1, <3>2
  <2> HIDE DEF o
  <2> QED
    BY <2>1, <2>2 DEF Others
<1> DEFINE us2 == [usr EXCEPT ![u] = NoUser]
<1>10. Version(obj', array', us2, obj', array')
  <2>1. obj'[o].user => Belongs(obj', array', us2, o)
    BY <1>1
  <2>2. ~(NoUser.obj # None /\ ~NoUser.flush)
    BY <1>4
  <2> HIDE DEF us2, o
  <2> QED
    BY <1>2, <1>3, <1>9, <2>1, <2>2, CurrentVersion DEF us2
<1> QED
  BY <1>1, <1>5, <1>6, <1>7, <1>8, <1>10

\* What is added to odone.
Counted(w, v) == odone + Drained(w, v) - (IF v.odone THEN 1 ELSE 0)

\* The count when the output of u, which becomes v, is drained and
\* message_done() is called.
LEMMA ServeCount ==
  ASSUME usr \in Users, odone \in Int, DoneIn(usr, odone), NEW u \in Slot,
         NEW v, v.odone \in BOOLEAN, usr[u].odone => v.odone, NEW x, x.odone \in BOOLEAN, ~x.odone
  PROVE  /\ Counted(usr[u], v) \in Int
         /\ DoneIn([usr EXCEPT ![u] = x], Counted(usr[u], v))
<1> DEFINE od == Counted(usr[u], v)
<1>1. usr[u].odone \in BOOLEAN
  BY DEF Users, UserType
<1>2. od = IF usr[u].odone THEN odone - 1 ELSE odone
  BY <1>1 DEF Drained, Counted
<1> HIDE DEF od
<1>3. x.odone \in BOOLEAN
  OBVIOUS
<1>4. CASE usr[u].odone
  BY <1>2, <1>3, <1>4, DoneCount DEF od
<1>5. CASE ~usr[u].odone
  <2>1. x.odone = usr[u].odone
    BY <1>1, <1>3, <1>5
  <2>2. DoneIn([usr EXCEPT ![u] = x], odone)
    BY <1>3, <2>1, DoneCount
  <2> QED
    BY <1>2, <1>5, <2>2 DEF od
<1> QED
  BY <1>4, <1>5

\* Output that is pending is written, and message_done() is called.
LEMMA ServeRight ==
  ASSUME IInv, NEW u \in Slot, Serve(u)
  PROVE  IInv'
<1> DEFINE o == usr[u].obj
           w == usr[u]
           r == Request(o)
           a == obj[o].extra
<1>1. /\ usr \in Users /\ w \in UserType /\ ring \in Seq(Slot) /\ outbound \in Seq(Slot)
      /\ flush \in Seq(Slot) /\ obj \in Objects /\ Version(obj, array, usr, obj, array)
      /\ array \in Arrays /\ calls \in Seq(CallType) /\ nusers \in Int /\ odone \in Int
      /\ RingIn(usr, ring, nusers) /\ DoneIn(usr, odone) /\ FlushIn(usr, flush, outbound)
  BY CallsAre, NearItself DEF IInv, Types, UsersListed, FlushListed
<1>2. /\ Visit(u)
      /\ UNCHANGED <<obj, flush, outbound, nusers, calls>>
  BY DEF Serve
<1>3. /\ phase = "loop" /\ calls = <<>> /\ flush = <<>> /\ outbound = <<>>
      /\ usr[u].obj # None /\ ~usr[u].flush
      /\ ring' \in Seq(Slot) /\ Len(ring') = Len(ring) /\ Range(ring') = Range(ring)
      /\ IsInjective(ring')
  BY <1>2, VisitRight
<1>4. /\ o \in Obj /\ IsUser(o) /\ obj[o].slot = u /\ a \in ArraysOf(o)
      /\ Agree(w, a, r)
  <2>1. Listless(usr, u)
    BY <1>3 DEF Listless
  <2> QED
    BY <1>1, <2>1, ListlessUser DEF IsUser, Request
<1>5. a \in ArrayId /\ \A p \in Obj \ {o} : IsUser(p) => obj[p].extra # a
  BY SMTT(60), <1>4, UserIs
<1>6. PICK n \in Takes(w, r) :
        /\ usr' = [usr EXCEPT ![u] = ServedUser(w, r, n)]
        /\ Ask(o, ServedRequest(w, r, n))
        /\ odone' = odone + Drained(w, Served(w, r, n).user)
                      - (IF Served(w, r, n).user.odone THEN 1 ELSE 0)
        /\ \/ Served(w, r, n).user.odone /\ StartTask("input", u)
           \/ /\ phase' = "input"
              /\ then' = [kind |-> "input", arg |-> u]
  BY Zenon DEF Serve, Served, ServedUser, ServedRequest
<1> DEFINE v == Served(w, r, n).user
           x == ServedUser(w, r, n)
           q == ServedRequest(w, r, n)
<1>7. n \in Takes(w, r)
  OBVIOUS
<1>8. /\ usr' = [usr EXCEPT ![u] = x] /\ array' = [array EXCEPT ![a] = q]
      /\ phase' \in {"task", "input"} /\ then'.kind = "input"
      /\ odone' = odone + Drained(w, v) - (IF v.odone THEN 1 ELSE 0)
  BY <1>6 DEF Ask, StartTask
<1>9. /\ Agree(x, a, q) /\ x \in UserType /\ x.obj = o /\ ~x.flush /\ x.odone = FALSE
      /\ v.odone \in BOOLEAN /\ (w.odone => v.odone)
  <2>1. w.obj = o /\ w \in UserType /\ ~w.flush
    BY <1>1, <1>3
  <2> HIDE DEF w, r, a, o
  <2> QED
    BY <1>4, <1>7, <2>1, AgreeServed
<1> HIDE DEF x, q, v
<1>10. odone' \in Int /\ DoneIn(usr', odone')
  <2> DEFINE od == Counted(usr[u], v)
  <2>1. usr \in Users /\ odone \in Int /\ DoneIn(usr, odone)
    BY <1>1
  <2>2. v.odone \in BOOLEAN /\ (usr[u].odone => v.odone)
    BY <1>9
  <2>2a. ~x.odone /\ x.odone \in BOOLEAN
    BY <1>9
  <2> HIDE DEF w, r, a
  <2>3. od \in Int /\ DoneIn([usr EXCEPT ![u] = x], od)
    BY <2>1, <2>2, <2>2a, ServeCount
  <2> QED
    BY <1>8, <2>3 DEF w, Counted
<1>11. q \in RequestType
  BY <1>9 DEF Agree
<1>12. /\ array' \in Arrays /\ array'[a] = q
       /\ \A p \in Obj \ {o} : IsUser(p) => array'[obj[p].extra] = array[obj[p].extra]
  <2>1. array' \in Arrays /\ array'[a] = q
    BY <1>1, <1>5, <1>8, <1>11 DEF Arrays
  <2>2. ASSUME NEW p \in Obj \ {o}, IsUser(p)
        PROVE  array'[obj[p].extra] = array[obj[p].extra]
    <3>1. obj[p].extra # a
      BY <1>5, <2>2
    <3> QED
      BY <1>1, <1>8, <2>2, <3>1, UserIs DEF Arrays
  <2> QED
    BY <2>1, <2>2
<1>13. Changes(u, o, x, q)
  BY <1>2, <1>4, <1>8, <1>9, <1>12 DEF Changes
<1>14. /\ Version(obj', array', usr', obj', array')
       /\ usr' \in Users /\ usr'[u] = x /\ (\A t \in Slot \ {u} : usr'[t] = usr[t])
       /\ (\A t \in Slot : usr'[t].obj = usr[t].obj)
       /\ UsersApart(usr')
  BY <1>13, ChangesRight
<1>15. FlushIn(usr', flush', outbound')
  <2>1. Range(outbound) = {}
    BY <1>3 DEF Range
  <2>2. \A t \in Slot : usr'[t].flush <=> usr[t].flush
    BY <1>3, <1>9, <1>14
  <2> QED
    BY <1>1, <1>2, <2>1, <2>2 DEF FlushIn
<1>16. RingIn(usr', ring', nusers')
  BY <1>1, <1>2, <1>3, <1>14 DEF RingIn
<1>17. Types' /\ PhaseRight'
  BY <1>1, <1>2, <1>3, <1>8, <1>10, <1>12, <1>14 DEF Types, CallType, Phases, Thens, PhaseRight
<1> QED
  BY <1>2, <1>3, <1>10, <1>14, <1>15, <1>16, <1>17, NoCallsRight

\* In Comm::flush() no call is open, and what follows is not a new connection.
LEMMA FlushPhase ==
  ASSUME IInv, phase = "flush", UNCHANGED <<phase, then, calls>>
  PROVE  /\ calls = <<>> /\ calls' = <<>> /\ PhaseRight' /\ phase' \in Phases
         /\ then'.kind \in Thens /\ then'.kind # "create"
BY DEF IInv, PhaseRight, Types

-----------------------------------------------------------------------------
(* Comm::flush(): outbound connections.                                     *)

\* What is known of the first user in the outbound list.
LEMMA HeadOutbound ==
  ASSUME IInv, outbound # <<>>, NEW u, u = Head(outbound)
  PROVE  /\ u \in Slot /\ usr[u].obj # None /\ usr[u].flush /\ Calm(usr[u])
         /\ usr[u].obj \in Obj
         /\ Tail(outbound) \in Seq(Slot)
<1>1. /\ outbound \in Seq(Slot) /\ FlushIn(usr, flush, outbound) /\ usr \in Users
      /\ UsersApart(usr)
  BY CallsAre DEF IInv, Types, FlushListed, UsersListed
<1>2. u \in Slot /\ u \in Range(outbound) /\ Tail(outbound) \in Seq(Slot)
  BY <1>1, Tailed
<1>3. usr[u].flush /\ Calm(usr[u])
  BY <1>1, <1>2 DEF FlushIn
<1>4. usr[u].obj # None
  <2>1. ~NoUser.flush
    BY DEF NoUser, NewUser
  <2>2. usr[u].obj = None => usr[u] = NoUser
    BY <1>1, <1>2 DEF UsersApart
  <2> QED
    BY <1>3, <2>1, <2>2
<1> QED
  BY <1>1, <1>2, <1>3, <1>4 DEF Users, UserType

\* The lists when it is taken out.
LEMMA OutboundTail ==
  ASSUME IInv, outbound # <<>>, NEW u, u = Head(outbound)
  PROVE  /\ u \in Slot /\ u \in Range(outbound) /\ IsInjective(Tail(outbound))
         /\ Range(Tail(outbound)) = Range(outbound) \ {u} /\ Range(outbound) \subseteq Slot
         /\ u \notin Range(flush) /\ flush \in Seq(Slot) /\ FlushIn(usr, flush, outbound)
<1>1. outbound \in Seq(Slot) /\ flush \in Seq(Slot) /\ FlushIn(usr, flush, outbound)
  BY DEF IInv, Types, FlushListed
<1>2. /\ u \in Slot /\ u \in Range(outbound) /\ IsInjective(Tail(outbound))
      /\ Range(Tail(outbound)) = Range(outbound) \ {u}
  BY <1>1, Tailed DEF FlushIn
<1>3. u \notin Range(flush)
  BY <1>1, <1>2 DEF FlushIn
<1>4. Range(outbound) \subseteq Slot
  BY <1>1, RangeIs
<1> QED
  BY <1>1, <1>2, <1>3, <1>4

\* It is put in the flush list.
LEMMA OutboundOn ==
  ASSUME IInv, outbound # <<>>, NEW u, u = Head(outbound)
  PROVE  /\ <<u>> \o flush \in Seq(Slot)
         /\ FlushIn(usr, <<u>> \o flush, Tail(outbound))
<1>1. /\ u \in Slot /\ u \in Range(outbound) /\ IsInjective(Tail(outbound))
      /\ Range(Tail(outbound)) = Range(outbound) \ {u}
      /\ u \notin Range(flush) /\ flush \in Seq(Slot) /\ FlushIn(usr, flush, outbound)
  BY OutboundTail
<1>2. /\ <<u>> \o flush \in Seq(Slot) /\ Range(<<u>> \o flush) = Range(flush) \cup {u}
      /\ IsInjective(<<u>> \o flush)
  BY <1>1, Prepended DEF FlushIn
<1> QED
  BY <1>1, <1>2 DEF FlushIn

\* It is in neither list.
LEMMA OutboundOff ==
  ASSUME IInv, outbound # <<>>, NEW u, u = Head(outbound),
         NEW us, ~us[u].flush, \A v \in Slot \ {u} : us[v] = usr[v]
  PROVE  FlushIn(us, flush, Tail(outbound))
<1>1. /\ u \in Slot /\ u \in Range(outbound) /\ IsInjective(Tail(outbound))
      /\ Range(Tail(outbound)) = Range(outbound) \ {u} /\ Range(outbound) \subseteq Slot
      /\ u \notin Range(flush) /\ FlushIn(usr, flush, outbound)
  BY OutboundTail
<1>2. \A v \in Slot : us[v].flush <=> v \in Range(flush) \cup Range(Tail(outbound))
  BY <1>1 DEF FlushIn
<1>3. \A v \in Range(Tail(outbound)) : Calm(us[v])
  BY <1>1 DEF FlushIn
<1> QED
  BY <1>1, <1>2, <1>3 DEF FlushIn

\* The count when the users that are done are the same.
LEMMA SameDoneIn ==
  ASSUME NEW us, NEW us2, NEW od, DoneIn(us, od), \A v \in Slot : us2[v].odone = us[v].odone
  PROVE  DoneIn(us2, od)
<1>1. {v \in Slot : us2[v].odone} = {v \in Slot : us[v].odone}
  OBVIOUS
<1> QED
  BY <1>1 DEF DoneIn

\* The connection of a user is made.
LEMMA OutboundUser ==
  ASSUME IInv, FlushOutbound, IsUser(usr[Head(outbound)].obj)
  PROVE  IInv'
<1> DEFINE u == Head(outbound)
           o == usr[u].obj
           a == obj[o].extra
           w == usr[u]
           x1 == [w EXCEPT !.conn = "open"]
           x2 == [x1 EXCEPT !.flush = FALSE]
           x == [x2 EXCEPT !.extra = None]
<1>1. /\ usr \in Users /\ ring \in Seq(Slot) /\ outbound \in Seq(Slot)
      /\ flush \in Seq(Slot) /\ obj \in Objects /\ Version(obj, array, usr, obj, array)
      /\ array \in Arrays /\ calls \in Seq(CallType) /\ nusers \in Int /\ odone \in Int
      /\ RingIn(usr, ring, nusers) /\ DoneIn(usr, odone) /\ Unique(usr)
  BY CallsAre DEF IInv, Types, UsersListed, DoneCounted, DoneIn
<1>2. /\ phase = "flush" /\ outbound # <<>> /\ outbound' = Tail(outbound)
      /\ usr' = [usr EXCEPT ![u].conn = "open", ![u].flush = FALSE, ![u].extra = None]
      /\ array' = [array EXCEPT ![usr[u].extra] = NoRequest]
      /\ UNCHANGED <<obj, ring, flush, nusers, odone, phase, then, calls>>
  BY DEF FlushOutbound, loopVars
<1>3. /\ u \in Slot /\ w.obj # None /\ w.flush /\ Calm(w) /\ o \in Obj
      /\ outbound' \in Seq(Slot)
  BY <1>2, HeadOutbound
<1>4. w \in UserType
  BY <1>1, <1>3 DEF Users
<1>5. usr' = [usr EXCEPT ![u] = x]
  BY <1>1, <1>2, <1>3, <1>4 DEF Users, UserType
<1>6. /\ x \in UserType /\ x.obj = o /\ x.flush = FALSE /\ x.osdone = 0 /\ ~x.odone
      /\ ~x.outbuf /\ x.blocked = FALSE /\ x.stopped = FALSE /\ x.odone = w.odone
  <2>1. w.osdone = 0 /\ ~w.outbuf /\ ~w.odone /\ ~w.blocked /\ ~w.stopped
    BY <1>3 DEF Calm
  <2>2. x \in UserType /\ x.obj = w.obj /\ x.flush = FALSE /\ x.osdone = w.osdone
        /\ x.odone = w.odone /\ x.outbuf = w.outbuf /\ x.blocked = w.blocked
        /\ x.stopped = w.stopped
    BY <1>4 DEF UserType
  <2>3. w.blocked \in BOOLEAN /\ w.stopped \in BOOLEAN
    BY <1>4, UserFields
  <2> HIDE DEF x
  <2> QED
    BY <2>1, <2>2, <2>3
<1> HIDE DEF x
<1>7. /\ obj[o].slot = u /\ a \in ArraysOf(o) /\ Agree(w, a, array[a])
  BY SMTT(60), <1>1, <1>3, VersionUser DEF IsUser
<1>8. usr[u].extra = a
  BY Zenon, <1>3, <1>7 DEF Agree
<1>9. a \in ArrayId /\ \A p \in Obj \ {o} : IsUser(p) => obj[p].extra # a
  BY <1>3, UserIs
<1>10. /\ NoRequest \in RequestType /\ NoRequest.buf = None /\ ~NoRequest.changed
       /\ NoRequest.due = <<>> /\ ~NoRequest.blocked /\ ~NoRequest.stopped
  BY RequestsAre
<1>11. Agree(x, a, NoRequest)
  <2>1. Agree(x, x.extra, NoRequest)
    BY <1>6, <1>10, AgreeNew
  <2> QED
    BY <1>6, <2>1 DEF Agree
<1>12. /\ array' \in Arrays /\ array'[a] = NoRequest
       /\ \A p \in Obj \ {o} : IsUser(p) => array'[obj[p].extra] = array[obj[p].extra]
  <2>1. array' = [array EXCEPT ![a] = NoRequest]
    BY <1>2, <1>8
  <2>2. array' \in Arrays /\ array'[a] = NoRequest
    BY <1>1, <1>9, <1>10, <2>1 DEF Arrays
  <2>3. ASSUME NEW p \in Obj \ {o}, IsUser(p)
        PROVE  array'[obj[p].extra] = array[obj[p].extra]
    <3>1. obj[p].extra # a /\ obj[p].extra \in ArrayId
      BY SMTT(60), <1>9, <2>3, UserIs
    <3> QED
      BY <1>1, <2>1, <3>1 DEF Arrays
  <2> QED
    BY <2>2, <2>3
<1>13. Changes(u, o, x, NoRequest)
  BY Zenon, <1>2, <1>3, <1>5, <1>6, <1>7, <1>11, <1>12 DEF Changes
<1>14. /\ Version(obj', array', usr', obj', array')
       /\ usr' \in Users /\ usr'[u] = x /\ (\A t \in Slot \ {u} : usr'[t] = usr[t])
       /\ (\A t \in Slot : usr'[t].obj = usr[t].obj)
       /\ UsersApart(usr')
  BY <1>3, <1>13, ChangesRight
<1>15. FlushIn(usr', flush', outbound')
  <2>1. ~usr'[u].flush
    BY <1>6, <1>14
  <2> QED
    BY <1>2, <1>14, <2>1, OutboundOff
<1>16. DoneIn(usr', odone')
  <2>1. \A v \in Slot : usr'[v].odone = usr[v].odone
    BY <1>6, <1>14
  <2> QED
    <3>1. odone' = odone /\ DoneIn(usr, odone)
      BY <1>1, <1>2
    <3> QED
      BY <2>1, <3>1, SameDoneIn
<1>17. RingIn(usr', ring', nusers')
  BY <1>1, <1>2, <1>14 DEF RingIn
<1>18. /\ calls = <<>> /\ calls' = <<>> /\ PhaseRight' /\ phase' \in Phases
       /\ then'.kind \in Thens /\ then'.kind # "create"
  BY <1>2, FlushPhase
<1>19. Types'
  BY <1>1, <1>2, <1>3, <1>12, <1>14, <1>18 DEF Types, CallType
<1> QED
  BY <1>14, <1>15, <1>16, <1>17, <1>18, <1>19, NoCallsRight

\* It is not made: the user is cleaned up with the others, or goes.
LEMMA OutboundUndone ==
  ASSUME IInv, FlushOutbound, ~IsUser(usr[Head(outbound)].obj)
  PROVE  IInv'
<1> DEFINE u == Head(outbound)
           o == usr[u].obj
<1>1. /\ usr \in Users /\ ring \in Seq(Slot) /\ outbound \in Seq(Slot)
      /\ flush \in Seq(Slot) /\ obj \in Objects /\ Version(obj, array, usr, obj, array)
      /\ array \in Arrays /\ calls \in Seq(CallType) /\ nusers \in Int /\ odone \in Int
      /\ RingIn(usr, ring, nusers) /\ DoneIn(usr, odone) /\ UsersApart(usr)
  BY CallsAre DEF IInv, Types, UsersListed, DoneCounted, DoneIn
<1>2. /\ phase = "flush" /\ outbound # <<>> /\ outbound' = Tail(outbound)
      /\ UNCHANGED <<obj, odone, phase, then, calls>>
  BY DEF FlushOutbound, loopVars
<1>3. \/ /\ flush' = <<u>> \o flush
         /\ UNCHANGED <<array, usr, ring, nusers>>
      \/ /\ Discard(u)
         /\ usr' = [usr EXCEPT ![u] = NoUser]
         /\ array' = Kept(array, obj, usr', calls)
         /\ UNCHANGED flush
  BY DEF FlushOutbound
<1>4. /\ u \in Slot /\ usr[u].obj # None /\ usr[u].flush /\ Calm(usr[u]) /\ o \in Obj
      /\ outbound' \in Seq(Slot)
  BY <1>2, HeadOutbound
<1>5. /\ calls = <<>> /\ calls' = <<>> /\ PhaseRight' /\ phase' \in Phases
      /\ then'.kind \in Thens /\ then'.kind # "create"
  BY <1>2, FlushPhase
<1>6. CASE flush' = <<u>> \o flush /\ UNCHANGED <<array, usr, ring, nusers>>
  <2>1. flush' \in Seq(Slot) /\ FlushIn(usr', flush', outbound')
    BY <1>2, <1>6, OutboundOn
  <2>2. Types'
    BY <1>1, <1>2, <1>4, <1>5, <1>6, <2>1 DEF Types, CallType
  <2>3. /\ Version(obj', array', usr', obj', array') /\ RingIn(usr', ring', nusers')
        /\ UsersApart(usr') /\ DoneIn(usr', odone')
    BY <1>1, <1>2, <1>6
  <2> QED
    BY <1>5, <2>1, <2>2, <2>3, NoCallsRight
<1>7. CASE /\ Discard(u)
           /\ usr' = [usr EXCEPT ![u] = NoUser]
           /\ array' = Kept(array, obj, usr', calls)
           /\ UNCHANGED flush
  <2>1. obj' = obj /\ obj'[o].user = FALSE
    <3>1. obj[o].user \in BOOLEAN
      BY <1>1, <1>4 DEF Objects, ObjectType
    <3> QED
      BY <1>2, <3>1 DEF IsUser
  <2>2. Goes(u)
    BY <1>1, <1>4, <1>7, <2>1 DEF Goes
  <2>3. /\ Version(obj', array', usr', obj', array')
        /\ usr' \in Users /\ usr'[u] = NoUser /\ (\A v \in Slot \ {u} : usr'[v] = usr[v])
        /\ UsersApart(usr') /\ ring' \in Seq(Slot) /\ nusers' \in Int
        /\ RingIn(usr', ring', nusers') /\ array' \in Arrays
    BY <1>4, <2>2, GoesRight
  <2>4. NoUser.flush = FALSE /\ NoUser.odone = FALSE
    BY DEF NoUser, NewUser
  <2>5. FlushIn(usr', flush', outbound')
    <3>1. ~usr'[u].flush
      BY <2>3, <2>4
    <3> QED
      BY <1>2, <1>7, <2>3, <3>1, OutboundOff
  <2>6. DoneIn(usr', odone')
    <3>1. usr[u].odone \in BOOLEAN /\ ~usr[u].odone
      BY <1>1, <1>4 DEF Users, UserType, Calm
    <3>2. \A v \in Slot : usr'[v].odone = usr[v].odone
      BY <2>3, <2>4, <3>1
    <3> QED
      BY <1>1, <1>2, <3>2, SameDoneIn
  <2>7. Types'
    BY <1>1, <1>2, <1>4, <1>5, <1>7, <2>1, <2>3 DEF Types, CallType
  <2> QED
    BY <1>5, <2>3, <2>5, <2>6, <2>7, NoCallsRight
<1> QED
  BY <1>3, <1>6, <1>7

\* The first outbound connection.
LEMMA FlushOutboundRight ==
  ASSUME IInv, FlushOutbound
  PROVE  IInv'
BY OutboundUser, OutboundUndone

-----------------------------------------------------------------------------
(* Comm::flush(): the flush list.                                           *)

\* What is known of the first user in the flush list.
LEMMA HeadFlush ==
  ASSUME IInv, flush # <<>>, NEW u, u = Head(flush)
  PROVE  /\ u \in Slot /\ usr[u].obj # None /\ usr[u].flush /\ usr[u].obj \in Obj
         /\ usr[u] \in UserType /\ (~usr[u].outbuf => usr[u].osdone = 0 \/ usr[u].stopped)
         /\ Tail(flush) \in Seq(Slot)
<1>1. /\ flush \in Seq(Slot) /\ FlushIn(usr, flush, outbound) /\ usr \in Users
      /\ UsersApart(usr)
  BY CallsAre DEF IInv, Types, FlushListed, UsersListed
<1>2. u \in Slot /\ u \in Range(flush) /\ Tail(flush) \in Seq(Slot)
  BY <1>1, Tailed
<1>3. usr[u].flush
  BY <1>1, <1>2 DEF FlushIn
<1>4. usr[u].obj # None
  <2>1. ~NoUser.flush
    BY DEF NoUser, NewUser
  <2>2. usr[u].obj = None => usr[u] = NoUser
    BY <1>1, <1>2 DEF UsersApart
  <2> QED
    BY <1>3, <2>1, <2>2
<1>5. usr[u] \in UserType
  BY <1>1, <1>2 DEF Users
<1> QED
  BY <1>1, <1>2, <1>3, <1>4, <1>5 DEF UserType, UsersApart

\* The lists when it is taken out.
LEMMA FlushOff ==
  ASSUME IInv, flush # <<>>, outbound = <<>>, NEW u, u = Head(flush),
         NEW us, ~us[u].flush, \A v \in Slot \ {u} : us[v] = usr[v]
  PROVE  FlushIn(us, Tail(flush), outbound)
<1>1. flush \in Seq(Slot) /\ outbound \in Seq(Slot) /\ FlushIn(usr, flush, outbound)
  BY DEF IInv, Types, FlushListed
<1>2. Range(outbound) = {}
  BY DEF Range
<1>3. /\ u \in Slot /\ u \in Range(flush) /\ IsInjective(Tail(flush))
      /\ Range(Tail(flush)) = Range(flush) \ {u}
  BY <1>1, Tailed DEF FlushIn
<1> QED
  BY <1>1, <1>2, <1>3 DEF FlushIn

\* The user w of which message_done() is to be called still is one.
LEMMA FlushedDone ==
  ASSUME NEW w \in UserType, NEW r, NEW n
  PROVE  /\ FlushedUser(w, r, n).odone \in BOOLEAN
         /\ w.odone => FlushedUser(w, r, n).odone
         /\ Opened(w, r).odone = w.odone
<1> DEFINE o == Opened(w, r)
           s == Served(o, r, n).user
<1>1. w.odone \in BOOLEAN /\ "odone" \in DOMAIN w
  BY DEF UserType
<1>2. o.odone = w.odone /\ DOMAIN o = DOMAIN w
  BY <1>1 DEF Opened
<1> HIDE DEF o
<1>3. s.odone \in BOOLEAN /\ (w.odone => s.odone) /\ DOMAIN s = DOMAIN o
  <2> DEFINE d == o.osdone + n = Len(r.buf)
  <2>1. CASE ~o.output
    BY <1>1, <1>2, <2>1 DEF Served
  <2>2. CASE o.output
    <3>1. s = UFlush(o, r, n).user
      BY <2>2 DEF Served
    <3>2. CASE r.buf = None \/ n = -1
      <4>1. s = [o EXCEPT !.output = FALSE,
                          !.conn = IF r.buf # None THEN "lost" ELSE @]
        BY <3>1, <3>2 DEF UFlush
      <4> QED
        BY <1>1, <1>2, <4>1
    <3>3. CASE ~(r.buf = None \/ n = -1) /\ n = None
      <4>1. s = o
        BY <3>1, <3>3 DEF UFlush
      <4> QED
        BY <1>1, <1>2, <4>1
    <3>4. CASE ~(r.buf = None \/ n = -1) /\ n # None
      <4>1. s = [o EXCEPT !.output = @ /\ ~d, !.odone = @ \/ d,
                          !.osdone = IF d THEN 0 ELSE @ + n]
        BY <3>1, <3>4 DEF UFlush
      <4> HIDE DEF d, s
      <4>2. s.odone = (o.odone \/ d) /\ DOMAIN s = DOMAIN o
        BY <1>1, <1>2, <4>1
      <4> QED
        BY <1>1, <1>2, <4>2
    <3> QED
      BY <3>2, <3>3, <3>4
  <2> QED
    BY <2>1, <2>2
<1> HIDE DEF s
<1>4. FlushedUser(w, r, n) = [s EXCEPT !.stopped = r.stopped, !.flush = FALSE]
  BY DEF FlushedUser, s, o
<1>5. FlushedUser(w, r, n).odone = s.odone
  BY <1>1, <1>2, <1>3, <1>4
<1> QED
  BY <1>2, <1>3, <1>5 DEF o

\* The count when one more is done, and when one is not any more.
LEMMA DoneMore ==
  ASSUME NEW us, NEW us2, NEW u \in Slot, \A v \in Slot \ {u} : us2[v] = us[v],
         us2[u].odone, ~us[u].odone, NEW od \in Int, DoneIn(us, od)
  PROVE  DoneIn(us2, od + 1)
<1> DEFINE S == {v \in Slot : us[v].odone}
           T == {v \in Slot : us2[v].odone}
<1>1. IsFiniteSet(S)
  BY CommAssumption, FS_Subset
<1>2. T = S \cup {u} /\ u \notin S
  OBVIOUS
<1>3. od = Cardinality(S)
  BY DEF DoneIn
<1> HIDE DEF S, T
<1>4. Cardinality(T) = Cardinality(S) + 1
  BY <1>1, <1>2, FS_AddElement
<1> QED
  BY <1>3, <1>4 DEF DoneIn, T

\* One is not any more.
LEMMA DoneLess ==
  ASSUME NEW us, NEW us2, NEW u \in Slot, \A v \in Slot \ {u} : us2[v] = us[v],
         ~us2[u].odone, us[u].odone, NEW od \in Int, DoneIn(us, od)
  PROVE  DoneIn(us2, od - 1)
<1> DEFINE S == {v \in Slot : us[v].odone}
           T == {v \in Slot : us2[v].odone}
<1>1. IsFiniteSet(S)
  BY CommAssumption, FS_Subset
<1>2. T = S \ {u} /\ u \in S
  OBVIOUS
<1>3. od = Cardinality(S)
  BY DEF DoneIn
<1> HIDE DEF S, T
<1>4. Cardinality(T) = Cardinality(S) - 1
  BY <1>1, <1>2, FS_RemoveElement
<1> QED
  BY <1>3, <1>4 DEF DoneIn, T

\* The count when user u becomes x.
LEMMA FlushCount ==
  ASSUME NEW us, NEW us2, NEW u \in Slot, \A v \in Slot \ {u} : us2[v] = us[v],
         NEW w, w.odone = us[u].odone, us[u].odone => us2[u].odone,
         us[u].odone \in BOOLEAN, us2[u].odone \in BOOLEAN,
         odone \in Int, DoneIn(us, odone)
  PROVE  /\ odone + Drained(w, us2[u]) \in Int
         /\ DoneIn(us2, odone + Drained(w, us2[u]))
<1>1. CASE us[u].odone
  <2>1. us2[u].odone = us[u].odone /\ Drained(w, us2[u]) = 0
    BY <1>1 DEF Drained
  <2>2. DoneIn(us2, odone)
    BY <2>1, SameDoneIn
  <2> QED
    BY <2>1, <2>2
<1>2. CASE ~us[u].odone /\ us2[u].odone
  <2>1. Drained(w, us2[u]) = 1
    BY <1>2 DEF Drained
  <2>2. DoneIn(us2, odone + 1)
    BY <1>2, DoneMore
  <2> QED
    BY <2>1, <2>2
<1>3. CASE ~us[u].odone /\ ~us2[u].odone
  <2>1. us2[u].odone = us[u].odone /\ Drained(w, us2[u]) = 0
    BY <1>3 DEF Drained
  <2>2. DoneIn(us2, odone)
    BY <2>1, SameDoneIn
  <2> QED
    BY <2>1, <2>2
<1> QED
  BY <1>1, <1>2, <1>3

\* What Comm::flush() does for user u of object o, when the connection takes n.
FlushStep(u, o, r, n) ==
  LET x == FlushedUser(usr[u], r, n)
      sent == odone + Drained(Opened(usr[u], r), x)
  IN  IF IsUser(o)
        THEN /\ usr' = [usr EXCEPT ![u] = x]
             /\ array' = Kept([array EXCEPT ![usr[u].extra] = FlushedRequest(usr[u], r, n)],
                              obj', usr', calls)
             /\ odone' = sent
             /\ UNCHANGED <<obj, ring, nusers>>
        ELSE /\ Discard(u)
             /\ usr' = [usr EXCEPT ![u] = NoUser]
             /\ obj' = [obj EXCEPT ![o].extra = None]
             /\ array' = Kept(array, obj', usr', calls)
             /\ odone' = IF x.odone THEN sent - 1 ELSE sent

\* FlushUser is that.
LEMMA FlushUserIs ==
  ASSUME FlushUser
  PROVE  /\ phase = "flush" /\ outbound = <<>> /\ flush # <<>>
         /\ flush' = Tail(flush) /\ UNCHANGED <<outbound, phase, then, calls>>
         /\ LET u == Head(flush)
                o == usr[u].obj
                r == array[usr[u].extra]
            IN  \E n \in Takes(Opened(usr[u], r), r) : FlushStep(u, o, r, n)
BY ZenonT(120) DEF FlushUser, FlushStep, loopVars, Opened, Served, FlushedUser, FlushedRequest, Stops

\* A user of the list whose object is a user does what was asked for.
LEMMA FlushUserKeeps ==
  ASSUME IInv, phase = "flush", outbound = <<>>, flush # <<>>, flush' = Tail(flush),
         UNCHANGED <<outbound, phase, then, calls>>,
         NEW u, u = Head(flush), NEW o, o = usr[u].obj, NEW r, r = array[usr[u].extra],
         NEW n \in Takes(Opened(usr[u], r), r), FlushStep(u, o, r, n), IsUser(o)
  PROVE  IInv'
<1> DEFINE w == usr[u]
           a == obj[o].extra
           x == FlushedUser(w, r, n)
           q == FlushedRequest(w, r, n)
           arr2 == [array EXCEPT ![a] = q]
<1>1. /\ usr \in Users /\ ring \in Seq(Slot) /\ outbound \in Seq(Slot)
      /\ flush \in Seq(Slot) /\ obj \in Objects /\ Version(obj, array, usr, obj, array)
      /\ array \in Arrays /\ calls \in Seq(CallType) /\ nusers \in Int /\ odone \in Int
      /\ RingIn(usr, ring, nusers) /\ DoneIn(usr, odone) /\ Unique(usr)
  BY CallsAre DEF IInv, Types, UsersListed, DoneCounted, DoneIn
<1>2. /\ u \in Slot /\ w.obj # None /\ w.flush /\ o \in Obj
      /\ w \in UserType /\ (~w.outbuf => w.osdone = 0 \/ w.stopped)
      /\ flush' \in Seq(Slot)
  BY HeadFlush
<1>3. /\ obj[o].slot = u /\ a \in ArraysOf(o) /\ Agree(w, a, array[a])
  <2> HIDE DEF x, q, arr2
  <2> QED
    BY <1>1, <1>2, VersionUser DEF IsUser
<1>4. usr[u].extra = a
  BY Zenon, <1>2, <1>3 DEF Agree
<1>5. Agree(w, a, r)
  BY Zenon, <1>3, <1>4
<1>6. /\ Agree(x, a, q) /\ x \in UserType /\ x.obj = o /\ ~x.flush
      /\ (w.odone => x.odone)
  <2>1. w.obj = o /\ n \in Takes(Opened(w, r), r)
    OBVIOUS
  <2> HIDE DEF w, a
  <2> QED
    BY <1>2, <1>5, <2>1, AgreeFlushed
<1>7. x.odone \in BOOLEAN /\ Opened(w, r).odone = w.odone
  <2> HIDE DEF w
  <2> QED
    BY SMTT(60), <1>2, FlushedDone
<1>8. /\ usr' = [usr EXCEPT ![u] = x]
      /\ array' = Kept(arr2, obj', usr', calls)
      /\ odone' = odone + Drained(Opened(w, r), x)
      /\ UNCHANGED <<obj, ring, nusers>>
  BY Zenon, <1>4 DEF FlushStep
<1> HIDE DEF x, q
<1>9. q \in RequestType
  BY <1>6 DEF Agree
<1>10. a \in ArrayId /\ \A p \in Obj \ {o} : IsUser(p) => obj[p].extra # a
  BY SMTT(60), <1>2, UserIs
<1>11. /\ arr2 \in Arrays /\ arr2[a] = q
       /\ \A p \in Obj \ {o} : IsUser(p) =>
            obj[p].extra \in ArrayId /\ arr2[obj[p].extra] = array[obj[p].extra]
  <2>1. arr2 \in Arrays /\ arr2[a] = q
    BY <1>1, <1>9, <1>10 DEF Arrays
  <2>2. ASSUME NEW p \in Obj \ {o}, IsUser(p)
        PROVE  obj[p].extra \in ArrayId /\ arr2[obj[p].extra] = array[obj[p].extra]
    <3>1. obj[p].extra # a /\ obj[p].extra \in ArrayId
      BY <1>10, <2>2, UserIs
    <3> QED
      BY <1>1, <3>1 DEF Arrays
  <2> QED
    BY <2>1, <2>2
<1> HIDE DEF arr2
<1>12. /\ array' \in Arrays /\ array'[a] = q
       /\ \A p \in Obj \ {o} : IsUser(p) => array'[obj[p].extra] = array[obj[p].extra]
  <2>1. /\ array' \in Arrays
        /\ \A p \in Obj : obj'[p].extra \in ArrayId => array'[obj'[p].extra] = arr2[obj'[p].extra]
    <3>1. /\ Kept(arr2, obj', usr', calls) \in Arrays
          /\ \A p \in Obj : obj'[p].extra \in ArrayId =>
                Kept(arr2, obj', usr', calls)[obj'[p].extra] = arr2[obj'[p].extra]
      BY <1>11, KeptIs
    <3> QED
      BY <1>8, <3>1
  <2>2. obj' = obj
    BY SMTT(60), <1>8
  <2> QED
    BY <1>2, <1>10, <1>11, <2>1, <2>2
<1>13. Changes(u, o, x, q)
  BY Zenon, <1>2, <1>3, <1>6, <1>8, <1>12 DEF Changes
<1>14. /\ Version(obj', array', usr', obj', array')
       /\ usr' \in Users /\ usr'[u] = x /\ (\A t \in Slot \ {u} : usr'[t] = usr[t])
       /\ (\A t \in Slot : usr'[t].obj = usr[t].obj)
       /\ UsersApart(usr')
  BY <1>2, <1>13, ChangesRight
<1>15. FlushIn(usr', flush', outbound')
  <2>1. ~usr'[u].flush /\ outbound' = outbound
    BY <1>6, <1>14
  <2> QED
    BY <1>14, <2>1, FlushOff
<1>16. odone' \in Int /\ DoneIn(usr', odone')
  <2> DEFINE v == Opened(w, r)
  <2>1. usr[u].odone \in BOOLEAN
    BY <1>2, UserFields
  <2>2. /\ \A t \in Slot \ {u} : usr'[t] = usr[t]
        /\ v.odone = usr[u].odone /\ (usr[u].odone => usr'[u].odone) /\ usr'[u].odone \in BOOLEAN
    BY <1>6, <1>7, <1>14
  <2>3. odone \in Int /\ DoneIn(usr, odone) /\ u \in Slot
    BY <1>1, <1>2
  <2>4. odone' = odone + Drained(v, usr'[u])
    BY <1>8, <1>14
  <2> HIDE DEF v, w
  <2>5. odone + Drained(v, usr'[u]) \in Int /\ DoneIn(usr', odone + Drained(v, usr'[u]))
    BY <2>1, <2>2, <2>3, FlushCount
  <2> QED
    BY <2>4, <2>5
<1>17. RingIn(usr', ring', nusers')
  BY <1>1, <1>8, <1>14 DEF RingIn
<1>18. /\ calls = <<>> /\ calls' = <<>> /\ PhaseRight' /\ phase' \in Phases
       /\ then'.kind \in Thens /\ then'.kind # "create"
  BY SMTT(60), FlushPhase
<1>19. Types'
  BY Zenon, <1>1, <1>2, <1>8, <1>12, <1>14, <1>16, <1>18 DEF Types, CallType
<1> QED
  BY <1>14, <1>15, <1>16, <1>17, <1>18, <1>19, NoCallsRight

\* A user of the list whose object is no user goes.
LEMMA FlushUserGoes ==
  ASSUME IInv, phase = "flush", outbound = <<>>, flush # <<>>, flush' = Tail(flush),
         UNCHANGED <<outbound, phase, then, calls>>,
         NEW u, u = Head(flush), NEW o, o = usr[u].obj, NEW r, r = array[usr[u].extra],
         NEW n \in Takes(Opened(usr[u], r), r), FlushStep(u, o, r, n), ~IsUser(o)
  PROVE  IInv'
<1> DEFINE w == usr[u]
           x == FlushedUser(w, r, n)
           v == Opened(w, r)
           sent == odone + Drained(v, x)
<1>1. /\ usr \in Users /\ ring \in Seq(Slot) /\ outbound \in Seq(Slot)
      /\ flush \in Seq(Slot) /\ obj \in Objects /\ Version(obj, array, usr, obj, array)
      /\ array \in Arrays /\ calls \in Seq(CallType) /\ nusers \in Int /\ odone \in Int
      /\ RingIn(usr, ring, nusers) /\ DoneIn(usr, odone) /\ Unique(usr)
  BY CallsAre DEF IInv, Types, UsersListed, DoneCounted, DoneIn
<1>2. /\ u \in Slot /\ w.obj # None /\ w.flush /\ o \in Obj
      /\ w \in UserType /\ flush' \in Seq(Slot)
  BY HeadFlush
<1>3. x.odone \in BOOLEAN /\ (w.odone => x.odone) /\ v.odone = w.odone
  <2> HIDE DEF w
  <2> QED
    BY <1>2, FlushedDone
<1>4. /\ Discard(u) /\ usr' = [usr EXCEPT ![u] = NoUser]
      /\ obj' = [obj EXCEPT ![o].extra = None]
      /\ array' = Kept(array, obj', usr', calls)
      /\ odone' = IF x.odone THEN sent - 1 ELSE sent
  BY DEF FlushStep
<1> HIDE DEF x, v
<1>5. /\ obj' \in Objects /\ (\A p \in Obj \ {o} : obj'[p] = obj[p])
      /\ obj'[o].user = FALSE
  <2>1. obj[o] \in ObjectType
    BY <1>1, <1>2 DEF Objects
  <2> DEFINE e == [obj[o] EXCEPT !.extra = None]
  <2>2. e \in ObjectType /\ e.user = obj[o].user /\ obj[o].user \in BOOLEAN
    BY <2>1 DEF ObjectType
  <2>3. obj' = [obj EXCEPT ![o] = e]
    BY <1>4
  <2> HIDE DEF e
  <2>4. obj' \in Objects /\ obj'[o] = e /\ \A p \in Obj \ {o} : obj'[p] = obj[p]
    BY SMTT(60), <1>1, <1>2, <2>2, <2>3 DEF Objects
  <2> QED
    BY <2>2, <2>4 DEF IsUser
<1>6. Goes(u)
  BY Zenon, <1>2, <1>4, <1>5 DEF Goes
<1>7. /\ Version(obj', array', usr', obj', array')
      /\ usr' \in Users /\ usr'[u] = NoUser /\ (\A t \in Slot \ {u} : usr'[t] = usr[t])
      /\ UsersApart(usr') /\ ring' \in Seq(Slot) /\ nusers' \in Int
      /\ RingIn(usr', ring', nusers') /\ array' \in Arrays
  BY <1>2, <1>6, GoesRight
<1>8. NoUser.flush = FALSE /\ NoUser.odone = FALSE
  BY DEF NoUser, NewUser
<1>9. FlushIn(usr', flush', outbound')
  <2>1. ~usr'[u].flush /\ outbound' = outbound
    BY <1>7, <1>8
  <2> QED
    BY <1>7, <2>1, FlushOff
<1>10. odone' \in Int /\ DoneIn(usr', odone')
  <2> DEFINE us2 == [usr EXCEPT ![u] = x]
  <2>1. us2[u] = x /\ \A t \in Slot \ {u} : us2[t] = usr[t]
    BY <1>1, <1>2 DEF Users
  <2>2. usr[u].odone \in BOOLEAN
    BY <1>2, UserFields
  <2>3. odone \in Int /\ DoneIn(usr, odone) /\ u \in Slot
    BY <1>1, <1>2
  <2>4. v.odone = usr[u].odone /\ (usr[u].odone => us2[u].odone) /\ us2[u].odone \in BOOLEAN
    BY <1>3, <2>1
  <2> HIDE DEF us2, w
  <2>5. odone + Drained(v, us2[u]) \in Int /\ DoneIn(us2, odone + Drained(v, us2[u]))
    BY <2>1, <2>2, <2>3, <2>4, FlushCount
  <2>6. sent \in Int /\ DoneIn(us2, sent)
    BY <2>1, <2>5
  <2> HIDE DEF sent
  <2>7. ~usr'[u].odone /\ \A t \in Slot \ {u} : usr'[t] = us2[t]
    BY <1>7, <1>8, <2>1
  <2>8. CASE x.odone
    <3>1. DoneIn(usr', sent - 1)
      BY <2>1, <2>3, <2>6, <2>7, <2>8, DoneLess
    <3> QED
      <4> HIDE DEF x, v
      <4> QED
        BY <1>4, <2>6, <2>8, <3>1
  <2>9. CASE ~x.odone
    <3>1. usr'[u].odone = us2[u].odone
      BY <1>3, <1>7, <1>8, <2>1, <2>9
    <3>2. \A t \in Slot : usr'[t].odone = us2[t].odone
      BY <2>7, <3>1
    <3>3. DoneIn(usr', sent)
      BY <2>6, <3>2, SameDoneIn
    <3> QED
      BY <1>4, <2>6, <2>9, <3>3
  <2> QED
    BY <2>8, <2>9
<1>11. /\ calls = <<>> /\ calls' = <<>> /\ PhaseRight' /\ phase' \in Phases
       /\ then'.kind \in Thens /\ then'.kind # "create"
  BY FlushPhase
<1>12. Types'
  BY <1>1, <1>2, <1>5, <1>7, <1>10, <1>11 DEF Types, CallType
<1> QED
  BY <1>7, <1>9, <1>10, <1>11, <1>12, NoCallsRight

\* The first user of the flush list.
LEMMA FlushUserRight ==
  ASSUME IInv, FlushUser
  PROVE  IInv'
<1> DEFINE u == Head(flush)
           o == usr[u].obj
           r == array[usr[u].extra]
<1>1. /\ phase = "flush" /\ outbound = <<>> /\ flush # <<>>
      /\ flush' = Tail(flush) /\ UNCHANGED <<outbound, phase, then, calls>>
      /\ \E n \in Takes(Opened(usr[u], r), r) : FlushStep(u, o, r, n)
  BY FlushUserIs
<1>2. PICK n \in Takes(Opened(usr[u], r), r) : FlushStep(u, o, r, n)
  BY <1>1
<1> QED
  BY <1>1, <1>2, FlushUserKeeps, FlushUserGoes

\* Destructed objects are cleaned up: no user has one any more.
LEMMA FlushEndRight ==
  ASSUME IInv, FlushEnd
  PROVE  IInv'
<1>1. /\ usr \in Users /\ ring \in Seq(Slot) /\ outbound \in Seq(Slot)
      /\ flush \in Seq(Slot) /\ obj \in Objects /\ Version(obj, array, usr, obj, array)
      /\ array \in Arrays /\ nusers \in Int /\ odone \in Int
      /\ RingIn(usr, ring, nusers) /\ DoneIn(usr, odone) /\ UsersApart(usr)
      /\ FlushIn(usr, flush, outbound)
  BY CallsAre DEF IInv, Types, UsersListed, DoneCounted, DoneIn, FlushListed
<1>2. /\ phase = "flush" /\ outbound = <<>> /\ flush = <<>> /\ phase' = then.kind
      /\ obj' = [o \in Obj |-> IF obj[o].state = "dead" THEN NoObject ELSE obj[o]]
      /\ array' = Kept(array, obj', usr, calls)
      /\ UNCHANGED <<usr, ring, flush, outbound, nusers, odone, then, calls>>
  BY DEF FlushEnd, countVars
<1>3. calls = <<>> /\ then.kind \in Thens /\ then.kind # "create"
  BY <1>2 DEF IInv, PhaseRight, Types
<1>4. NoObject \in ObjectType /\ NoObject.user = FALSE
  BY DEF NoObject, ObjectType
<1>5. obj' \in Objects
  BY <1>1, <1>2, <1>4 DEF Objects
<1>6. \A p \in Obj : obj[p].state # "dead" => obj'[p] = obj[p]
  BY <1>2
<1>7. \A p \in Obj : obj'[p].user => obj'[p] = obj[p] /\ IsUser(p)
  BY <1>2, <1>4 DEF IsUser
<1>8. array' \in Arrays
  BY <1>1, <1>2, KeptIs
<1>9. ASSUME NEW p \in Obj, obj'[p].user
      PROVE  Belongs(obj', array', usr', p)
  <2>1. obj'[p] = obj[p] /\ IsUser(p)
    BY <1>7, <1>9
  <2>2. Belongs(obj, array, usr, p)
    BY <1>1, <2>1 DEF Version, IsUser
  <2>3. obj[p].extra \in ArrayId
    BY <2>1, UserIs
  <2>4. array'[obj'[p].extra] = array[obj'[p].extra]
    BY <1>1, <1>2, <2>1, <2>3, KeptIs
  <2> QED
    BY <1>2, <2>1, <2>2, <2>4 DEF Belongs
<1>10. ASSUME NEW u \in Slot, Listless(usr', u)
       PROVE  Untouched(obj', array', usr', obj', array', u)
  <2>1. /\ usr[u].obj \in Obj /\ obj[usr[u].obj].user /\ obj[usr[u].obj].slot = u
        /\ obj[usr[u].obj].state = "live"
    BY <1>1, <1>2, <1>10, ListlessUser
  <2>2. obj'[usr[u].obj] = obj[usr[u].obj]
    BY <1>6, <2>1
  <2> QED
    BY <1>2, <2>1, <2>2 DEF Untouched
<1>11. Version(obj', array', usr', obj', array')
  BY <1>9, <1>10 DEF Version
<1>12. PhaseRight' /\ phase' \in Phases /\ then'.kind \in Thens
       /\ (then'.kind = "create" => then'.arg \in BOOLEAN)
  BY <1>2, <1>3 DEF PhaseRight, Thens, Phases
<1>13. calls' = <<>> /\ calls' \in Seq(CloseType \cup AtomicType)
  BY <1>2, <1>3
<1>14. Types'
  BY <1>1, <1>2, <1>5, <1>8, <1>12, <1>13 DEF Types
<1> QED
  BY <1>1, <1>2, <1>11, <1>12, <1>13, <1>14, NoCallsRight

-----------------------------------------------------------------------------
(* The invariant.                                                           *)

\* There are no users yet.
LEMMA InitRight ==
  ASSUME Init
  PROVE  IInv
<1>1. NoUser \in UserType /\ NoUser.obj = None /\ ~NoUser.flush /\ ~NoUser.odone
      /\ NoUser.osdone = 0
  BY DEF NoUser, NewUser, UserType
<1>2. NoObject \in ObjectType /\ ~NoObject.user
  BY DEF NoObject, ObjectType
<1>3. /\ usr = [u \in Slot |-> NoUser] /\ obj = [o \in Obj |-> NoObject]
      /\ array = [a \in ArrayId |-> None] /\ calls = <<>> /\ odone = 0 /\ nusers = 0
      /\ ring = <<>> /\ flush = <<>> /\ outbound = <<>> /\ phase = "idle"
      /\ then.kind = "idle"
  BY DEF Init
<1>4. Types
  BY <1>1, <1>2, <1>3 DEF Types, Objects, Arrays, Users, Phases, Thens
<1>5. \A u \in Slot : usr[u] = NoUser
  BY <1>3
<1>6. Range(<<>>) = {} /\ IsInjective(<<>>) /\ Len(<<>>) = 0
  BY DEF Range, IsInjective
<1>7. VersionsRight /\ ClosesRight
  BY <1>1, <1>2, <1>3, <1>5
     DEF VersionsRight, ClosesRight, VersionsIn, ClosesIn, Version, Listless
<1>8. UsersListed
  BY <1>1, <1>3, <1>5, <1>6 DEF UsersListed, RingIn, UsersApart
<1>9. FlushListed
  BY <1>1, <1>3, <1>5, <1>6 DEF FlushListed, FlushIn
<1>10. DoneCounted
  <2>1. {u \in Slot : usr[u].odone} = {}
    BY <1>1, <1>5
  <2> QED
    BY <1>3, <2>1, FS_EmptySet DEF DoneCounted
<1>11. PhaseRight
  BY <1>3 DEF PhaseRight
<1> QED
  BY <1>4, <1>7, <1>8, <1>9, <1>10, <1>11 DEF IInv

\* A step that changes nothing.
LEMMA StutterRight ==
  ASSUME IInv, UNCHANGED vars
  PROVE  IInv'
<1>1. IInv' <=> IInv
  BY DEF vars, IInv, Types, VersionsRight, VersionsIn, ClosesRight, ClosesIn, UsersListed,
         FlushListed, PhaseRight, DoneCounted
<1> QED
  BY <1>1

\* Every step keeps the invariant.
LEMMA NextRight ==
  ASSUME IInv, ~Reconnects, Next
  PROVE  IInv'
<1>1. CASE \E o \in Obj : \/ NewObject(o) \/ Destruct(o) \/ Close(o) \/ Stop(o)
                          \/ \E b \in Byte : Send(o, b)
                          \/ \E on \in BOOLEAN : Block(o, on)
                          \/ \E u \in Slot : \/ CreateUser(o, u)
                                             \/ \E kind \in Connects : Connect(o, u, kind)
                          \/ ConnectNoUser(o)
  <2>1. PICK o \in Obj : \/ NewObject(o) \/ Destruct(o) \/ Close(o) \/ Stop(o)
                         \/ \E b \in Byte : Send(o, b)
                         \/ \E on \in BOOLEAN : Block(o, on)
                         \/ \E u \in Slot : \/ CreateUser(o, u)
                                            \/ \E kind \in Connects : Connect(o, u, kind)
                         \/ ConnectNoUser(o)
    BY <1>1
  <2>2. CASE NewObject(o)
    BY <2>2, NewObjectRight
  <2>3. CASE Destruct(o)
    BY <2>3, DestructRight
  <2>4. CASE Close(o)
    BY <2>4, CloseRight
  <2>5. CASE Stop(o)
    BY <2>5, StopRight
  <2>6. CASE \E b \in Byte : Send(o, b)
    BY <2>6, SendRight
  <2>7. CASE \E on \in BOOLEAN : Block(o, on)
    BY <2>7, BlockRight
  <2>8. CASE \E u \in Slot : CreateUser(o, u)
    BY <2>8, CreateUserRight
  <2>9. CASE \E u \in Slot, kind \in Connects : Connect(o, u, kind)
    BY <2>9, ConnectRight
  <2>10. CASE ConnectNoUser(o)
    BY <2>10, CrashRight
  <2> QED
    BY <2>1, <2>2, <2>3, <2>4, <2>5, <2>6, <2>7, <2>8, <2>9, <2>10
<1>2. CASE EndClose \/ Enter \/ Return \/ Fail
  BY <1>2, EndCloseRight, EnterRight, ReturnRight, FailRight
<1>3. CASE FlushOutbound \/ FlushUser \/ FlushEnd
  BY <1>3, FlushOutboundRight, FlushUserRight, FlushEndRight
<1>4. CASE FlushNoConnection \/ CreateNoUser
  BY <1>4, CrashRight
<1>5. CASE \/ EndTask \/ TaskFails \/ CallOutTask \/ Receive \/ AcceptEnd \/ EndLoop
           \/ \E dgram \in BOOLEAN : Accept(dgram)
           \/ \E u \in Slot : NoInput(u) \/ Input(u)
  BY <1>5, LoopRight
<1>6. CASE \E u \in Slot : \/ Pending(u) \/ Serve(u) \/ EndOfInput(u)
                           \/ \E made \in BOOLEAN : Connected(u, made)
  BY <1>6, PendingRight, ServeRight, EndOfInputRight, ConnectedRight
<1> QED
  BY <1>1, <1>2, <1>3, <1>4, <1>5, <1>6 DEF Next

\* IInv holds whatever tasks ask for, and however they end, as long as nobody
\* reconnects an object that a user still has to do with (Comm::flush(),
\* Comm::receive(), User::del(), Dataspace planes).
THEOREM Inductive ==
  ASSUME ~Reconnects
  PROVE  Spec => []IInv
<1>1. Init => IInv
  BY InitRight
<1>2. IInv /\ [Next]_vars => IInv'
  BY NextRight, StutterRight
<1> QED
  BY <1>1, <1>2, PTL DEF Spec

\* Users, the objects they are connected to and the counts that the loop goes
\* by agree between tasks, whatever was closed, destructed or undone.
THEOREM UsersCorrect ==
  ASSUME ~Reconnects
  PROVE  Spec => []UsersRight
<1>1. ASSUME IInv PROVE UsersRight
  <2>1. DoneCounted
    BY <1>1 DEF IInv
  <2>2. ASSUME BetweenTasks
        PROVE  /\ nusers = Len(ring) /\ IsInjective(ring)
               /\ Range(ring) = {u \in Slot : InUse(u)}
               /\ \A u \in Range(ring) : LET o == usr[u].obj
                                         IN  Live(o) /\ IsUser(o) /\ obj[o].slot = u
               /\ \A o \in Obj : IsUser(o) => usr[obj[o].slot].obj = o
    <3>1. /\ ring \in Seq(Slot) /\ RingIn(usr, ring, nusers) /\ usr \in Users
          /\ Version(obj, array, usr, obj, array)
      BY <1>1, CallsAre DEF IInv, Types, UsersListed
    <3>2. Range(ring) \subseteq Slot
      BY <3>1, RangeIs
    <3>3. Range(ring) = {u \in Slot : InUse(u)}
      BY <3>1, <3>2 DEF RingIn, InUse
    <3>4. \A u \in Slot : ~usr[u].flush
      BY <1>1, <2>2, LoopUsers DEF BetweenTasks
    <3>5. ASSUME NEW u \in Range(ring)
          PROVE  Live(usr[u].obj) /\ IsUser(usr[u].obj) /\ obj[usr[u].obj].slot = u
      <4>1. u \in Slot /\ Listless(usr, u)
        BY <3>2, <3>3, <3>4 DEF Listless, InUse
      <4> QED
        BY <3>1, <4>1, ListlessUser DEF Live, IsUser
    <3>6. \A o \in Obj : IsUser(o) => usr[obj[o].slot].obj = o
      BY <1>1, UserIs
    <3>7. nusers = Len(ring) /\ IsInjective(ring)
      BY <3>1 DEF RingIn
    <3> QED
      BY <3>3, <3>5, <3>6, <3>7
  <2> QED
    BY <2>1, <2>2 DEF UsersRight, SlotsRight
<1>2. Spec => []IInv
  BY Inductive
<1> QED
  BY <1>1, <1>2, PTL

\* The user of a connection suits the request of its object.
LEMMA ConnectionAgrees ==
  ASSUME IInv, NEW u \in Slot, Connection(u)
  PROVE  LET o == usr[u].obj
         IN  Agree(usr[u], obj[o].extra, Request(o))
<1>1. /\ usr \in Users /\ Version(obj, array, usr, obj, array) /\ Unique(usr)
  BY CallsAre
<1>2. usr[u].obj \in Obj /\ obj[usr[u].obj].user
  BY <1>1 DEF Connection, InUse, IsUser, Users, UserType
<1> QED
  BY <1>1, <1>2, VersionUser DEF Request

\* What is left of the buffer is what has been accepted, is not undone and has
\* not been written (User::write(), Comm::uflush(), addtoflush()).
THEOREM OutputCorrect ==
  ASSUME ~Reconnects
  PROVE  Spec => []OutputKept
<1>1. ASSUME IInv PROVE OutputKept
  <2>1. ASSUME NEW u \in Slot, Connection(u)
        PROVE  Rest(u) = Request(usr[u].obj).due
    <3>1. RestOf(usr[u], Request(usr[u].obj)) = Request(usr[u].obj).due
      BY <1>1, <2>1, ConnectionAgrees DEF Agree
    <3> QED
      BY <3>1 DEF Rest, RestOf
  <2> QED
    BY <2>1 DEF OutputKept
<1>2. Spec => []IInv
  BY Inductive
<1> QED
  BY <1>1, <1>2, PTL

\* Between tasks a user does what its object asks for, and message_done() is
\* called only when it is owed (block_input(), send_close(), Comm::flush()).
THEOREM RequestsCorrect ==
  ASSUME ~Reconnects
  PROVE  Spec => []RequestsRight
<1>1. ASSUME IInv PROVE RequestsRight
  <2>1. ASSUME BetweenTasks, NEW u \in Slot, Connection(u)
        PROVE  /\ usr[u].blocked = Request(usr[u].obj).blocked
               /\ usr[u].stopped = Request(usr[u].obj).stopped
               /\ usr[u].odone => Request(usr[u].obj).owed
    <3>1. ~usr[u].flush
      BY <1>1, <2>1, LoopUsers DEF BetweenTasks
    <3>2. Agree(usr[u], obj[usr[u].obj].extra, Request(usr[u].obj))
      BY <1>1, <2>1, ConnectionAgrees
    <3> QED
      BY <3>1, <3>2 DEF Agree
  <2> QED
    BY <2>1 DEF RequestsRight, RequestsDone, DoneTold
<1>2. Spec => []IInv
  BY Inductive
<1> QED
  BY <1>1, <1>2, PTL
=============================================================================
