---------------------------- MODULE ClientProofs ----------------------------
(***************************************************************************)
(* Proof that ClientInv is an invariant of ClientSystem for every number   *)
(* of boots, connections, cuts, failures and pending boots, that the       *)
(* client exits for cause, and that client and object together implement   *)
(* BootHandover.                                                           *)
(*                                                                         *)
(* The invariant is about what is on its way.  Talk says that a frame,     *)
(* once sent, stays true until the client reads it, that the connection of *)
(* the client is about one boot, and that a close comes only behind a      *)
(* frame that ends the session.  CalmTalk adds what is known as long as    *)
(* nothing was cut and nothing failed: the first connection is the only    *)
(* one, it is never resumed and never refused.                             *)
(*                                                                         *)
(* A handler of the object replies on some connections and moves the boots *)
(* forward (ServerStep); whatever does that keeps Talk (ServerKeepsTalk).  *)
(* The client either leaves its connection (LeaveKeepsTalk) or takes one   *)
(* frame off it (ReadKeepsTalk).                                           *)
(***************************************************************************)
EXTENDS ClientSystem, SequenceTheorems, FiniteSetTheorems, TLAPS


-----------------------------------------------------------------------------
(* Frames *)

\* The codes of an error or close frame.
Codes == {"RATE_LIMITED", "CONFLICT", "PROTOCOL_ERROR", "FORBIDDEN", "UNKNOWN_BOOT", "TERMINAL",
          "NORMAL"}

\* The frames that end a session for the client.
Last == {"declined", "expired", "canceled", "consumed", "error"}

\* What a client can send: an acknowledgement is of a payload it could use.
UpFrame ==
  [type : {"hello"}, boot : {NULL}, arg : {NULL}]
    \cup [type : {"resume"}, boot : Boots, arg : {NULL}]
    \cup [type : {"proof"}, boot : Boots, arg : Conns]
    \cup [type : {"received"}, boot : Boots, arg : {"good"}]

\* What the object can send.
DownFrame ==
  [type : {"pending", "declined", "expired", "canceled", "consumed"}, boot : Boots, arg : {NULL}]
    \cup [type : {"challenge"}, boot : Boots, arg : Conns]
    \cup [type : {"resumed"}, boot : Boots, arg : Live \cup {NoStatus}]
    \cup [type : {"approved"}, boot : Boots, arg : Kinds]
    \cup [type : {"error", "close"}, boot : {NULL}, arg : Codes]

\* The connections of Wire with these frames on their way.
Connection ==
  [client : BOOLEAN, server : BOOLEAN, cut : BOOLEAN, up : Seq(UpFrame), down : Seq(DownFrame),
   boot : Boots \cup {NULL}]

-----------------------------------------------------------------------------
(* Sequences of frames *)

\* No frame is on an empty queue,
LEMMA RangeEmpty == Range(<<>>) = {}
BY DEF Range

\* the frame itself on a queue of one,
LEMMA RangeOne == \A x : Range(<<x>>) = {x}
BY DEF Range

\* both on a queue of two,
LEMMA RangeTwo == \A x, y : Range(<<x, y>>) = {x, y}
BY DEF Range

\* and only the empty queue has none.
LEMMA RangeNone ==
  ASSUME NEW S, NEW s \in Seq(S)
  PROVE  (Range(s) = {}) <=> (s = <<>>)
<1>1. ASSUME s # <<>> PROVE Range(s) # {}
  <2>1. 1 \in DOMAIN s
    BY <1>1
  <2> QED
    BY <2>1 DEF Range
<1> QED
  BY <1>1, RangeEmpty

\* The first frame and the rest make up the queue.
LEMMA RangeHead ==
  ASSUME NEW S, NEW s \in Seq(S), s # <<>>
  PROVE  /\ Head(s) \in Range(s) /\ Head(s) \in S
         /\ Tail(s) \in Seq(S)
         /\ Range(Tail(s)) \subseteq Range(s)
         /\ Range(s) = {Head(s)} \cup Range(Tail(s))
<1>1. /\ Head(s) \in S /\ Tail(s) \in Seq(S) /\ Len(Tail(s)) = Len(s) - 1
      /\ \A i \in 1 .. Len(Tail(s)) : Tail(s)[i] = s[i + 1]
      /\ Len(s) \in Nat /\ Len(s) > 0
  BY HeadTailProperties
<1>2. Head(s) = s[1] /\ 1 \in DOMAIN s
  BY <1>1
<1>3. DOMAIN s = 1 .. Len(s) /\ DOMAIN Tail(s) = 1 .. (Len(s) - 1)
  BY <1>1
<1>4. ASSUME NEW i \in DOMAIN Tail(s) PROVE i + 1 \in DOMAIN s /\ Tail(s)[i] = s[i + 1]
  BY <1>1, <1>3
<1>5. ASSUME NEW i \in DOMAIN s, i # 1 PROVE i - 1 \in DOMAIN Tail(s) /\ Tail(s)[i - 1] = s[i]
  <2>1. i - 1 \in 1 .. (Len(s) - 1) /\ (i - 1) + 1 = i
    BY <1>1, <1>3, <1>5
  <2> QED
    BY <2>1, <1>1, <1>3
<1>6. Range(Tail(s)) \subseteq Range(s)
  BY <1>4 DEF Range
<1>7. Range(s) \subseteq {Head(s)} \cup Range(Tail(s))
  BY <1>2, <1>5 DEF Range
<1>8. Head(s) \in Range(s)
  BY <1>2 DEF Range
<1>9. Range(s) = {Head(s)} \cup Range(Tail(s))
  BY <1>6, <1>7, <1>8
<1> QED
  BY <1>1, <1>6, <1>8, <1>9

\* Sending a frame adds that frame.
LEMMA RangeOfAppend ==
  ASSUME NEW S, NEW s \in Seq(S), NEW x \in S
  PROVE  Append(s, x) \in Seq(S) /\ Range(Append(s, x)) = Range(s) \cup {x}
<1>1. Append(s, x) = s \o <<x>> /\ <<x>> \in Seq(S) /\ Append(s, x) \in Seq(S)
  BY AppendIsConcat, AppendProperties
<1>2. Range(s \o <<x>>) = Range(s) \cup Range(<<x>>)
  BY <1>1, RangeConcatenation
<1>3. Range(<<x>>) = {x}
  BY RangeOne
<1> QED
  BY <1>1, <1>2, <1>3

\* Sending several adds those.
LEMMA RangeOfConcat ==
  ASSUME NEW s \in Seq(DownFrame), NEW t \in Seq(DownFrame)
  PROVE  s \o t \in Seq(DownFrame) /\ Range(s \o t) = Range(s) \cup Range(t)
BY RangeConcatenation, ConcatProperties

\* What is sent behind a first frame does not change which one is first.
LEMMA TailOfConcat ==
  ASSUME NEW s \in Seq(DownFrame), NEW t \in Seq(DownFrame), s # <<>>
  PROVE  /\ s \o t # <<>> /\ Head(s \o t) = Head(s)
         /\ Tail(s) \in Seq(DownFrame) /\ Tail(s \o t) = Tail(s) \o t
<1> DEFINE u == s \o t
           r == Tail(s)
           m == Len(s)
           n == Len(t)
<1>1. /\ m \in Nat /\ m > 0 /\ n \in Nat /\ Head(s) = s[1]
      /\ r \in Seq(DownFrame) /\ Len(r) = m - 1 /\ \A i \in 1 .. m - 1 : r[i] = s[i + 1]
  BY HeadTailProperties
<1>2. /\ u \in Seq(DownFrame) /\ Len(u) = m + n
      /\ \A i \in 1 .. m + n : u[i] = IF i <= m THEN s[i] ELSE t[i - m]
  BY ConcatProperties
<1>3. /\ r \o t \in Seq(DownFrame) /\ Len(r \o t) = Len(r) + n
      /\ \A i \in 1 .. Len(r) + n : (r \o t)[i] = IF i <= Len(r) THEN r[i] ELSE t[i - Len(r)]
  BY <1>1, ConcatProperties
<1> HIDE DEF u, r, m, n
<1>4. u # <<>> /\ Head(u) = u[1]
  BY <1>1, <1>2
<1>5. u[1] = s[1]
  BY <1>1, <1>2
<1>6. /\ Tail(u) \in Seq(DownFrame) /\ Len(Tail(u)) = m + n - 1
      /\ \A i \in 1 .. m + n - 1 : Tail(u)[i] = u[i + 1]
  BY <1>1, <1>2, <1>4, HeadTailProperties
<1>7. ASSUME NEW i \in 1 .. m + n - 1 PROVE Tail(u)[i] = (r \o t)[i]
  <2>1. /\ i + 1 \in 1 .. m + n /\ i \in 1 .. Len(r) + n
        /\ (i + 1) - m = i - Len(r) /\ (i + 1 <= m <=> i <= Len(r))
        /\ i <= Len(r) => i \in 1 .. m - 1
    BY <1>1
  <2>2. CASE i <= Len(r)
    <3>1. Tail(u)[i] = s[i + 1]
      BY <1>2, <1>6, <2>1, <2>2
    <3>2. (r \o t)[i] = s[i + 1]
      BY <1>1, <1>3, <2>1, <2>2
    <3> QED
      BY <3>1, <3>2
  <2>3. CASE ~(i <= Len(r))
    <3>1. Tail(u)[i] = t[i - Len(r)]
      BY <1>2, <1>6, <2>1, <2>3
    <3>2. (r \o t)[i] = t[i - Len(r)]
      BY <1>1, <1>3, <2>1, <2>3
    <3> QED
      BY <3>1, <3>2
  <2> QED
    BY <2>2, <2>3
<1>8. Len(Tail(u)) = Len(r \o t)
  BY <1>1, <1>3, <1>6
<1>9. Tail(u) = r \o t
  BY <1>1, <1>3, <1>6, <1>7, <1>8, SeqEqual
<1> QED
  BY <1>1, <1>4, <1>5, <1>9 DEF u, r

\* What a cut leaves of a queue was on it.
LEMMA RangePrefix ==
  ASSUME NEW S, NEW s \in Seq(S), NEW n \in 0 .. Len(s)
  PROVE  /\ Prefix(s, n) \in Seq(S)
         /\ Len(Prefix(s, n)) = n
         /\ \A i \in 1 .. n : Prefix(s, n)[i] = s[i]
         /\ Range(Prefix(s, n)) \subseteq Range(s)
<1>1. DOMAIN s = 1 .. Len(s) /\ Len(s) \in Nat /\ n \in Nat /\ \A i \in 1 .. n : s[i] \in S
  BY LenProperties, ElementOfSeq
<1>2. /\ Prefix(s, n) \in Seq(S) /\ Len(Prefix(s, n)) = n
      /\ \A i \in 1 .. n : Prefix(s, n)[i] = s[i]
  <2>1. /\ SubSeq(s, 1, n) \in Seq(S)
        /\ Len(SubSeq(s, 1, n)) = IF 1 <= n THEN n - 1 + 1 ELSE 0
        /\ \A i \in 1 .. n - 1 + 1 : SubSeq(s, 1, n)[i] = s[1 + i - 1]
    BY <1>1, SubSeqProperties
  <2> QED
    BY <2>1, <1>1 DEF Prefix
<1>3. DOMAIN Prefix(s, n) = 1 .. n /\ 1 .. n \subseteq DOMAIN s
  BY <1>1, <1>2, LenProperties
<1> QED
  BY <1>2, <1>3 DEF Range

\* A close stands behind a frame that ends the session.
Sealed(s) ==
  \A i \in DOMAIN s : s[i].type = "close" => i > 1 /\ s[i - 1].type \in Last

\* What a handler sends at once: no close, or a last frame and the close.
Message(fs) ==
  \/ \A f \in Range(fs) : f.type # "close"
  \/ \E x, y \in DownFrame : fs = <<x, y>> /\ x.type \in Last

\* So a close is never the first frame, and taking off one that does not end the
\* session leaves the queue sealed.
LEMMA SealedHead ==
  ASSUME NEW S, NEW s \in Seq(S), s # <<>>, Sealed(s)
  PROVE  Head(s).type # "close" /\ (Head(s).type \notin Last => Sealed(Tail(s)))
<1>1. /\ Tail(s) \in Seq(S) /\ Len(Tail(s)) = Len(s) - 1
      /\ \A i \in 1 .. Len(Tail(s)) : Tail(s)[i] = s[i + 1]
      /\ Len(s) \in Nat /\ Len(s) > 0
  BY HeadTailProperties
<1>2. Head(s) = s[1] /\ DOMAIN s = 1 .. Len(s) /\ DOMAIN Tail(s) = 1 .. (Len(s) - 1)
  BY <1>1
<1>3. Head(s).type # "close"
  <2>1. 1 \in DOMAIN s /\ ~(1 > 1)
    BY <1>1, <1>2
  <2> QED
    BY <1>2, <2>1 DEF Sealed
<1>4. ASSUME Head(s).type \notin Last, NEW i \in DOMAIN Tail(s), Tail(s)[i].type = "close"
      PROVE  i > 1 /\ Tail(s)[i - 1].type \in Last
  <2>1. s[i + 1].type = "close" /\ i + 1 \in DOMAIN s
    BY <1>1, <1>2, <1>4
  <2>2. s[i].type \in Last
    <3>1. s[(i + 1) - 1].type \in Last
      BY <2>1 DEF Sealed
    <3>2. (i + 1) - 1 = i
      BY <1>1, <1>2
    <3> QED
      BY <3>1, <3>2
  <2>3. i # 1
    BY <2>2, <1>4, <1>2
  <2>4. i \in Nat /\ i >= 1 /\ i - 1 \in 1 .. Len(Tail(s)) /\ (i - 1) + 1 = i
    BY <2>3, <1>1, <1>2
  <2>5. Tail(s)[i - 1] = s[i]
    BY <2>4, <1>1
  <2> QED
    BY <2>2, <2>4, <2>5
<1> QED
  BY <1>3, <1>4 DEF Sealed

\* A cut leaves it sealed: it loses what came last.
LEMMA SealedPrefix ==
  ASSUME NEW S, NEW s \in Seq(S), NEW n \in 0 .. Len(s), Sealed(s)
  PROVE  Sealed(Prefix(s, n))
<1>1. /\ Len(Prefix(s, n)) = n /\ Prefix(s, n) \in Seq(S)
      /\ \A i \in 1 .. n : Prefix(s, n)[i] = s[i]
  BY RangePrefix
<1>2. DOMAIN Prefix(s, n) = 1 .. n /\ n \in Nat /\ 1 .. n \subseteq DOMAIN s
  BY <1>1, LenProperties
<1> QED
  BY <1>1, <1>2 DEF Sealed

\* A message leaves it sealed.
LEMMA SealedConcat ==
  ASSUME NEW s \in Seq(DownFrame), NEW fs \in Seq(DownFrame), Sealed(s), Message(fs)
  PROVE  Sealed(s \o fs)
<1>1. /\ s \o fs \in Seq(DownFrame) /\ Len(s \o fs) = Len(s) + Len(fs)
      /\ \A i \in 1 .. Len(s) + Len(fs) :
           (s \o fs)[i] = IF i <= Len(s) THEN s[i] ELSE fs[i - Len(s)]
  BY ConcatProperties
<1>2. /\ Len(s) \in Nat /\ Len(fs) \in Nat /\ DOMAIN s = 1 .. Len(s) /\ DOMAIN fs = 1 .. Len(fs)
      /\ DOMAIN (s \o fs) = 1 .. Len(s) + Len(fs)
  BY <1>1, LenProperties
<1> SUFFICES ASSUME NEW i \in DOMAIN (s \o fs), (s \o fs)[i].type = "close"
             PROVE  i > 1 /\ (s \o fs)[i - 1].type \in Last
  BY DEF Sealed
<1>3. CASE i <= Len(s)
  <2>1. i \in DOMAIN s /\ s[i].type = "close"
    BY <1>1, <1>2, <1>3
  <2>2. i > 1 /\ s[i - 1].type \in Last
    BY <2>1 DEF Sealed
  <2>3. (s \o fs)[i - 1] = s[i - 1]
    BY <1>1, <1>2, <1>3, <2>2
  <2> QED
    BY <2>2, <2>3
<1>4. CASE ~(i <= Len(s))
  <2>1. i - Len(s) \in DOMAIN fs /\ fs[i - Len(s)].type = "close"
    BY <1>1, <1>2, <1>4
  <2>2. fs[i - Len(s)] \in Range(fs)
    BY <2>1 DEF Range
  <2>3. PICK x, y \in DownFrame : fs = <<x, y>> /\ x.type \in Last
    BY <2>1, <2>2 DEF Message
  <2>4. i - Len(s) = 2
    <3>1. i - Len(s) \in 1 .. 2 /\ fs[1].type # "close"
      BY <2>1, <2>3 DEF Last
    <3> QED
      BY <2>1, <3>1
  <2>5. i > 1 /\ i - 1 \in 1 .. Len(s) + Len(fs) /\ ~(i - 1 <= Len(s)) /\ (i - 1) - Len(s) = 1
    BY <2>4, <1>2
  <2>6. (s \o fs)[i - 1] = fs[1]
    <3>1. (s \o fs)[i - 1] = fs[(i - 1) - Len(s)]
      BY <2>5, <1>1
    <3> QED
      BY <3>1, <2>5
  <2> QED
    BY <2>3, <2>5, <2>6
<1> QED
  BY <1>3, <1>4

-----------------------------------------------------------------------------
(* One connection *)

\* Each end of a connection that is gone has nothing more to read.
Ends(w) ==
  /\ ~w.client => w.down = <<>>
  /\ ~w.server => w.up = <<>> /\ w.boot = NULL
  /\ ~(w.client \/ w.server) => w = Free

\* v is w after the object took frames off it or attached a boot.
Base(w, v) ==
  /\ v \in Connection /\ v.server /\ w.server
  /\ v.client = w.client /\ v.cut = w.cut /\ v.down = w.down
  /\ Range(v.up) \subseteq Range(w.up)

\* v is w after a handler that sent fs: it may have closed, it read something or
\* nothing, and fs is behind what was there before if the connection still delivers.
Served(w, v, fs) ==
  /\ v \in Connection /\ Ends(v)
  /\ v.client = w.client /\ (v.client => v.cut = w.cut)
  /\ v.server => w.server
  /\ Range(v.up) \subseteq Range(w.up)
  /\ (v.down = w.down \/ (w.client /\ ~w.cut /\ v.down = w.down \o fs))

\* No connection is a connection.
LEMMA FreeConnection == Free \in Connection /\ Ends(Free)
<1>1. <<>> \in Seq(UpFrame) /\ <<>> \in Seq(DownFrame)
  OBVIOUS
<1> QED
  BY <1>1 DEF Free, Connection, Ends

\* Sending touches the way down and nothing else.
LEMMA DownSends ==
  ASSUME NEW w \in Connection, NEW fs \in Seq(DownFrame)
  PROVE  /\ Down(w, fs) \in Connection
         /\ \A f \in {"client", "server", "cut", "up", "boot"} : Down(w, fs)[f] = w[f]
         /\ Down(w, fs).down = IF w.client /\ ~w.cut THEN w.down \o fs ELSE w.down
<1>1. w.down \in Seq(DownFrame) /\ w.down \o fs \in Seq(DownFrame)
  BY ConcatProperties DEF Connection
<1> QED
  BY <1>1 DEF Down, Connection

\* Say serves a connection and keeps it.
LEMMA SayServed ==
  ASSUME NEW w \in Connection, NEW v \in Connection, Base(w, v), Ends(w),
         NEW fs \in Seq(DownFrame)
  PROVE  /\ Served(w, Say(v, fs), fs)
         /\ Say(v, fs).server /\ Say(v, fs).boot = v.boot /\ Say(v, fs).up = v.up
         /\ w.client /\ ~w.cut => Say(v, fs).down = w.down \o fs
<1> DEFINE u == Down(v, fs)
<1>1. /\ u \in Connection
      /\ u.client = v.client /\ u.server = v.server /\ u.cut = v.cut /\ u.up = v.up
      /\ u.boot = v.boot
      /\ u.down = IF v.client /\ ~v.cut THEN v.down \o fs ELSE v.down
  BY DownSends
<1>2. Ends(u)
  BY <1>1 DEF Ends, Base
<1> QED
  BY <1>1, <1>2 DEF Served, Say, Base

\* Shut serves it and closes the end of the object.
LEMMA ShutServed ==
  ASSUME NEW w \in Connection, NEW v \in Connection, Base(w, v), Ends(w),
         NEW fs \in Seq(DownFrame)
  PROVE  /\ Served(w, Shut(v, fs), fs)
         /\ ~Shut(v, fs).server /\ Shut(v, fs).boot = NULL /\ Shut(v, fs).up = <<>>
         /\ w.client /\ ~w.cut => Shut(v, fs).down = w.down \o fs
<1> DEFINE u == Down(v, fs)
           t == [u EXCEPT !.server = FALSE, !.up = <<>>, !.boot = NULL]
<1>1. /\ u \in Connection
      /\ u.client = v.client /\ u.server = v.server /\ u.cut = v.cut /\ u.up = v.up
      /\ u.boot = v.boot
      /\ u.down = IF v.client /\ ~v.cut THEN v.down \o fs ELSE v.down
  BY DownSends
<1>2. /\ t \in Connection
      /\ t.client = v.client /\ ~t.server /\ t.cut = v.cut /\ t.up = <<>> /\ t.boot = NULL
      /\ t.down = u.down
  <2>1. <<>> \in Seq(UpFrame)
    OBVIOUS
  <2> HIDE DEF u
  <2> QED
    BY <1>1, <2>1 DEF Connection
<1>3. Shut(v, fs) = IF v.client THEN t ELSE Free
  BY <1>2 DEF Shut, ServerLeaves, Tidy
<1> HIDE DEF t, u
<1>4. CASE v.client
  <2>1. Ends(t)
    BY <1>2, <1>4 DEF Ends
  <2> QED
    BY <1>1, <1>2, <1>3, <1>4, <2>1, RangeEmpty DEF Served, Base
<1>5. CASE ~v.client
  <2>1. w.down = <<>> /\ w.client = FALSE
    BY <1>5 DEF Base, Ends, Connection
  <2>2. /\ Free.client = FALSE /\ Free.server = FALSE /\ Free.cut = FALSE /\ Free.up = <<>>
        /\ Free.down = <<>> /\ Free.boot = NULL
    BY DEF Free
  <2>3. Shut(v, fs) = Free
    BY <1>3, <1>5
  <2> QED
    BY <2>1, <2>2, <2>3, FreeConnection, RangeEmpty DEF Served
<1> QED
  BY <1>4, <1>5

\* Taking the first frame off and attaching a boot are such steps.
LEMMA Bases ==
  ASSUME NEW w \in Connection, w.server, Ends(w)
  PROVE  /\ Base(w, w)
         /\ Served(w, w, <<>>)
         /\ w.up # <<>> =>
              LET r == [w EXCEPT !.up = Tail(@)]
              IN  /\ Head(w.up) \in Range(w.up) /\ Head(w.up) \in UpFrame
                  /\ Base(w, r) /\ Served(w, r, <<>>)
                  /\ r.boot = w.boot /\ r.server /\ r.up = Tail(w.up) /\ r \in Connection
                  /\ \A b \in Boots \cup {NULL} :
                       LET q == [r EXCEPT !.boot = b]
                       IN  /\ Base(w, q) /\ Served(w, q, <<>>)
                           /\ q.boot = b /\ q.server /\ q.up = Tail(w.up) /\ q \in Connection
<1>1. Base(w, w) /\ Served(w, w, <<>>)
  BY DEF Base, Served
<1>2. ASSUME w.up # <<>>, NEW b \in Boots \cup {NULL}
      PROVE  LET r == [w EXCEPT !.up = Tail(@)]
                 q == [r EXCEPT !.boot = b]
             IN  /\ Head(w.up) \in Range(w.up) /\ Head(w.up) \in UpFrame
                 /\ Base(w, r) /\ Served(w, r, <<>>)
                 /\ r.boot = w.boot /\ r.server /\ r.up = Tail(w.up) /\ r \in Connection
                 /\ Base(w, q) /\ Served(w, q, <<>>)
                 /\ q.boot = b /\ q.server /\ q.up = Tail(w.up) /\ q \in Connection
  <2> DEFINE r == [w EXCEPT !.up = Tail(@)]
             q == [r EXCEPT !.boot = b]
  <2>1. w.up \in Seq(UpFrame)
    BY DEF Connection
  <2>2. /\ Head(w.up) \in Range(w.up) /\ Head(w.up) \in UpFrame
        /\ Tail(w.up) \in Seq(UpFrame) /\ Range(Tail(w.up)) \subseteq Range(w.up)
    BY <1>2, <2>1, RangeHead
  <2>3. /\ r \in Connection /\ r.client = w.client /\ r.server /\ r.cut = w.cut
        /\ r.up = Tail(w.up) /\ r.down = w.down /\ r.boot = w.boot
    BY <2>2 DEF Connection
  <2>4. /\ q \in Connection /\ q.client = w.client /\ q.server /\ q.cut = w.cut
        /\ q.up = Tail(w.up) /\ q.down = w.down /\ q.boot = b
    BY <2>2 DEF Connection
  <2> HIDE DEF r, q
  <2>5. Base(w, r) /\ Base(w, q)
    BY <2>2, <2>3, <2>4 DEF Base
  <2>6. Ends(r) /\ Ends(q)
    BY <2>3, <2>4 DEF Ends
  <2>7. Served(w, r, <<>>) /\ Served(w, q, <<>>)
    BY <2>2, <2>3, <2>4, <2>6 DEF Served
  <2> QED
    BY <2>2, <2>3, <2>4, <2>5, <2>7 DEF r, q
<1>3. NULL \in Boots \cup {NULL}
  OBVIOUS
<1> QED
  BY <1>1, <1>2, <1>3

-----------------------------------------------------------------------------
(* What the two sides know of each other *)

\* The connections are well formed, and the client holds an end of one at most.
WireOK ==
  /\ wire \in [Conns -> Connection]
  /\ \A c \in Conns : (wire[c].client <=> client.conn = c) /\ Ends(wire[c])

\* The client reads while it has a connection, and keeps only a payload it can use.
ClientOK ==
  /\ client \in ClientState
  /\ client.conn # NULL <=> client.pc = "read"
  /\ client.approved \in {NULL, "good"}
  /\ client.approved = "good" => client.bootID # NULL

\* The rows are of their type.
BootsOK == boots \in [Boots -> BootRow]

\* So are the counters and the token.
CountsOK == breaks \in 0 .. MaxBreaks /\ tokenLive \in BOOLEAN /\ faults \in 0 .. MaxFaults

\* Everything on connection w is about boot b.
About(w, b) ==
  /\ w.boot \in {NULL, b}
  /\ \A f \in Range(w.up) : f.boot = b
  /\ \A f \in Range(w.down) : f.boot \in {NULL, b}

\* No pending frame is on its way.
NoPending(s) == \A f \in Range(s) : f.type # "pending"

\* The greeting of a client that knows no boot.
Hello0 == Frame("hello", NULL, NULL)

\* A connection whose client knows no boot yet: the hello is on its way, or was
\* read without an answer, or answered by a pending frame with what concerns that boot
\* behind it, or refused.
Greeting(w) ==
  \/ w.up = <<Hello0>> /\ w.down = <<>> /\ w.boot = NULL
  \/ w.up = <<>> /\ w.down = <<>> /\ (w.boot = NULL \/ w.cut)
  \/ /\ w.up = <<>> /\ w.down # <<>>
     /\ Head(w.down).type = "pending" /\ NoPending(Tail(w.down)) /\ About(w, Head(w.down).boot)
  \/ /\ w.up = <<>> /\ w.down # <<>>
     /\ Head(w.down).type = "error" /\ ~w.server

\* The connection of the client is about one boot, its own if it knows it.
OneBoot ==
  client.pc = "read" =>
    LET w == wire[client.conn]
    IN  IF client.bootID = NULL THEN Greeting(w)
        ELSE About(w, client.bootID) /\ NoPending(w.down)

\* What a frame says of a boot is so.
Told(f, rows) ==
  /\ f.type = "declined" => rows[f.boot].status = "DECLINED"
  /\ f.type = "expired"  => rows[f.boot].status = "EXPIRED"
  /\ f.type = "canceled" => rows[f.boot].status = "CANCELED"
  /\ f.type = "consumed" => rows[f.boot].status = "CONSUMED"
  /\ f.type = "approved" => rows[f.boot].payload = f.arg

\* A client that is told TERMINAL knows a boot, which has ended and not by decline.
Over(f, rows) ==
  f.type = "error" /\ f.arg = "TERMINAL" =>
    /\ client.bootID # NULL
    /\ rows[client.bootID].status \in {"EXPIRED", "CANCELED", "CONSUMED"}

\* Every frame on its way down is true when it is read.
FramesTrue ==
  \A c \in Conns : \A f \in Range(wire[c].down) : Told(f, boots) /\ Over(f, boots)

\* No close comes without a last frame before it.
ClosesLast == \A c \in Conns : Sealed(wire[c].down)

\* An acknowledgement on its way is of the payload the client opened.
ReceivedTrue ==
  \A c \in Conns : \A f \in Range(wire[c].up) :
    f.type = "received" => client.approved = "good" /\ client.bootID = f.boot

\* A boot is consumed by acknowledgement of its client only, which opened the payload
\* that is approved for it, and starts nothing before.
Acknowledged ==
  /\ \A b \in Boots : boots[b].status = "CONSUMED" => client.approved = "good" /\ client.bootID = b
  /\ client.approved = "good" => boots[client.bootID].payload = "good"
  /\ client.pc \in {"launch", "started"} =>
       client.bootID # NULL /\ boots[client.bootID].status = "CONSUMED"

\* A boot gets its payload when it is approved.
PayloadOnApproval ==
  \A b \in Boots : boots[b].status \in {NoStatus, "PENDING", "DECLINED"} => boots[b].payload = NULL

\* What holds whatever is cut and whatever fails.
Talk ==
  /\ WireOK /\ ClientOK /\ BootsOK /\ CountsOK
  /\ OneBoot /\ FramesTrue /\ ClosesLast /\ ReceivedTrue /\ Acknowledged /\ PayloadOnApproval

-----------------------------------------------------------------------------
(* What a handler of the object may change *)

\* A row moves forward: an end stays, a payload stays.
Forward(old, new) ==
  /\ old.status \in Terminal => new.status = old.status
  /\ old.payload # NULL => new.payload = old.payload

\* Connection d was served with fs, which are true of the boots as they are now.
Sent(d, fs) ==
  /\ Served(wire[d], wire'[d], fs)
  /\ Message(fs)
  /\ \A f \in Range(fs) : Told(f, boots') /\ (wire[d].client => Over(f, boots'))

\* They are about b, the boot of that connection or of a frame on its way up.
Reply(d, b, fs) ==
  /\ Sent(d, fs)
  /\ wire[d].boot = b \/ \E f \in Range(wire[d].up) : f.boot = b
  /\ wire'[d].boot \in {NULL, wire[d].boot, b}
  /\ \A f \in Range(fs) : f.boot \in {NULL, b} /\ f.type # "pending"

\* The rows move forward, and only the client consumes.
BootsMove ==
  /\ boots' \in [Boots -> BootRow]
  /\ \A b \in Boots :
       /\ Forward(boots[b], boots'[b])
       /\ boots[b].status # "CONSUMED" /\ boots'[b].status = "CONSUMED" =>
            client.approved = "good" /\ client.bootID = b
       /\ boots'[b].status \in {NoStatus, "PENDING", "DECLINED"} => boots'[b].payload = NULL

\* What every handler but Hello does.
ServerStep ==
  /\ BootsMove
  /\ wire' \in [Conns -> Connection]
  /\ \A d \in Conns :
       wire'[d] = wire[d] \/ \E b \in Boots, fs \in Seq(DownFrame) : Reply(d, b, fs)
  /\ tokenLive' \in BOOLEAN /\ faults' \in 0 .. MaxFaults

-----------------------------------------------------------------------------
(* The handlers of the object *)

\* A frame of a connected client that names a boot names the boot it knows.
LEMMA AskedOfClient ==
  ASSUME Talk, NEW c \in Conns, wire[c].client, NEW f \in Range(wire[c].up), f.boot # NULL
  PROVE  client.conn = c /\ client.pc = "read" /\ client.bootID = f.boot
<1>1. client.conn = c /\ client.pc = "read"
  BY WireAssumption DEF Talk, WireOK, ClientOK
<1>2. Range(wire[c].up) # {}
  OBVIOUS
<1>3. wire[c].up # <<>>
  BY <1>2, RangeEmpty
<1>4. ASSUME Greeting(wire[c]) PROVE FALSE
  <2>1. wire[c].up = <<Hello0>>
    BY <1>3, <1>4 DEF Greeting
  <2> QED
    BY <2>1, RangeOne DEF Hello0, Frame
<1>5. client.bootID # NULL /\ About(wire[c], client.bootID)
  BY <1>1, <1>4 DEF Talk, OneBoot
<1> QED
  BY <1>1, <1>5 DEF About

\* Failures stay within their bound.
LEMMA WorksOrFails ==
  ASSUME Talk, Works \/ Fails
  PROVE  faults' \in 0 .. MaxFaults
BY ServiceAssumption DEF Talk, CountsOK, Works, Fails

\* One frame is a message unless it is a close.
LEMMA OneFrame ==
  ASSUME NEW f \in DownFrame, f.type # "close"
  PROVE  <<f>> \in Seq(DownFrame) /\ Message(<<f>>) /\ Range(<<f>>) = {f}
<1>1. <<f>> \in Seq(DownFrame) /\ Range(<<f>>) = {f}
  BY RangeOne
<1> QED
  BY <1>1 DEF Message

\* Nothing is one.
LEMMA NoFrame == <<>> \in Seq(DownFrame) /\ Message(<<>>) /\ Range(<<>>) = {}
<1>1. Range(<<>>) = {}
  BY RangeEmpty
<1> QED
  BY <1>1 DEF Message

\* A last frame and a close are one.
LEMMA TwoFrames ==
  ASSUME NEW f \in DownFrame, NEW g \in DownFrame,
         f.type \in Last \/ (f.type # "close" /\ g.type # "close")
  PROVE  <<f, g>> \in Seq(DownFrame) /\ Message(<<f, g>>) /\ Range(<<f, g>>) = {f, g}
<1>1. <<f, g>> \in Seq(DownFrame) /\ Range(<<f, g>>) = {f, g}
  BY RangeTwo
<1> QED
  BY <1>1 DEF Message

\* The frames of the handlers are of their types.
LEMMA FrameTypes ==
  /\ \A b \in Boots : Frame("pending", b, NULL) \in DownFrame /\ Frame("declined", b, NULL) \in DownFrame
       /\ Frame("expired", b, NULL) \in DownFrame /\ Frame("canceled", b, NULL) \in DownFrame
       /\ Frame("consumed", b, NULL) \in DownFrame
  /\ \A b \in Boots, c \in Conns : Frame("challenge", b, c) \in DownFrame
  /\ \A b \in Boots, status \in Live \cup {NoStatus} : Frame("resumed", b, status) \in DownFrame
  /\ \A b \in Boots, payload \in Kinds : Frame("approved", b, payload) \in DownFrame
  /\ \A code \in Codes : Frame("error", NULL, code) \in DownFrame /\ Frame("close", NULL, code) \in DownFrame
BY DEF Frame, DownFrame

\* sendError is a message.
LEMMA RefusingFrames ==
  ASSUME NEW code \in Codes
  PROVE  LET fs == Refusing(code)
         IN  /\ fs \in Seq(DownFrame) /\ Message(fs)
             /\ Range(fs) = {Frame("error", NULL, code), Frame("close", NULL, code)}
<1>1. Frame("error", NULL, code) \in DownFrame /\ Frame("close", NULL, code) \in DownFrame
  BY FrameTypes
<1>2. Frame("error", NULL, code).type \in Last
  BY DEF Frame, Last
<1> QED
  BY <1>1, <1>2, TwoFrames DEF Refusing

\* sendTerminal is one: it says the status, and says error only for a consumed boot.
LEMMA TerminalFramesTold ==
  ASSUME NEW b \in Boots, NEW status \in Terminal
  PROVE  LET fs == TerminalFrames(b, status)
         IN  /\ fs \in Seq(DownFrame) /\ Message(fs)
             /\ \A f \in Range(fs) :
                  /\ f.boot \in {NULL, b} /\ f.type # "pending"
                  /\ \A rows : rows[b].status = status => Told(f, rows)
                  /\ f.type = "error" => status = "CONSUMED"
             /\ \E f \in Range(fs) : f.type \in Last
<1> DEFINE first == CASE status = "DECLINED" -> Frame("declined", b, NULL)
                      [] status = "EXPIRED"  -> Frame("expired", b, NULL)
                      [] status = "CANCELED" -> Frame("canceled", b, NULL)
                      [] OTHER               -> Frame("error", NULL, "TERMINAL")
           close == Frame("close", NULL, "TERMINAL")
<1>1. \/ status = "DECLINED" /\ first = Frame("declined", b, NULL)
      \/ status = "EXPIRED" /\ first = Frame("expired", b, NULL)
      \/ status = "CANCELED" /\ first = Frame("canceled", b, NULL)
      \/ status = "CONSUMED" /\ first = Frame("error", NULL, "TERMINAL")
  BY DEF Terminal
<1>2. TerminalFrames(b, status) = <<first, close>>
  BY DEF TerminalFrames
<1> HIDE DEF first, close
<1>3. first \in DownFrame /\ close \in DownFrame
  BY <1>1, FrameTypes DEF close, Codes
<1>4. first.type \in Last
  BY <1>1 DEF Frame, Last
<1>5. /\ <<first, close>> \in Seq(DownFrame) /\ Message(<<first, close>>)
      /\ Range(<<first, close>>) = {first, close}
  BY <1>3, <1>4, TwoFrames
<1>6. ASSUME NEW f \in {first, close}
      PROVE  /\ f.boot \in {NULL, b} /\ f.type # "pending"
             /\ \A rows : rows[b].status = status => Told(f, rows)
             /\ f.type = "error" => status = "CONSUMED"
  <2>1. CASE f = first
    BY <2>1, <1>1 DEF Frame, Told
  <2>2. CASE f = close
    BY <2>2 DEF Frame, Told, close
  <2> QED
    BY <2>1, <2>2
<1> QED
  BY <1>2, <1>4, <1>5, <1>6

\* Rows that rest move forward.
LEMMA BootsRest == ASSUME Talk, UNCHANGED boots PROVE BootsMove
BY DEF Talk, BootsOK, BootsMove, Forward, PayloadOnApproval

\* A refusal is an error frame, and closes.
LEMMA RefusalSent ==
  ASSUME NEW c \in Conns, wire[c] \in Connection, Ends(wire[c]),
         NEW v \in Connection, Base(wire[c], v), NEW code \in Codes,
         code = "TERMINAL" /\ wire[c].client =>
           /\ client.bootID # NULL
           /\ boots'[client.bootID].status \in {"EXPIRED", "CANCELED", "CONSUMED"},
         wire'[c] = Shut(v, Refusing(code))
  PROVE  LET fs == Refusing(code)
         IN  /\ fs \in Seq(DownFrame) /\ Sent(c, fs)
             /\ ~wire'[c].server /\ wire'[c].boot = NULL
             /\ fs # <<>> /\ Head(fs).type = "error"
             /\ \A f \in Range(fs) : f.boot = NULL /\ f.type # "pending"
<1> DEFINE fs == Refusing(code)
<1>1. /\ fs \in Seq(DownFrame) /\ Message(fs)
      /\ Range(fs) = {Frame("error", NULL, code), Frame("close", NULL, code)}
  BY RefusingFrames
<1>2. fs # <<>> /\ Head(fs).type = "error"
  BY DEF Refusing, Frame
<1>3. \A f \in Range(fs) : /\ Told(f, boots') /\ f.boot = NULL /\ f.type # "pending"
                           /\ wire[c].client => Over(f, boots')
  BY <1>1 DEF Frame, Told, Over
<1> HIDE DEF fs
<1>4. Served(wire[c], wire'[c], fs) /\ ~wire'[c].server /\ wire'[c].boot = NULL
  BY <1>1, ShutServed DEF fs
<1> QED
  BY <1>1, <1>2, <1>3, <1>4 DEF Sent, fs

\* Hello refuses, or drops the frame, or makes a boot and says that it is pending.
LEMMA HelloStep ==
  ASSUME Talk, NEW c \in Conns, Hello(c)
  PROVE  /\ BootsMove
         /\ wire' \in [Conns -> Connection] /\ \A d \in Conns \ {c} : wire'[d] = wire[d]
         /\ Hello0 \in Range(wire[c].up)
         /\ wire[c].up = <<Hello0>> => wire'[c].up = <<>>
         /\ \/ \E fs \in Seq(DownFrame) :
                 /\ Sent(c, fs)
                 /\ ~wire'[c].server /\ wire'[c].boot = NULL
                 /\ fs # <<>> /\ Head(fs).type = "error"
            \/ Sent(c, <<>>) /\ wire'[c].boot = wire[c].boot /\ wire'[c].server
            \/ \E b \in Boots : LET fs == <<Frame("pending", b, NULL)>> IN
                 /\ fs \in Seq(DownFrame)
                 /\ Sent(c, fs)
                 /\ wire'[c].boot = b /\ wire'[c].server
                 /\ wire[c].client /\ ~wire[c].cut => wire'[c].down = wire[c].down \o fs
         /\ tokenLive' \in BOOLEAN /\ faults' \in 0 .. MaxFaults
<1> DEFINE w == wire[c]
           r == Rest(c)
           Pushed(b) == <<Frame("pending", b, NULL)>>
<1>1. w \in Connection /\ Ends(w) /\ w.server /\ w.up # <<>> /\ Head(w.up).type = "hello"
      /\ wire \in [Conns -> Connection]
  BY DEF Hello, Received, Talk, WireOK
<1>2. /\ Base(w, r) /\ Served(w, r, <<>>) /\ r \in Connection
      /\ r.boot = w.boot /\ r.server /\ r.up = Tail(w.up)
      /\ Head(w.up) \in Range(w.up) /\ Head(w.up) \in UpFrame
      /\ \A b \in Boots :
           LET q == [r EXCEPT !.boot = b]
           IN  Base(w, q) /\ q.boot = b /\ q.server /\ q.up = Tail(w.up) /\ q \in Connection
  BY <1>1, Bases DEF Rest
<1> HIDE DEF r
<1>3. Hello0 \in Range(w.up)
  <2>1. Head(w.up) = Hello0
    BY <1>1, <1>2 DEF UpFrame, Hello0, Frame
  <2> QED
    BY <1>2, <2>1
<1>4. w.up = <<Hello0>> => Tail(w.up) = <<>>
  OBVIOUS
<1>5. tokenLive' \in BOOLEAN
  BY DEF Hello, Talk, CountsOK
<1> DEFINE Result ==
      /\ BootsMove
      /\ wire' \in [Conns -> Connection] /\ \A d \in Conns \ {c} : wire'[d] = wire[d]
      /\ w.up = <<Hello0>> => wire'[c].up = <<>>
      /\ \/ \E fs \in Seq(DownFrame) :
              /\ Sent(c, fs)
              /\ ~wire'[c].server /\ wire'[c].boot = NULL
              /\ fs # <<>> /\ Head(fs).type = "error"
         \/ Sent(c, <<>>) /\ wire'[c].boot = wire[c].boot /\ wire'[c].server
         \/ \E b \in Boots :
              /\ Pushed(b) \in Seq(DownFrame)
              /\ Sent(c, Pushed(b))
              /\ wire'[c].boot = b /\ wire'[c].server
              /\ wire[c].client /\ ~wire[c].cut => wire'[c].down = wire[c].down \o Pushed(b)
      /\ faults' \in 0 .. MaxFaults
<1>6. ASSUME NEW code \in {"RATE_LIMITED", "CONFLICT"},
             On(c, Shut(r, Refusing(code))), Works \/ Fails, UNCHANGED boots
      PROVE  Result
  <2>1. code \in Codes /\ code # "TERMINAL" /\ Refusing(code) \in Seq(DownFrame)
    BY RefusingFrames DEF Codes
  <2>2. Shut(r, Refusing(code)) \in Connection /\ Shut(r, Refusing(code)).up = <<>>
    BY <1>1, <1>2, <2>1, ShutServed DEF Served
  <2>3. wire' = [wire EXCEPT ![c] = Shut(r, Refusing(code))]
    BY <1>6 DEF On
  <2>4. /\ wire' \in [Conns -> Connection] /\ \A d \in Conns \ {c} : wire'[d] = wire[d]
        /\ wire'[c] = Shut(r, Refusing(code))
    BY <1>1, <2>2, <2>3
  <2>5. /\ Sent(c, Refusing(code)) /\ ~wire'[c].server /\ wire'[c].boot = NULL
        /\ Refusing(code) # <<>> /\ Head(Refusing(code)).type = "error"
    BY <1>1, <1>2, <2>1, <2>4, RefusalSent
  <2> QED
    BY <1>6, <2>1, <2>2, <2>4, <2>5, BootsRest, WorksOrFails
<1>7. ASSUME On(c, r), Fails, BootsMove
      PROVE  Result
  <2>1. wire' = [wire EXCEPT ![c] = r]
    BY <1>7 DEF On
  <2>2. /\ wire' \in [Conns -> Connection] /\ \A d \in Conns \ {c} : wire'[d] = wire[d]
        /\ wire'[c] = r
    BY <1>1, <1>2, <2>1
  <2>3. Sent(c, <<>>)
    BY <1>2, <2>2, NoFrame DEF Sent
  <2> QED
    BY <1>2, <1>4, <1>7, <2>2, <2>3, WorksOrFails
<1>8. ASSUME NEW b \in Boots, NEW indexed \in BOOLEAN, Unused(b),
             boots' = [boots EXCEPT ![b].status = "PENDING", ![b].indexed = indexed]
      PROVE  BootsMove
  <2>1. boots' = [boots EXCEPT ![b] = [@ EXCEPT !.status = "PENDING", !.indexed = indexed]]
        /\ boots \in [Boots -> BootRow] /\ boots[b] = NoBoot
    BY <1>8 DEF Talk, BootsOK, Unused
  <2>2. boots[b] \in BootRow /\ boots[b].status = NoStatus /\ boots[b].payload = NULL
    <3>1. NoBoot.status = NoStatus /\ NoBoot.payload = NULL
      BY DEF NoBoot
    <3> QED
      BY <2>1, <3>1
  <2>3. /\ boots'[b] \in BootRow /\ boots'[b].status = "PENDING" /\ boots'[b].payload = NULL
        /\ \A d \in Boots \ {b} : boots'[d] = boots[d]
    BY <2>1, <2>2 DEF BootRow, Status, Live
  <2>4. boots' \in [Boots -> BootRow]
    BY <2>1, <2>3
  <2>5. Forward(boots[b], boots'[b]) /\ boots'[b].status # "CONSUMED" /\ boots'[b].payload = NULL
    BY <2>2, <2>3 DEF Forward, NoStatus, Terminal
  <2>6. \A d \in Boots \ {b} : Forward(boots[d], boots'[d])
    BY <2>3 DEF Forward
  <2> QED
    BY <2>3, <2>4, <2>5, <2>6 DEF BootsMove, Talk, PayloadOnApproval
<1>9. ASSUME NEW b \in Boots, BootsMove, On(c, Say([r EXCEPT !.boot = b], Pushed(b))), Works
      PROVE  Result
  <2> DEFINE q == [r EXCEPT !.boot = b]
  <2>1. Base(w, q) /\ q.boot = b /\ q.server /\ q.up = Tail(w.up) /\ q \in Connection
    BY <1>2
  <2>2. Frame("pending", b, NULL) \in DownFrame /\ Frame("pending", b, NULL).type = "pending"
    BY FrameTypes DEF Frame
  <2>3. /\ Pushed(b) \in Seq(DownFrame) /\ Message(Pushed(b))
        /\ Range(Pushed(b)) = {Frame("pending", b, NULL)}
    BY <2>2, OneFrame
  <2>4. \A f \in Range(Pushed(b)) : Told(f, boots') /\ Over(f, boots')
    BY <2>2, <2>3 DEF Told, Over
  <2>5. wire' = [wire EXCEPT ![c] = Say(q, Pushed(b))]
    BY <1>9 DEF On
  <2> HIDE DEF q, Pushed
  <2>6. /\ Served(w, Say(q, Pushed(b)), Pushed(b))
        /\ Say(q, Pushed(b)).server /\ Say(q, Pushed(b)).boot = b /\ Say(q, Pushed(b)).up = q.up
        /\ w.client /\ ~w.cut => Say(q, Pushed(b)).down = w.down \o Pushed(b)
    BY <1>1, <2>1, <2>3, SayServed
  <2>7. Say(q, Pushed(b)) \in Connection
    BY <2>6 DEF Served
  <2>8. /\ wire' \in [Conns -> Connection] /\ \A d \in Conns \ {c} : wire'[d] = wire[d]
        /\ wire'[c] = Say(q, Pushed(b))
    BY <1>1, <2>5, <2>7
  <2>9. Sent(c, Pushed(b))
    BY <2>3, <2>4, <2>6, <2>8 DEF Sent
  <2> QED
    BY <1>4, <1>9, <2>1, <2>3, <2>6, <2>8, <2>9, WorksOrFails
<1>10. Result
  <2>1. \/ On(c, Shut(r, Refusing("RATE_LIMITED"))) /\ Fails /\ UNCHANGED boots
        \/ On(c, Shut(r, Refusing("CONFLICT"))) /\ Works /\ UNCHANGED boots
        \/ On(c, r) /\ Fails /\ UNCHANGED boots
        \/ \E b \in Boots, indexed, told \in BOOLEAN :
             /\ Unused(b)
             /\ boots' = [boots EXCEPT ![b].status = "PENDING", ![b].indexed = indexed]
             /\ IF told
                  THEN Works /\ On(c, Say([r EXCEPT !.boot = b], Pushed(b)))
                  ELSE Fails /\ On(c, r)
    <3>1. \/ On(c, Shut(Rest(c), Refusing("RATE_LIMITED"))) /\ Fails /\ UNCHANGED boots
          \/ On(c, Shut(Rest(c), Refusing("CONFLICT"))) /\ Works /\ UNCHANGED boots
          \/ On(c, Rest(c)) /\ Fails /\ UNCHANGED boots
          \/ \E b \in Boots, indexed, told \in BOOLEAN :
               /\ Unused(b)
               /\ boots' = [boots EXCEPT ![b].status = "PENDING", ![b].indexed = indexed]
               /\ IF told
                    THEN Works /\ On(c, Say([Rest(c) EXCEPT !.boot = b], <<Frame("pending", b, NULL)>>))
                    ELSE Fails /\ On(c, Rest(c))
      BY DEF Hello
    <3> QED
      BY <3>1 DEF r
  <2> HIDE DEF Result, Pushed
  <2>2. CASE On(c, Shut(r, Refusing("RATE_LIMITED"))) /\ Fails /\ UNCHANGED boots
    BY <1>6, <2>2
  <2>3. CASE On(c, Shut(r, Refusing("CONFLICT"))) /\ Works /\ UNCHANGED boots
    BY <1>6, <2>3
  <2>4. CASE On(c, r) /\ Fails /\ UNCHANGED boots
    BY <1>7, <2>4, BootsRest
  <2>5. ASSUME NEW b \in Boots, NEW indexed \in BOOLEAN, NEW told \in BOOLEAN,
               /\ Unused(b)
               /\ boots' = [boots EXCEPT ![b].status = "PENDING", ![b].indexed = indexed]
               /\ IF told
                    THEN Works /\ On(c, Say([r EXCEPT !.boot = b], Pushed(b)))
                    ELSE Fails /\ On(c, r)
        PROVE  Result
    <3>1. BootsMove
      BY <1>8, <2>5
    <3> QED
      BY <1>7, <1>9, <2>5, <3>1
  <2> QED
    BY <2>1, <2>2, <2>3, <2>4, <2>5
<1> HIDE DEF Pushed
<1>11. \A b \in Boots : Pushed(b) = <<Frame("pending", b, NULL)>>
  BY DEF Pushed
<1> QED
  BY <1>3, <1>5, <1>10, <1>11

\* A row may change alone.
LEMMA RowMove ==
  ASSUME Talk, NEW b \in Boots, NEW row \in BootRow,
         boots' = [boots EXCEPT ![b] = row],
         Forward(boots[b], row),
         row.status \in {NoStatus, "PENDING", "DECLINED"} => row.payload = NULL,
         boots[b].status # "CONSUMED" /\ row.status = "CONSUMED" =>
           client.approved = "good" /\ client.bootID = b
  PROVE  BootsMove /\ boots'[b] = row /\ \A d \in Boots \ {b} : boots'[d] = boots[d]
<1>1. boots \in [Boots -> BootRow]
  BY DEF Talk, BootsOK
<1>2. /\ boots' \in [Boots -> BootRow] /\ boots'[b] = row
      /\ \A d \in Boots \ {b} : boots'[d] = boots[d]
  BY <1>1
<1> QED
  BY <1>2 DEF BootsMove, Talk, PayloadOnApproval, Forward

\* The challenge of a row is not what moves it.
LEMMA ChallengeMove ==
  ASSUME Talk, NEW b \in Boots, NEW x \in Conns \cup {NULL},
         boots' = [boots EXCEPT ![b].challenge = x]
  PROVE  /\ BootsMove /\ boots'[b].status = boots[b].status /\ boots'[b].payload = boots[b].payload
<1> DEFINE row == [boots[b] EXCEPT !.challenge = x]
<1>1. boots[b] \in BootRow
  BY DEF Talk, BootsOK
<1>2. row \in BootRow /\ row.status = boots[b].status /\ row.payload = boots[b].payload
  BY <1>1 DEF BootRow
<1>3. boots' = [boots EXCEPT ![b] = row]
  OBVIOUS
<1>4. row.status \in {NoStatus, "PENDING", "DECLINED"} => row.payload = NULL
  BY <1>2 DEF Talk, PayloadOnApproval
<1> HIDE DEF row
<1>5. Forward(boots[b], row)
  BY <1>2 DEF Forward
<1>6. BootsMove /\ boots'[b] = row
  BY <1>2, <1>3, <1>4, <1>5, RowMove
<1> QED
  BY <1>2, <1>6

\* The object knows b of connection c.
SocketBoot(c, b) == wire[c].boot = b \/ \E f \in Range(wire[c].up) : f.boot = b

\* Frames about b that may be sent on c.
Truthful(c, b, fs) ==
  /\ fs \in Seq(DownFrame) /\ Message(fs)
  /\ \A f \in Range(fs) : /\ f.boot \in {NULL, b} /\ f.type # "pending"
                          /\ Told(f, boots') /\ (wire[c].client => Over(f, boots'))

\* Saying them is a reply.
LEMMA ReplySay ==
  ASSUME NEW c \in Conns, wire[c] \in Connection, Ends(wire[c]), NEW b \in Boots,
         NEW v \in Connection, Base(wire[c], v), v.boot \in {wire[c].boot, b},
         SocketBoot(c, b), NEW fs, Truthful(c, b, fs), wire'[c] = Say(v, fs)
  PROVE  fs \in Seq(DownFrame) /\ Reply(c, b, fs)
<1>1. fs \in Seq(DownFrame)
  BY DEF Truthful
<1>2. Served(wire[c], wire'[c], fs) /\ wire'[c].boot = v.boot
  BY <1>1, SayServed
<1> QED
  BY <1>1, <1>2 DEF Truthful, Reply, Sent, SocketBoot

\* So is closing with them.
LEMMA ReplyShut ==
  ASSUME NEW c \in Conns, wire[c] \in Connection, Ends(wire[c]), NEW b \in Boots,
         NEW v \in Connection, Base(wire[c], v),
         SocketBoot(c, b), NEW fs, Truthful(c, b, fs), wire'[c] = Shut(v, fs)
  PROVE  fs \in Seq(DownFrame) /\ Reply(c, b, fs)
<1>1. fs \in Seq(DownFrame)
  BY DEF Truthful
<1>2. Served(wire[c], wire'[c], fs) /\ wire'[c].boot = NULL
  BY <1>1, ShutServed
<1> QED
  BY <1>1, <1>2 DEF Truthful, Reply, Sent, SocketBoot

\* So is silence.
LEMMA ReplyNothing ==
  ASSUME NEW c \in Conns, NEW b \in Boots, Served(wire[c], wire'[c], <<>>),
         wire'[c].boot \in {wire[c].boot, b}, SocketBoot(c, b)
  PROVE  <<>> \in Seq(DownFrame) /\ Reply(c, b, <<>>)
BY NoFrame DEF Reply, Sent, SocketBoot

\* sendTerminal may be sent on any connection that asked for the boot.
LEMMA TerminalTruthful ==
  ASSUME Talk, NEW c \in Conns, NEW b \in Boots, NEW status \in Terminal,
         boots'[b].status = status,
         status = "CONSUMED" /\ wire[c].client => client.bootID = b
  PROVE  Truthful(c, b, TerminalFrames(b, status))
<1>1. b # NULL
  BY WireAssumption
<1> DEFINE fs == TerminalFrames(b, status)
<1>2. /\ fs \in Seq(DownFrame) /\ Message(fs)
      /\ \A f \in Range(fs) :
           /\ f.boot \in {NULL, b} /\ f.type # "pending"
           /\ Told(f, boots') /\ (f.type = "error" => status = "CONSUMED")
  BY TerminalFramesTold
<1> HIDE DEF fs
<1>3. \A f \in Range(fs) : wire[c].client => Over(f, boots')
  BY <1>1, <1>2 DEF Over
<1> QED
  BY <1>2, <1>3 DEF Truthful, fs

\* A refusal may always be sent, TERMINAL to a client whose boot has ended.
LEMMA RefusalTruthful ==
  ASSUME NEW c \in Conns, NEW b \in Boots, NEW code \in Codes,
         code = "TERMINAL" /\ wire[c].client =>
           /\ client.bootID # NULL
           /\ boots'[client.bootID].status \in {"EXPIRED", "CANCELED", "CONSUMED"}
  PROVE  Truthful(c, b, Refusing(code))
<1> DEFINE fs == Refusing(code)
<1>1. /\ fs \in Seq(DownFrame) /\ Message(fs)
      /\ Range(fs) = {Frame("error", NULL, code), Frame("close", NULL, code)}
  BY RefusingFrames
<1>2. \A f \in Range(fs) : /\ Told(f, boots') /\ f.boot = NULL /\ f.type # "pending"
                           /\ wire[c].client => Over(f, boots')
  BY <1>1 DEF Frame, Told, Over
<1> HIDE DEF fs
<1> QED
  BY <1>1, <1>2 DEF Truthful, fs

\* A handler that replies on its own connection leaves the others alone.
LEMMA OneReply ==
  ASSUME Talk, NEW c \in Conns, NEW v \in Connection, On(c, v), NEW b \in Boots,
         wire'[c] = v => \E fs \in Seq(DownFrame) : Reply(c, b, fs)
  PROVE  /\ wire' \in [Conns -> Connection] /\ wire'[c] = v
         /\ \A d \in Conns :
              wire'[d] = wire[d] \/ \E e \in Boots, fs \in Seq(DownFrame) : Reply(d, e, fs)
<1>1. wire \in [Conns -> Connection] /\ wire' = [wire EXCEPT ![c] = v]
  BY DEF Talk, WireOK, On
<1>2. wire' \in [Conns -> Connection] /\ wire'[c] = v /\ \A d \in Conns \ {c} : wire'[d] = wire[d]
  BY <1>1
<1> QED
  BY <1>2

\* What a handler knows when it takes a frame that names a boot: the client of the
\* connection, if it still holds its end, named its own boot.
LEMMA ReceivedFrame ==
  ASSUME Talk, NEW c \in Conns, NEW type \in {"resume", "proof", "received"}, Received(c, type)
  PROVE  LET r == Rest(c)
             b == FrameOn(c).boot
         IN  /\ wire[c] \in Connection /\ Ends(wire[c]) /\ b \in Boots /\ b # NULL
             /\ FrameOn(c) \in Range(wire[c].up) /\ FrameOn(c) \in UpFrame
             /\ FrameOn(c).type = type /\ SocketBoot(c, b)
             /\ wire[c].client => client.bootID = b
             /\ r \in Connection /\ Base(wire[c], r) /\ Served(wire[c], r, <<>>)
             /\ r.boot = wire[c].boot /\ r.server /\ r.up = Tail(wire[c].up)
             /\ LET q == [r EXCEPT !.boot = b]
                IN  /\ Base(wire[c], q) /\ Served(wire[c], q, <<>>) /\ q \in Connection
                    /\ q.boot = b /\ q.server /\ q.up = Tail(wire[c].up)
<1> DEFINE w == wire[c]
           f == FrameOn(c)
           b == FrameOn(c).boot
<1>1. w \in Connection /\ Ends(w) /\ w.server /\ w.up # <<>> /\ f.type = type
  BY DEF Received, Talk, WireOK, FrameOn
<1>2. f \in Range(w.up) /\ f \in UpFrame
  BY <1>1, Bases DEF FrameOn
<1>3. b \in Boots /\ b # NULL
  BY <1>1, <1>2, WireAssumption DEF UpFrame
<1>4. SocketBoot(c, b)
  BY <1>2 DEF SocketBoot
<1>5. w.client => client.bootID = b
  BY <1>2, <1>3, AskedOfClient
<1> DEFINE r == Rest(c)
           q == [r EXCEPT !.boot = b]
<1>6. /\ r \in Connection /\ Base(w, r) /\ Served(w, r, <<>>)
      /\ r.boot = w.boot /\ r.server /\ r.up = Tail(w.up)
      /\ Base(w, q) /\ Served(w, q, <<>>) /\ q \in Connection
      /\ q.boot = b /\ q.server /\ q.up = Tail(w.up)
  BY <1>1, <1>3, Bases DEF Rest
<1> HIDE DEF w, f, b, r, q
<1> QED
  BY <1>1, <1>2, <1>3, <1>4, <1>5, <1>6 DEF w, f, b, r, q

\* Resume answers with the end of the boot or a challenge.
LEMMA ResumeStep ==
  ASSUME Talk, NEW c \in Conns, Resume(c)
  PROVE  ServerStep
<1> DEFINE r == Rest(c)
           f == FrameOn(c)
           b == FrameOn(c).boot
<1>1. /\ wire[c] \in Connection /\ Ends(wire[c]) /\ b \in Boots /\ b # NULL
      /\ SocketBoot(c, b)
      /\ wire[c].client => client.bootID = b
      /\ r \in Connection /\ Base(wire[c], r)
      /\ r.boot = wire[c].boot
  BY ReceivedFrame DEF Resume
<1>2. boots[b] \in BootRow /\ tokenLive' \in BOOLEAN /\ faults' \in 0 .. MaxFaults
  BY <1>1, WorksOrFails DEF Talk, BootsOK, CountsOK, Resume
<1>3. \/ /\ boots[b].status \in Terminal
         /\ On(c, Shut(r, TerminalFrames(b, boots[b].status))) /\ UNCHANGED boots
      \/ /\ boots' = [boots EXCEPT ![b].challenge = c]
         /\ On(c, Say(r, <<Frame("challenge", b, c)>>))
  BY DEF Resume
<1> HIDE DEF r, f, b
<1>4. CASE /\ boots[b].status \in Terminal
           /\ On(c, Shut(r, TerminalFrames(b, boots[b].status))) /\ UNCHANGED boots
  <2> DEFINE fs == TerminalFrames(b, boots[b].status)
  <2>1. Truthful(c, b, fs)
    BY <1>1, <1>4, TerminalTruthful
  <2>2. Shut(r, fs) \in Connection
    BY <1>1, <2>1, ShutServed DEF Served, Truthful
  <2>3. wire'[c] = Shut(r, fs) => fs \in Seq(DownFrame) /\ Reply(c, b, fs)
    BY <1>1, <2>1, ReplyShut
  <2> HIDE DEF fs
  <2> QED
    BY <1>1, <1>2, <1>4, <2>2, <2>3, OneReply, BootsRest DEF ServerStep, fs
<1>5. CASE /\ boots' = [boots EXCEPT ![b].challenge = c]
           /\ On(c, Say(r, <<Frame("challenge", b, c)>>))
  <2> DEFINE fs == <<Frame("challenge", b, c)>>
  <2>1. BootsMove
    BY <1>1, <1>5, ChallengeMove
  <2>2. Frame("challenge", b, c) \in DownFrame
    BY <1>1, FrameTypes
  <2>3. fs \in Seq(DownFrame) /\ Message(fs) /\ Range(fs) = {Frame("challenge", b, c)}
    BY <2>2, OneFrame DEF Frame
  <2>4. Truthful(c, b, fs)
    BY <2>3 DEF Truthful, Told, Over, Frame
  <2> HIDE DEF fs
  <2>5. Say(r, fs) \in Connection
    BY <1>1, <2>3, SayServed DEF Served
  <2>6. wire'[c] = Say(r, fs) => fs \in Seq(DownFrame) /\ Reply(c, b, fs)
    BY <1>1, <2>4, ReplySay
  <2> QED
    BY <1>1, <1>2, <1>5, <2>1, <2>5, <2>6, OneReply DEF ServerStep, fs
<1> QED
  BY <1>3, <1>4, <1>5

\* Acknowledge consumes the boot the client opened, or refuses.
LEMMA AcknowledgeStep ==
  ASSUME Talk, NEW c \in Conns, Acknowledge(c)
  PROVE  ServerStep
<1> DEFINE r == Rest(c)
           f == FrameOn(c)
           b == FrameOn(c).boot
           row == boots[b]
<1>1. /\ wire[c] \in Connection /\ Ends(wire[c]) /\ b \in Boots /\ b # NULL
      /\ SocketBoot(c, b)
      /\ wire[c].client => client.bootID = b
      /\ r \in Connection /\ Base(wire[c], r) /\ Served(wire[c], r, <<>>)
      /\ r.boot = wire[c].boot
      /\ f \in Range(wire[c].up) /\ f \in UpFrame /\ f.type = "received" /\ f.boot = b
  BY ReceivedFrame DEF Acknowledge
<1>2. f.arg = "good" /\ client.approved = "good" /\ client.bootID = b
  BY <1>1 DEF UpFrame, Talk, ReceivedTrue
<1>3. row \in BootRow /\ tokenLive' \in BOOLEAN
  BY <1>1 DEF Talk, BootsOK, CountsOK, Acknowledge
<1> DEFINE Refuse(code) == On(c, Shut(r, Refusing(code))) /\ Works /\ UNCHANGED boots
<1>4. \/ Refuse("UNKNOWN_BOOT")
      \/ Refuse("PROTOCOL_ERROR")
      \/ Refuse("CONFLICT")
      \/ row.payload = f.arg /\ ~Allowed(row.status, "consume") /\ row.status \in Terminal /\ Refuse("TERMINAL")
      \/ /\ row.payload = f.arg /\ Allowed(row.status, "consume")
         /\ boots' = [boots EXCEPT ![b].status = "CONSUMED"]
         /\ \/ /\ On(c, Shut(r, <<Frame("consumed", b, NULL), Frame("close", NULL, "NORMAL")>>))
               /\ Works
            \/ On(c, r) /\ Fails
  BY DEF Acknowledge
<1> HIDE DEF r, f, b
<1>5. ASSUME NEW code \in Codes, Refuse(code),
             code = "TERMINAL" =>
               boots[b].status \in {"EXPIRED", "CANCELED", "CONSUMED"}
      PROVE  ServerStep
  <2>1. Truthful(c, b, Refusing(code))
    BY <1>1, <1>2, <1>5, RefusalTruthful
  <2> DEFINE fs == Refusing(code)
  <2>2. Shut(r, fs) \in Connection
    BY <1>1, <2>1, ShutServed DEF Served, Truthful
  <2>3. wire'[c] = Shut(r, fs) => fs \in Seq(DownFrame) /\ Reply(c, b, fs)
    BY <1>1, <2>1, ReplyShut
  <2>4. faults' \in 0 .. MaxFaults
    BY <1>5, WorksOrFails
  <2> HIDE DEF fs
  <2> QED
    BY <1>1, <1>3, <1>5, <2>2, <2>3, <2>4, OneReply, BootsRest DEF ServerStep, fs
<1>6. CASE row.payload = f.arg /\ ~Allowed(row.status, "consume") /\ row.status \in Terminal /\ Refuse("TERMINAL")
  <2>1. row.payload = "good" /\ "good" # NULL
    BY <1>2, <1>6, ClientAssumption DEF Payloads
  <2>2. boots[b].status # "DECLINED"
    BY <1>1, <2>1 DEF Talk, PayloadOnApproval
  <2>3. boots[b].status \in {"EXPIRED", "CANCELED", "CONSUMED"}
    BY <1>6, <2>2 DEF Terminal
  <2> QED
    BY <1>5, <1>6, <2>3 DEF Codes
<1>7. CASE /\ row.payload = f.arg /\ Allowed(row.status, "consume")
           /\ boots' = [boots EXCEPT ![b].status = "CONSUMED"]
           /\ \/ /\ On(c, Shut(r, <<Frame("consumed", b, NULL), Frame("close", NULL, "NORMAL")>>))
                 /\ Works
              \/ On(c, r) /\ Fails
  <2> DEFINE new == [row EXCEPT !.status = "CONSUMED"]
             fs == <<Frame("consumed", b, NULL), Frame("close", NULL, "NORMAL")>>
  <2>1. row.status = "DELIVERED"
    BY <1>7 DEF Allowed, Transitions, Target
  <2>2. new \in BootRow /\ new.status = "CONSUMED" /\ new.payload = row.payload
    BY <1>3 DEF BootRow, Status, Terminal
  <2>3. Forward(row, new)
    BY <2>1, <2>2 DEF Forward, Terminal
  <2>4. boots' = [boots EXCEPT ![b] = new]
    BY <1>7
  <2>5. new.status \notin {NoStatus, "PENDING", "DECLINED"}
    BY <2>2 DEF NoStatus
  <2> HIDE DEF new
  <2>6. BootsMove /\ boots'[b] = new
    BY <1>1, <1>2, <2>2, <2>3, <2>4, <2>5, RowMove
  <2>7. Frame("consumed", b, NULL) \in DownFrame /\ Frame("close", NULL, "NORMAL") \in DownFrame
    BY <1>1, FrameTypes DEF Codes
  <2>8. /\ fs \in Seq(DownFrame) /\ Message(fs)
        /\ Range(fs) = {Frame("consumed", b, NULL), Frame("close", NULL, "NORMAL")}
    BY <2>7, TwoFrames DEF Frame, Last
  <2>9. Truthful(c, b, fs)
    <3>1. \A g \in Range(fs) : \/ g.type = "consumed" /\ g.boot = b
                               \/ g.type = "close" /\ g.boot = NULL
      BY <2>8 DEF Frame
    <3> QED
      BY <2>2, <2>6, <2>8, <3>1 DEF Truthful, Told, Over
  <2> HIDE DEF fs
  <2>10. CASE On(c, Shut(r, fs)) /\ Works
    <3>1. Shut(r, fs) \in Connection
      BY <1>1, <2>8, ShutServed DEF Served
    <3>2. wire'[c] = Shut(r, fs) => fs \in Seq(DownFrame) /\ Reply(c, b, fs)
      BY <1>1, <2>9, ReplyShut
    <3> QED
      BY <1>1, <1>3, <2>6, <2>10, <3>1, <3>2, OneReply, WorksOrFails DEF ServerStep
  <2>11. CASE On(c, r) /\ Fails
    <3>1. wire'[c] = r => <<>> \in Seq(DownFrame) /\ Reply(c, b, <<>>)
      BY <1>1, ReplyNothing
    <3> QED
      BY <1>1, <1>3, <2>6, <2>11, <3>1, OneReply, WorksOrFails DEF ServerStep
  <2> QED
    BY <1>7, <2>10, <2>11 DEF fs
<1> HIDE DEF Refuse
<1> QED
  BY <1>4, <1>5, <1>6, <1>7 DEF Codes

\* A canceled row moves forward.
LEMMA CancelMove ==
  ASSUME Talk, NEW b \in Boots, boots' = CancelOne(b)
  PROVE  BootsMove
<1> DEFINE row == boots[b]
           new == IF Allowed(row.status, "cancel")
                    THEN [row EXCEPT !.status = "CANCELED", !.challenge = NULL]
                    ELSE [row EXCEPT !.challenge = NULL]
<1>1. boots[b] \in BootRow
  BY DEF Talk, BootsOK
<1>2. Allowed(row.status, "cancel") => row.status \in {"PENDING", "APPROVED"}
  BY DEF Allowed, Transitions, Target
<1>3. boots' = [boots EXCEPT ![b] = new]
  BY DEF CancelOne
<1>4. /\ new \in BootRow /\ new.payload = row.payload
      /\ \/ Allowed(row.status, "cancel") /\ new.status = "CANCELED"
         \/ new.status = row.status
  BY <1>1 DEF BootRow, Status, Terminal
<1> HIDE DEF new
<1>5. Forward(row, new)
  BY <1>2, <1>4 DEF Forward, Terminal
<1>6. new.status \in {NoStatus, "PENDING", "DECLINED"} => new.payload = NULL
  BY <1>4 DEF Talk, PayloadOnApproval, NoStatus
<1>7. row.status # "CONSUMED" => new.status # "CONSUMED"
  BY <1>4
<1> QED
  BY <1>3, <1>4, <1>5, <1>6, <1>7, RowMove

\* A proved connection is told the status and sent the payload.
LEMMA AttachStep ==
  ASSUME Talk, NEW c \in Conns, Received(c, "proof"), boots[FrameOn(c).boot].status \notin Terminal,
         Attach(c, FrameOn(c).boot)
  PROVE  /\ BootsMove /\ wire' \in [Conns -> Connection]
         /\ \A d \in Conns :
              wire'[d] = wire[d] \/ \E e \in Boots, fs \in Seq(DownFrame) : Reply(d, e, fs)
         /\ faults' \in 0 .. MaxFaults
<1> DEFINE r == Rest(c)
           f == FrameOn(c)
           b == FrameOn(c).boot
           row == boots[b]
           q == [r EXCEPT !.boot = b]
           resumed == Frame("resumed", b, row.status)
           payload == IF Owed(row) = NULL THEN <<>> ELSE <<Frame("approved", b, Owed(row))>>
           unchallenged == [row EXCEPT !.challenge = NULL]
           new == IF payload = <<>> THEN unchallenged ELSE [unchallenged EXCEPT !.status = "DELIVERED"]
           fs == <<resumed>> \o payload
<1>1. /\ wire[c] \in Connection /\ Ends(wire[c]) /\ b \in Boots /\ b # NULL
      /\ SocketBoot(c, b)
      /\ Base(wire[c], q) /\ Served(wire[c], q, <<>>) /\ q \in Connection /\ q.boot = b
  BY ReceivedFrame
<1>2. row \in BootRow
  BY <1>1 DEF Talk, BootsOK
<1>3. \/ On(c, Say(q, fs)) /\ boots' = [boots EXCEPT ![b] = new] /\ Works
      \/ On(c, q) /\ boots' = [boots EXCEPT ![b] = unchallenged] /\ Fails
  BY DEF Attach
<1>4. row.status \in Live \cup {NoStatus}
  BY <1>2 DEF BootRow, Status
<1>5. /\ unchallenged \in BootRow /\ unchallenged.status = row.status
      /\ unchallenged.payload = row.payload
  BY <1>2 DEF BootRow
<1>6. /\ Owed(row) \in Kinds \cup {NULL}
      /\ Owed(row) # NULL => Owed(row) = row.payload /\ row.status \in {"APPROVED", "DELIVERED"}
  BY <1>2 DEF Owed, BootRow
<1>7. payload # <<>> => Owed(row) # NULL
  OBVIOUS
<1>8. new \in BootRow /\ new.payload = row.payload
      /\ (new.status = row.status \/ (row.status \in {"APPROVED", "DELIVERED"} /\ new.status = "DELIVERED"))
  BY <1>5, <1>6, <1>7 DEF BootRow, Status, Live
<1>9. resumed \in DownFrame /\ <<resumed>> \in Seq(DownFrame) /\ Range(<<resumed>>) = {resumed}
  BY <1>1, <1>4, FrameTypes, RangeOne
<1>10. /\ payload \in Seq(DownFrame)
       /\ Range(payload) \subseteq {Frame("approved", b, Owed(row))}
       /\ Range(payload) # {} => Owed(row) # NULL
  <2>1. CASE Owed(row) = NULL
    BY <2>1, NoFrame
  <2>2. CASE Owed(row) # NULL
    <3>1. Frame("approved", b, Owed(row)) \in DownFrame
      BY <1>1, <1>6, <2>2, FrameTypes
    <3> QED
      BY <2>2, <3>1, RangeOne
  <2> QED
    BY <2>1, <2>2
<1> HIDE DEF r, f, b, q, resumed, payload, unchallenged, new
<1>11. fs \in Seq(DownFrame) /\ Range(fs) = {resumed} \cup Range(payload)
  <2>1. fs \in Seq(DownFrame)
    BY <1>9, <1>10, ConcatProperties
  <2>2. Range(<<resumed>> \o payload) = Range(<<resumed>>) \cup Range(payload)
    BY <1>9, <1>10, RangeOfConcat
  <2> QED
    BY <1>9, <2>1, <2>2
<1>12. ASSUME NEW row2 \in {new, unchallenged}, boots' = [boots EXCEPT ![b] = row2]
       PROVE  BootsMove /\ boots'[b].payload = row.payload
  <2>1. row2 \in BootRow /\ row2.payload = row.payload
        /\ (row2.status = row.status \/ (row.status \in {"APPROVED", "DELIVERED"} /\ row2.status = "DELIVERED"))
    BY <1>5, <1>8
  <2>2. Forward(row, row2) /\ row2.status # "CONSUMED"
    BY <1>4, <2>1 DEF Forward, Terminal, Live, NoStatus
  <2>3. row2.status \in {NoStatus, "PENDING", "DECLINED"} => row2.payload = NULL
    BY <1>1, <2>1 DEF Talk, PayloadOnApproval, NoStatus
  <2> QED
    BY <1>1, <1>12, <2>1, <2>2, <2>3, RowMove
<1>13. CASE On(c, Say(q, fs)) /\ boots' = [boots EXCEPT ![b] = new] /\ Works
  <2>1. BootsMove /\ boots'[b].payload = row.payload
    BY <1>12, <1>13
  <2>2. \A g \in Range(fs) :
           \/ g.type = "resumed" /\ g.boot = b
           \/ g.type = "approved" /\ g.boot = b /\ g.arg = boots'[b].payload
    BY <1>6, <1>10, <1>11, <2>1 DEF resumed, Frame
  <2>3. Truthful(c, b, fs)
    BY <1>11, <2>2 DEF Truthful, Message, Told, Over
  <2> HIDE DEF fs
  <2>4. Say(q, fs) \in Connection
    BY <1>1, <1>11, SayServed DEF Served
  <2>5. wire'[c] = Say(q, fs) => fs \in Seq(DownFrame) /\ Reply(c, b, fs)
    BY <1>1, <2>3, ReplySay
  <2> QED
    BY <1>1, <1>13, <2>1, <2>4, <2>5, OneReply, WorksOrFails
<1>14. CASE On(c, q) /\ boots' = [boots EXCEPT ![b] = unchallenged] /\ Fails
  <2>1. BootsMove
    BY <1>12, <1>14
  <2>2. wire'[c] = q => <<>> \in Seq(DownFrame) /\ Reply(c, b, <<>>)
    BY <1>1, ReplyNothing
  <2> QED
    BY <1>1, <1>14, <2>1, <2>2, OneReply, WorksOrFails
<1> QED
  BY <1>3, <1>13, <1>14

\* Proof attaches, refuses, or ends the boot of a dead token.
LEMMA ProofStep ==
  ASSUME Talk, NEW c \in Conns, Proof(c)
  PROVE  ServerStep
<1> DEFINE r == Rest(c)
           f == FrameOn(c)
           b == FrameOn(c).boot
<1>1. /\ wire[c] \in Connection /\ Ends(wire[c]) /\ b \in Boots /\ b # NULL
      /\ SocketBoot(c, b)
      /\ wire[c].client => client.bootID = b
      /\ r \in Connection /\ Base(wire[c], r) /\ Served(wire[c], r, <<>>)
      /\ r.boot = wire[c].boot
  BY ReceivedFrame DEF Proof
<1>2. boots[b] \in BootRow /\ tokenLive' \in BOOLEAN /\ Received(c, "proof")
  BY <1>1 DEF Talk, BootsOK, CountsOK, Proof
<1> DEFINE Spent == boots' = [boots EXCEPT ![b].challenge = NULL]
           Forbid == wire' = [d \in Conns |->
                       IF d = c THEN Shut(r, Refusing("FORBIDDEN"))
                       ELSE IF d \in SocketsOf(b) /\ boots'[b].status = "CANCELED"
                         THEN Shut(wire[d], TerminalFrames(b, "CANCELED"))
                       ELSE wire[d]]
<1>3. \/ On(c, Shut(r, Refusing("PROTOCOL_ERROR"))) /\ Spent /\ (Works \/ Fails)
      \/ boots' = CancelOne(b) /\ Forbid /\ Works
      \/ boots' = CancelOne(b) /\ On(c, r) /\ Fails
      \/ /\ boots[b].status \in Terminal
         /\ On(c, Shut(r, TerminalFrames(b, boots[b].status))) /\ Spent /\ Works
      \/ boots[b].status \notin Terminal /\ Attach(c, b)
  BY DEF Proof
<1>4. Spent => /\ BootsMove /\ boots'[b].status = boots[b].status
  BY <1>1, ChallengeMove
<1>5. CASE boots[b].status \notin Terminal /\ Attach(c, b)
  BY <1>2, <1>5, AttachStep DEF ServerStep
<1> HIDE DEF r, f, b, Spent
<1>6. CASE On(c, Shut(r, Refusing("PROTOCOL_ERROR"))) /\ Spent /\ (Works \/ Fails)
  <2> DEFINE fs == Refusing("PROTOCOL_ERROR")
  <2>1. Truthful(c, b, fs)
    BY <1>1, RefusalTruthful DEF Codes
  <2>2. Shut(r, fs) \in Connection
    BY <1>1, <2>1, ShutServed DEF Served, Truthful
  <2>3. wire'[c] = Shut(r, fs) => fs \in Seq(DownFrame) /\ Reply(c, b, fs)
    BY <1>1, <2>1, ReplyShut
  <2> HIDE DEF fs
  <2> QED
    BY <1>1, <1>2, <1>4, <1>6, <2>2, <2>3, OneReply, WorksOrFails DEF ServerStep, fs
<1>7. CASE /\ boots[b].status \in Terminal
           /\ On(c, Shut(r, TerminalFrames(b, boots[b].status))) /\ Spent /\ Works
  <2> DEFINE fs == TerminalFrames(b, boots[b].status)
  <2>1. Truthful(c, b, fs)
    BY <1>1, <1>4, <1>7, TerminalTruthful
  <2>2. Shut(r, fs) \in Connection
    BY <1>1, <2>1, ShutServed DEF Served, Truthful
  <2>3. wire'[c] = Shut(r, fs) => fs \in Seq(DownFrame) /\ Reply(c, b, fs)
    BY <1>1, <2>1, ReplyShut
  <2> HIDE DEF fs
  <2> QED
    BY <1>1, <1>2, <1>4, <1>7, <2>2, <2>3, OneReply, WorksOrFails DEF ServerStep, fs
<1>8. CASE boots' = CancelOne(b) /\ On(c, r) /\ Fails
  <2>1. BootsMove
    BY <1>1, <1>8, CancelMove
  <2>2. wire'[c] = r => <<>> \in Seq(DownFrame) /\ Reply(c, b, <<>>)
    BY <1>1, ReplyNothing
  <2> QED
    BY <1>1, <1>2, <1>8, <2>1, <2>2, OneReply, WorksOrFails DEF ServerStep
<1>9. CASE boots' = CancelOne(b) /\ Forbid /\ Works
  <2>1. BootsMove
    BY <1>1, <1>9, CancelMove
  <2>2. ASSUME NEW d \in Conns
        PROVE  /\ wire'[d] \in Connection
               /\ wire'[d] = wire[d] \/ \E e \in Boots, fs \in Seq(DownFrame) : Reply(d, e, fs)
    <3>1. wire[d] \in Connection /\ Ends(wire[d])
      BY DEF Talk, WireOK
    <3>2. CASE d = c
      <4> DEFINE fs == Refusing("FORBIDDEN")
      <4>1. Truthful(c, b, fs)
        BY <1>1, RefusalTruthful DEF Codes
      <4>2. Shut(r, fs) \in Connection
        BY <1>1, <4>1, ShutServed DEF Served, Truthful
      <4>3. wire'[c] = Shut(r, fs)
        BY <1>9
      <4> HIDE DEF fs
      <4>4. fs \in Seq(DownFrame) /\ Reply(c, b, fs)
        BY <1>1, <4>1, <4>3, ReplyShut
      <4> QED
        BY <1>1, <3>2, <4>2, <4>3, <4>4
    <3>3. CASE d # c /\ d \in SocketsOf(b) /\ boots'[b].status = "CANCELED"
      <4> DEFINE fs == TerminalFrames(b, "CANCELED")
      <4>1. wire[d].server /\ wire[d].boot = b /\ SocketBoot(d, b)
        BY <3>3 DEF SocketsOf, SocketBoot
      <4>2. "CANCELED" \in Terminal
        BY DEF Terminal
      <4>3. Truthful(d, b, fs)
        BY <1>1, <3>3, <4>2, TerminalTruthful
      <4>4. Base(wire[d], wire[d])
        BY <3>1, <4>1, Bases
      <4>5. wire'[d] = Shut(wire[d], fs)
        BY <1>9, <3>3
      <4> HIDE DEF fs
      <4>6. fs \in Seq(DownFrame) /\ Reply(d, b, fs)
        BY <1>1, <3>1, <4>1, <4>3, <4>4, <4>5, ReplyShut
      <4>7. wire'[d] \in Connection
        BY <4>6 DEF Reply, Sent, Served
      <4> QED
        BY <1>1, <4>6, <4>7
    <3>4. CASE d # c /\ ~(d \in SocketsOf(b) /\ boots'[b].status = "CANCELED")
      BY <1>9, <3>1, <3>4
    <3> QED
      BY <3>2, <3>3, <3>4
  <2>3. wire' \in [Conns -> Connection]
    BY <1>9, <2>2
  <2> QED
    BY <1>2, <1>9, <2>1, <2>2, <2>3, WorksOrFails DEF ServerStep
<1> QED
  BY <1>3, <1>5, <1>6, <1>7, <1>8, <1>9 DEF b

\* Approve gives a pending boot its payload, and sends it to whoever is attached.
LEMMA ApproveStep ==
  ASSUME Talk, NEW b \in Boots, NEW payload \in Kinds, Approve(b, payload)
  PROVE  ServerStep
<1> DEFINE sockets == SocketsOf(b)
           row == [boots[b] EXCEPT !.status = "APPROVED", !.payload = payload]
           sent == IF sockets = {} THEN row ELSE [row EXCEPT !.status = "DELIVERED"]
           fs == <<Frame("approved", b, payload)>>
<1>1. boots[b] \in BootRow /\ boots[b].status = "PENDING" /\ tokenLive' \in BOOLEAN
      /\ wire \in [Conns -> Connection]
  BY DEF Talk, BootsOK, CountsOK, WireOK, Approve
<1>2. boots[b].payload = NULL
  BY <1>1 DEF Talk, PayloadOnApproval
<1>3. \/ /\ wire' = [c \in Conns |-> IF c \in sockets THEN Say(wire[c], fs) ELSE wire[c]]
         /\ boots' = [boots EXCEPT ![b] = sent] /\ Works
      \/ boots' = [boots EXCEPT ![b] = row] /\ Fails /\ UNCHANGED wire
  BY DEF Approve
<1>4. /\ row \in BootRow /\ row.status = "APPROVED" /\ row.payload = payload
      /\ sent \in BootRow /\ sent.status \in {"APPROVED", "DELIVERED"} /\ sent.payload = payload
  BY <1>1 DEF BootRow, Status, Live
<1> HIDE DEF row, sent
<1>5. ASSUME NEW new \in {row, sent}, boots' = [boots EXCEPT ![b] = new]
      PROVE  BootsMove /\ boots'[b].payload = payload
  <2>1. new \in BootRow /\ new.status \in {"APPROVED", "DELIVERED"} /\ new.payload = payload
    BY <1>4
  <2>2. Forward(boots[b], new) /\ new.status \notin {NoStatus, "PENDING", "DECLINED", "CONSUMED"}
    BY <1>1, <1>2, <2>1 DEF Forward, Terminal, NoStatus
  <2> QED
    BY <1>5, <2>1, <2>2, RowMove
<1>6. CASE boots' = [boots EXCEPT ![b] = row] /\ Fails /\ UNCHANGED wire
  BY <1>1, <1>5, <1>6, WorksOrFails DEF ServerStep
<1>7. CASE /\ wire' = [c \in Conns |-> IF c \in sockets THEN Say(wire[c], fs) ELSE wire[c]]
           /\ boots' = [boots EXCEPT ![b] = sent] /\ Works
  <2>1. BootsMove /\ boots'[b].payload = payload
    BY <1>5, <1>7
  <2>2. Frame("approved", b, payload) \in DownFrame
    BY FrameTypes
  <2>3. fs \in Seq(DownFrame) /\ Message(fs) /\ Range(fs) = {Frame("approved", b, payload)}
    BY <2>2, OneFrame DEF Frame
  <2>4. \A c \in Conns : Truthful(c, b, fs)
    BY <2>1, <2>3 DEF Truthful, Told, Over, Frame
  <2> HIDE DEF fs
  <2>5. ASSUME NEW c \in Conns
        PROVE  /\ wire'[c] \in Connection
               /\ wire'[c] = wire[c] \/ \E e \in Boots, gs \in Seq(DownFrame) : Reply(c, e, gs)
    <3>1. wire[c] \in Connection /\ Ends(wire[c])
      BY DEF Talk, WireOK
    <3>2. CASE c \in sockets
      <4>1. wire[c].server /\ wire[c].boot = b /\ SocketBoot(c, b)
        BY <3>2 DEF SocketsOf, SocketBoot
      <4>2. Base(wire[c], wire[c]) /\ wire'[c] = Say(wire[c], fs)
        BY <1>7, <3>1, <3>2, <4>1, Bases
      <4>3. fs \in Seq(DownFrame) /\ Reply(c, b, fs)
        BY <2>4, <3>1, <4>1, <4>2, ReplySay
      <4>4. wire'[c] \in Connection
        BY <4>3 DEF Reply, Sent, Served
      <4> QED
        BY <4>3, <4>4
    <3>3. CASE c \notin sockets
      BY <1>7, <3>1, <3>3
    <3> QED
      BY <3>2, <3>3
  <2>6. wire' \in [Conns -> Connection]
    BY <1>7, <2>5
  <2> QED
    BY <1>1, <1>7, <2>1, <2>5, <2>6, WorksOrFails DEF ServerStep
<1> HIDE DEF fs
<1> QED
  BY <1>3, <1>6, <1>7

\* Telling the end of boots on their connections replies on each.
LEMMA TellStep ==
  ASSUME Talk, NEW told, told \subseteq Conns,
         \A c \in told : wire[c].server /\ wire[c].boot \in Boots,
         NEW status \in {"DECLINED", "EXPIRED", "CANCELED"},
         \A c \in told : boots'[wire[c].boot].status = status,
         wire' = [c \in Conns |-> IF c \in told
                                    THEN Shut(wire[c], TerminalFrames(wire[c].boot, status))
                                    ELSE wire[c]]
  PROVE  /\ wire' \in [Conns -> Connection]
         /\ \A c \in Conns :
              wire'[c] = wire[c] \/ \E e \in Boots, fs \in Seq(DownFrame) : Reply(c, e, fs)
<1>1. ASSUME NEW c \in Conns
      PROVE  /\ wire'[c] \in Connection
             /\ wire'[c] = wire[c] \/ \E e \in Boots, fs \in Seq(DownFrame) : Reply(c, e, fs)
  <2>1. wire[c] \in Connection /\ Ends(wire[c])
    BY DEF Talk, WireOK
  <2>2. CASE c \in told
    <3> DEFINE b == wire[c].boot
               fs == TerminalFrames(b, status)
    <3>1. b \in Boots /\ SocketBoot(c, b) /\ Base(wire[c], wire[c])
      BY <2>1, <2>2, Bases DEF SocketBoot
    <3>2. Truthful(c, b, fs)
      BY <2>2, <3>1, TerminalTruthful DEF Terminal
    <3>3. wire'[c] = Shut(wire[c], fs)
      BY <2>2
    <3> HIDE DEF fs
    <3>4. fs \in Seq(DownFrame) /\ Reply(c, b, fs)
      BY <2>1, <3>1, <3>2, <3>3, ReplyShut
    <3>5. wire'[c] \in Connection
      BY <3>4 DEF Reply, Sent, Served
    <3> QED
      BY <3>1, <3>4, <3>5
  <2>3. CASE c \notin told
    BY <2>1, <2>3
  <2> QED
    BY <2>2, <2>3
<1> QED
  BY <1>1

\* A boot that is declined, canceled or expires was live.
LEMMA EndStep ==
  ASSUME Talk, NEW b \in Boots, NEW event \in {"decline", "cancel", "expirePending", "expirePayload"},
         EndBy(b, event)
  PROVE  /\ ServerStep
         /\ Target(event) \in {"DECLINED", "EXPIRED", "CANCELED"}
         /\ boots[b].status \in Live
<1> DEFINE status == Target(event)
           new == [boots[b] EXCEPT !.status = status]
<1>1. boots[b] \in BootRow /\ tokenLive' \in BOOLEAN /\ wire \in [Conns -> Connection]
      /\ Allowed(boots[b].status, event)
      /\ faults' \in 0 .. MaxFaults
  BY WorksOrFails DEF Talk, BootsOK, CountsOK, WireOK, EndBy
<1>2. /\ status \in {"DECLINED", "EXPIRED", "CANCELED"}
      /\ boots[b].status \in Live
      /\ status = "DECLINED" => boots[b].status = "PENDING"
  BY <1>1 DEF Allowed, Transitions, Target, Live
<1>3. new \in BootRow /\ new.status = status /\ new.payload = boots[b].payload
  BY <1>1, <1>2 DEF BootRow, Status, Terminal
<1>4. boots' = [boots EXCEPT ![b] = new]
      /\ (UNCHANGED wire \/ TellAll(b, status))
  BY DEF EndBy
<1> HIDE DEF status, new
<1>5. Forward(boots[b], new) /\ new.status # "CONSUMED"
  BY <1>2, <1>3 DEF Forward, Terminal, Live
<1>6. new.status \in {NoStatus, "PENDING", "DECLINED"} => new.payload = NULL
  BY <1>2, <1>3 DEF Talk, PayloadOnApproval, NoStatus
<1>7. BootsMove /\ boots'[b] = new
  BY <1>3, <1>4, <1>5, <1>6, RowMove
<1>8. CASE TellAll(b, status)
  <2>1. SocketsOf(b) \subseteq Conns /\ \A c \in SocketsOf(b) : wire[c].server /\ wire[c].boot = b
    BY DEF SocketsOf
  <2>2. wire' = [c \in Conns |-> IF c \in SocketsOf(b)
                                    THEN Shut(wire[c], TerminalFrames(wire[c].boot, status))
                                    ELSE wire[c]]
    BY <1>8, <2>1 DEF TellAll
  <2>3. \A c \in SocketsOf(b) : boots'[wire[c].boot].status = status /\ wire[c].boot \in Boots
    BY <1>3, <1>7, <2>1
  <2>4. /\ wire' \in [Conns -> Connection]
        /\ \A c \in Conns :
             wire'[c] = wire[c] \/ \E e \in Boots, fs \in Seq(DownFrame) : Reply(c, e, fs)
    BY <1>2, <2>1, <2>2, <2>3, TellStep
  <2> QED
    BY <1>1, <1>2, <1>7, <2>4 DEF ServerStep, status
<1>9. CASE UNCHANGED wire
  BY <1>1, <1>2, <1>7, <1>9 DEF ServerStep, status
<1> QED
  BY <1>4, <1>8, <1>9

\* Revocation ends every boot that can be canceled.
LEMMA RevokeStep ==
  ASSUME Talk, Revoke
  PROVE  ServerStep
<1>1. boots \in [Boots -> BootRow] /\ wire \in [Conns -> Connection] /\ tokenLive' \in BOOLEAN
      /\ faults' \in 0 .. MaxFaults
  BY WorksOrFails DEF Talk, BootsOK, WireOK, Revoke
<1>2. CASE UNCHANGED <<boots, wire>>
  BY <1>1, <1>2, BootsRest DEF ServerStep
<1>3. CASE /\ boots' = [b \in Boots |-> IF b \in Cancelable
                THEN [boots[b] EXCEPT !.status = "CANCELED"] ELSE boots[b]]
           /\ wire' = [c \in Conns |-> IF wire[c].server /\ wire[c].boot \in Cancelable
                THEN Shut(wire[c], TerminalFrames(wire[c].boot, "CANCELED")) ELSE wire[c]]
  <2>1. \A b \in Cancelable : b \in Boots /\ boots[b].status \in {"PENDING", "APPROVED"}
    BY DEF Cancelable, Allowed, Transitions, Target
  <2>2. ASSUME NEW b \in Boots
        PROVE  /\ boots'[b] \in BootRow /\ boots'[b].payload = boots[b].payload
               /\ IF b \in Cancelable THEN boots'[b].status = "CANCELED" ELSE boots'[b] = boots[b]
    BY <1>1, <1>3 DEF BootRow, Status, Terminal
  <2>3. boots' \in [Boots -> BootRow]
    BY <1>3, <2>2
  <2>4. ASSUME NEW b \in Boots
        PROVE  /\ Forward(boots[b], boots'[b])
               /\ boots[b].status # "CONSUMED" => boots'[b].status # "CONSUMED"
               /\ boots'[b].status \in {NoStatus, "PENDING", "DECLINED"} => boots'[b].payload = NULL
    <3>1. CASE b \in Cancelable
      BY <2>1, <2>2, <3>1 DEF Forward, Terminal, NoStatus
    <3>2. CASE b \notin Cancelable
      BY <2>2, <3>2 DEF Forward, Talk, PayloadOnApproval
    <3> QED
      BY <3>1, <3>2
  <2>5. BootsMove
    BY <2>3, <2>4 DEF BootsMove
  <2> DEFINE told == {c \in Conns : wire[c].server /\ wire[c].boot \in Cancelable}
  <2>6. wire' = [c \in Conns |-> IF c \in told
                    THEN Shut(wire[c], TerminalFrames(wire[c].boot, "CANCELED")) ELSE wire[c]]
    BY <1>3
  <2>7. told \subseteq Conns /\ \A c \in told : wire[c].server /\ wire[c].boot \in Boots
                                  /\ boots'[wire[c].boot].status = "CANCELED"
    BY <2>1, <2>2
  <2> HIDE DEF told
  <2>8. /\ wire' \in [Conns -> Connection]
        /\ \A c \in Conns :
             wire'[c] = wire[c] \/ \E e \in Boots, fs \in Seq(DownFrame) : Reply(c, e, fs)
    BY <2>6, <2>7, TellStep
  <2> QED
    BY <1>1, <2>5, <2>8 DEF ServerStep
<1> QED
  BY <1>2, <1>3 DEF Revoke

-----------------------------------------------------------------------------
(* The handlers keep Talk *)

\* What is on its way down after a handler was there or was just sent.
LEMMA ServedFrames ==
  ASSUME NEW w \in Connection, NEW v, NEW fs \in Seq(DownFrame), Served(w, v, fs)
  PROVE  /\ v.down = w.down \/ (w.client /\ Range(v.down) = Range(w.down) \cup Range(fs))
         /\ Message(fs) /\ Sealed(w.down) => Sealed(v.down)
<1>1. w.down \in Seq(DownFrame)
  BY DEF Connection
<1> QED
  BY <1>1, RangeOfConcat, SealedConcat DEF Served

\* Rows that move forward keep every frame true.
LEMMA TruthKept ==
  ASSUME Talk, BootsMove, NEW f \in DownFrame
  PROVE  /\ Told(f, boots) => Told(f, boots')
         /\ Over(f, boots) => Over(f, boots')
<1>1. \A b \in Boots : /\ boots[b].status \in Terminal => boots'[b].status = boots[b].status
                       /\ boots[b].payload # NULL => boots'[b].payload = boots[b].payload
  BY DEF BootsMove, Forward
<1>2. f.type \in {"declined", "expired", "canceled", "consumed", "approved"} => f.boot \in Boots
  BY DEF DownFrame
<1>3. f.type = "approved" => f.arg # NULL
  BY ClientAssumption DEF DownFrame, Kinds, Payloads
<1>4. client.bootID # NULL => client.bootID \in Boots
  BY DEF Talk, ClientOK, ClientState
<1>5. Told(f, boots) => Told(f, boots')
  BY <1>1, <1>2, <1>3 DEF Told, Terminal
<1>6. Over(f, boots) => Over(f, boots')
  BY <1>1, <1>4 DEF Over, Terminal
<1> QED
  BY <1>5, <1>6

\* They keep what is known of rows and client.
LEMMA MovedBoots ==
  ASSUME Talk, BootsMove, UNCHANGED client
  PROVE  BootsOK' /\ Acknowledged' /\ PayloadOnApproval'
<1>1. BootsOK' /\ PayloadOnApproval'
  BY DEF BootsMove, BootsOK, PayloadOnApproval
<1>2. client.bootID # NULL => client.bootID \in Boots
  BY DEF Talk, ClientOK, ClientState
<1>3. \A b \in Boots : boots'[b].status = "CONSUMED" => client.approved = "good" /\ client.bootID = b
  BY DEF BootsMove, Talk, Acknowledged
<1>4. client.approved = "good" => boots'[client.bootID].payload = "good"
  <2>1. "good" # NULL
    BY ClientAssumption DEF Payloads
  <2> QED
    BY <1>2, <2>1 DEF BootsMove, Talk, Acknowledged, ClientOK, Forward
<1>5. client.pc \in {"launch", "started"} =>
        client.bootID # NULL /\ boots'[client.bootID].status = "CONSUMED"
  BY <1>2 DEF BootsMove, Talk, Acknowledged, Forward, Terminal
<1> QED
  BY <1>1, <1>3, <1>4, <1>5 DEF Acknowledged

\* A reply to a client that knows no boot yet is about the one boot it will know.
LEMMA GreetingKept ==
  ASSUME Talk, NEW c \in Conns, client.conn = c, NEW b \in Boots, NEW fs \in Seq(DownFrame),
         Reply(c, b, fs), Greeting(wire[c])
  PROVE  Greeting(wire'[c])
<1> DEFINE w == wire[c]
           v == wire'[c]
<1>1. w \in Connection /\ Ends(w) /\ w.client /\ b # NULL /\ w.down \in Seq(DownFrame)
      /\ w.boot \in Boots \cup {NULL}
  BY WireAssumption DEF Talk, WireOK, Connection
<1>2. /\ v \in Connection /\ Ends(v) /\ v.client = w.client /\ (v.client => v.cut = w.cut)
      /\ v.server => w.server
      /\ Range(v.up) \subseteq Range(w.up)
      /\ (v.down = w.down \/ (w.client /\ ~w.cut /\ v.down = w.down \o fs))
      /\ v.boot \in {NULL, w.boot, b}
      /\ w.boot = b \/ \E f \in Range(w.up) : f.boot = b
      /\ \A f \in Range(fs) : f.boot \in {NULL, b} /\ f.type # "pending"
  BY DEF Reply, Sent, Served
<1>3. \A f \in Range(w.up) : f.boot # b
  <2>1. Range(<<Hello0>>) = {Hello0} /\ Hello0.boot = NULL
    BY RangeOne DEF Hello0, Frame
  <2> QED
    BY <1>1, <2>1, RangeEmpty DEF Greeting
<1>4. w.boot = b /\ w.server
  BY <1>1, <1>2, <1>3 DEF Ends
<1>5. w.up = <<>>
  BY <1>1, <1>4 DEF Greeting
<1>6. v.up = <<>>
  <2>1. v.up \in Seq(UpFrame) /\ Range(v.up) = {}
    BY <1>2, <1>5, RangeEmpty DEF Connection
  <2> QED
    BY <2>1, RangeNone
<1>7. CASE w.down = <<>>
  <2>1. w.cut
    BY <1>1, <1>4, <1>7 DEF Greeting
  <2>2. v.down = <<>> /\ v.cut
    BY <1>1, <1>2, <1>7, <2>1
  <2> QED
    BY <1>6, <2>2 DEF Greeting
<1>8. CASE w.down # <<>>
  <2>1. /\ Head(w.down).type = "pending" /\ NoPending(Tail(w.down))
        /\ About(w, Head(w.down).boot)
    BY <1>4, <1>8 DEF Greeting
  <2>2. Head(w.down).boot = b
    BY <1>1, <1>4, <2>1 DEF About
  <2>3. CASE v.down = w.down
    BY <1>2, <1>4, <1>6, <1>8, <2>1, <2>2, <2>3, RangeEmpty DEF Greeting, About
  <2>4. CASE v.down = w.down \o fs
    <3>1. /\ v.down # <<>> /\ Head(v.down) = Head(w.down) /\ Tail(v.down) = Tail(w.down) \o fs
          /\ Tail(w.down) \in Seq(DownFrame)
      <4> DEFINE d == w.down
      <4>1. d \in Seq(DownFrame) /\ d # <<>>
        BY <1>1, <1>8
      <4> HIDE DEF d
      <4>2. /\ d \o fs # <<>> /\ Head(d \o fs) = Head(d) /\ Tail(d \o fs) = Tail(d) \o fs
            /\ Tail(d) \in Seq(DownFrame)
        BY <4>1, TailOfConcat
      <4>3. w.down = d
        BY DEF d
      <4> QED
        BY <2>4, <4>2, <4>3
    <3>2. /\ Range(Tail(v.down)) = Range(Tail(w.down)) \cup Range(fs)
          /\ Range(v.down) = Range(w.down) \cup Range(fs)
      <4>1. w.down \in Seq(DownFrame) /\ fs \in Seq(DownFrame)
        BY <1>1
      <4>2. Range(w.down \o fs) = Range(w.down) \cup Range(fs)
        BY <4>1, RangeOfConcat
      <4>3. Range(Tail(w.down) \o fs) = Range(Tail(w.down)) \cup Range(fs)
        BY <3>1, <4>1, RangeOfConcat
      <4> QED
        BY <2>4, <3>1, <4>2, <4>3
    <3>3. NoPending(Tail(v.down))
      BY <1>2, <2>1, <3>2 DEF NoPending
    <3>4. About(v, b)
      BY <1>2, <1>4, <1>6, <2>1, <2>2, <3>2, RangeEmpty DEF About
    <3> QED
      BY <1>6, <2>1, <2>2, <3>1, <3>3, <3>4 DEF Greeting
  <2> QED
    BY <1>2, <2>3, <2>4
<1> QED
  BY <1>7, <1>8

\* A reply keeps a connection true, sealed and about its boot.
LEMMA ConnKept ==
  ASSUME Talk, NEW d \in Conns, NEW b \in Boots, NEW fs \in Seq(DownFrame), Reply(d, b, fs),
         BootsMove
  PROVE  /\ (wire'[d].client <=> client.conn = d) /\ Ends(wire'[d])
         /\ \A f \in Range(wire'[d].down) : Told(f, boots') /\ Over(f, boots')
         /\ Sealed(wire'[d].down)
         /\ \A f \in Range(wire'[d].up) :
              f.type = "received" => client.approved = "good" /\ client.bootID = f.boot
<1>1. /\ wire[d] \in Connection /\ wire[d].down \in Seq(DownFrame)
      /\ Served(wire[d], wire'[d], fs) /\ Message(fs)
      /\ \A f \in Range(fs) : Told(f, boots') /\ (wire[d].client => Over(f, boots'))
  BY DEF Talk, WireOK, Connection, Reply, Sent
<1>2. Range(wire[d].down) \subseteq DownFrame
  BY <1>1, RangeOfSeq
<1>3. \A f \in Range(wire[d].down) : Told(f, boots') /\ Over(f, boots')
  BY <1>2, TruthKept DEF Talk, FramesTrue
<1>4. /\ wire'[d].down = wire[d].down
           \/ (wire[d].client /\ Range(wire'[d].down) = Range(wire[d].down) \cup Range(fs))
      /\ Message(fs) /\ Sealed(wire[d].down) => Sealed(wire'[d].down)
  BY <1>1, ServedFrames
<1>5. \A f \in Range(wire'[d].down) : Told(f, boots') /\ Over(f, boots')
  BY <1>1, <1>3, <1>4
<1>6. Sealed(wire'[d].down)
  BY <1>1, <1>4 DEF Talk, ClosesLast
<1>7. (wire'[d].client <=> client.conn = d) /\ Ends(wire'[d])
      /\ Range(wire'[d].up) \subseteq Range(wire[d].up)
  BY <1>1 DEF Served, Talk, WireOK
<1> QED
  BY <1>5, <1>6, <1>7 DEF Talk, ReceivedTrue

\* So does none.
LEMMA RestKept ==
  ASSUME Talk, NEW d \in Conns, wire'[d] = wire[d], BootsMove
  PROVE  /\ (wire'[d].client <=> client.conn = d) /\ Ends(wire'[d])
         /\ \A f \in Range(wire'[d].down) : Told(f, boots') /\ Over(f, boots')
         /\ Sealed(wire'[d].down)
         /\ \A f \in Range(wire'[d].up) :
              f.type = "received" => client.approved = "good" /\ client.bootID = f.boot
<1>1. wire[d] \in Connection /\ wire[d].down \in Seq(DownFrame)
  BY DEF Talk, WireOK, Connection
<1>2. Range(wire[d].down) \subseteq DownFrame
  BY <1>1, RangeOfSeq
<1>3. \A f \in Range(wire[d].down) : Told(f, boots') /\ Over(f, boots')
  BY <1>2, TruthKept DEF Talk, FramesTrue
<1> QED
  BY <1>3 DEF Talk, WireOK, ClosesLast, ReceivedTrue

\* Whatever replies and moves the rows forward keeps Talk.
LEMMA ServerKeepsTalk ==
  ASSUME Talk, ServerStep, UNCHANGED <<client, breaks>>
  PROVE  Talk'
<1>1. BootsMove /\ wire' \in [Conns -> Connection]
      /\ \A d \in Conns :
           wire'[d] = wire[d] \/ \E b \in Boots, fs \in Seq(DownFrame) : Reply(d, b, fs)
  BY DEF ServerStep
<1>2. ASSUME NEW d \in Conns
      PROVE  /\ (wire'[d].client <=> client.conn = d) /\ Ends(wire'[d])
             /\ \A f \in Range(wire'[d].down) : Told(f, boots') /\ Over(f, boots')
             /\ Sealed(wire'[d].down)
             /\ \A f \in Range(wire'[d].up) :
                  f.type = "received" => client.approved = "good" /\ client.bootID = f.boot
  <2>1. CASE wire'[d] = wire[d]
    BY <1>1, <2>1, RestKept
  <2>2. CASE \E b \in Boots, fs \in Seq(DownFrame) : Reply(d, b, fs)
    BY <1>1, <2>2, ConnKept
  <2> QED
    BY <1>1, <2>1, <2>2
<1>3. WireOK' /\ FramesTrue' /\ ClosesLast' /\ ReceivedTrue'
  BY <1>1, <1>2 DEF WireOK, FramesTrue, ClosesLast, ReceivedTrue, Over
<1>4. ClientOK' /\ CountsOK'
  BY DEF ServerStep, Talk, ClientOK, CountsOK
<1>5. BootsOK' /\ Acknowledged' /\ PayloadOnApproval'
  BY <1>1, MovedBoots
<1>6. OneBoot'
  <2> SUFFICES ASSUME client.pc = "read"
               PROVE  IF client.bootID = NULL THEN Greeting(wire'[client.conn])
                      ELSE About(wire'[client.conn], client.bootID) /\ NoPending(wire'[client.conn].down)
    BY DEF OneBoot
  <2> DEFINE c == client.conn
  <2>1. c \in Conns /\ wire[c] \in Connection
    BY DEF Talk, ClientOK, ClientState, WireOK
  <2>2. CASE wire'[c] = wire[c]
    BY <2>2 DEF Talk, OneBoot
  <2>3. ASSUME NEW b \in Boots, NEW fs \in Seq(DownFrame), Reply(c, b, fs)
        PROVE  IF client.bootID = NULL THEN Greeting(wire'[client.conn])
               ELSE About(wire'[client.conn], client.bootID) /\ NoPending(wire'[client.conn].down)
    <3>1. CASE client.bootID = NULL
      BY <2>1, <2>3, <3>1, GreetingKept DEF Talk, OneBoot
    <3>2. CASE client.bootID # NULL
      <4>1. About(wire[c], client.bootID) /\ NoPending(wire[c].down)
        BY <3>2 DEF Talk, OneBoot
      <4>2. /\ Served(wire[c], wire'[c], fs)
            /\ wire[c].boot = b \/ \E f \in Range(wire[c].up) : f.boot = b
            /\ wire'[c].boot \in {NULL, wire[c].boot, b}
            /\ \A f \in Range(fs) : f.boot \in {NULL, b} /\ f.type # "pending"
        BY <2>3 DEF Reply, Sent
      <4>3. b = client.bootID
        BY <4>1, <4>2, WireAssumption DEF About
      <4>4. wire'[c].down = wire[c].down
              \/ Range(wire'[c].down) = Range(wire[c].down) \cup Range(fs)
        BY <2>1, <4>2, ServedFrames
      <4>5. Range(wire'[c].up) \subseteq Range(wire[c].up)
        BY <4>2 DEF Served
      <4>6. NoPending(wire'[c].down)
        BY <4>1, <4>2, <4>4 DEF NoPending
      <4>7. About(wire'[c], client.bootID)
        BY <4>1, <4>2, <4>3, <4>4, <4>5 DEF About
      <4> QED
        BY <3>2, <4>6, <4>7
    <3> QED
      BY <3>1, <3>2
  <2> QED
    BY <1>1, <2>1, <2>2, <2>3
<1> QED
  BY <1>3, <1>4, <1>5, <1>6 DEF Talk

\* So does hello, which is answered on a connection nothing was said on.
LEMMA HelloKeepsTalk ==
  ASSUME Talk, NEW c \in Conns, Hello(c), UNCHANGED <<client, breaks>>
  PROVE  Talk'
<1>1. /\ BootsMove
      /\ wire' \in [Conns -> Connection] /\ \A d \in Conns \ {c} : wire'[d] = wire[d]
      /\ Hello0 \in Range(wire[c].up)
      /\ wire[c].up = <<Hello0>> => wire'[c].up = <<>>
      /\ tokenLive' \in BOOLEAN /\ faults' \in 0 .. MaxFaults
  BY HelloStep
<1> DEFINE Refused == \E fs \in Seq(DownFrame) :
              /\ Sent(c, fs)
              /\ ~wire'[c].server /\ wire'[c].boot = NULL
              /\ fs # <<>> /\ Head(fs).type = "error"
           Silent == Sent(c, <<>>) /\ wire'[c].boot = wire[c].boot /\ wire'[c].server
           Minted(b, fs) == /\ fs \in Seq(DownFrame)
                            /\ Sent(c, fs)
                            /\ wire'[c].boot = b /\ wire'[c].server
                            /\ wire[c].client /\ ~wire[c].cut => wire'[c].down = wire[c].down \o fs
<1>2. Refused \/ Silent \/ \E b \in Boots : Minted(b, <<Frame("pending", b, NULL)>>)
  BY HelloStep
<1>3. PICK fs \in Seq(DownFrame) : Sent(c, fs)
  BY <1>2, NoFrame
<1>4. wire[c] \in Connection /\ Ends(wire[c]) /\ wire[c].down \in Seq(DownFrame)
  BY DEF Talk, WireOK, Connection
<1>5. ASSUME NEW d \in Conns
      PROVE  /\ (wire'[d].client <=> client.conn = d) /\ Ends(wire'[d])
             /\ \A f \in Range(wire'[d].down) : Told(f, boots') /\ Over(f, boots')
             /\ Sealed(wire'[d].down)
             /\ \A f \in Range(wire'[d].up) :
                  f.type = "received" => client.approved = "good" /\ client.bootID = f.boot
  <2>1. CASE d # c
    BY <1>1, <2>1, RestKept
  <2>2. CASE d = c
    <3>1. /\ Served(wire[c], wire'[c], fs) /\ Message(fs)
          /\ \A f \in Range(fs) : Told(f, boots') /\ (wire[c].client => Over(f, boots'))
      BY <1>3 DEF Sent
    <3>2. Range(wire[c].down) \subseteq DownFrame
      BY <1>4, RangeOfSeq
    <3>3. \A f \in Range(wire[c].down) : Told(f, boots') /\ Over(f, boots')
      BY <1>1, <3>2, TruthKept DEF Talk, FramesTrue
    <3>4. /\ wire'[c].down = wire[c].down
               \/ (wire[c].client /\ Range(wire'[c].down) = Range(wire[c].down) \cup Range(fs))
          /\ Message(fs) /\ Sealed(wire[c].down) => Sealed(wire'[c].down)
      BY <1>4, <3>1, ServedFrames
    <3>5. \A f \in Range(wire'[c].down) : Told(f, boots') /\ Over(f, boots')
      BY <3>1, <3>3, <3>4
    <3>6. Sealed(wire'[c].down)
      BY <3>1, <3>4 DEF Talk, ClosesLast
    <3>7. (wire'[c].client <=> client.conn = c) /\ Ends(wire'[c])
          /\ Range(wire'[c].up) \subseteq Range(wire[c].up)
      BY <3>1 DEF Served, Talk, WireOK
    <3> QED
      BY <2>2, <3>5, <3>6, <3>7 DEF Talk, ReceivedTrue
  <2> QED
    BY <2>1, <2>2
<1>6. WireOK' /\ FramesTrue' /\ ClosesLast' /\ ReceivedTrue'
  BY <1>1, <1>5 DEF WireOK, FramesTrue, ClosesLast, ReceivedTrue, Over
<1>7. ClientOK' /\ CountsOK'
  BY <1>1 DEF Talk, ClientOK, CountsOK
<1>8. BootsOK' /\ Acknowledged' /\ PayloadOnApproval'
  BY <1>1, MovedBoots
<1>9. OneBoot'
  <2> SUFFICES ASSUME client.pc = "read"
               PROVE  IF client.bootID = NULL THEN Greeting(wire'[client.conn])
                      ELSE About(wire'[client.conn], client.bootID) /\ NoPending(wire'[client.conn].down)
    BY DEF OneBoot
  <2>1. client.conn \in Conns
    BY DEF Talk, ClientOK, ClientState
  <2>2. CASE client.conn # c
    BY <1>1, <2>1, <2>2 DEF Talk, OneBoot
  <2>3. CASE client.conn = c
    <3>1. client.bootID = NULL
      <4>1. ASSUME About(wire[c], client.bootID) PROVE client.bootID = NULL
        BY <1>1, <4>1 DEF About, Hello0, Frame
      <4> QED
        BY <2>3, <4>1 DEF Talk, OneBoot
    <3>2. Greeting(wire[c])
      BY <2>3, <3>1 DEF Talk, OneBoot
    <3>3. wire[c].up # <<>>
      BY <1>1, RangeEmpty
    <3>4. wire[c].up = <<Hello0>> /\ wire[c].down = <<>> /\ wire[c].boot = NULL /\ wire[c].client
      BY <2>3, <3>2, <3>3 DEF Greeting, Talk, WireOK
    <3>5. wire'[c].up = <<>>
      BY <1>1, <3>4
    <3>6. CASE Refused
      <4>1. PICK gs \in Seq(DownFrame) :
              /\ Sent(c, gs)
              /\ ~wire'[c].server /\ wire'[c].boot = NULL
              /\ gs # <<>> /\ Head(gs).type = "error"
        BY <3>6
      <4>2. wire'[c].down = <<>> \/ wire'[c].down = <<>> \o gs
        BY <3>4, <4>1 DEF Sent, Served
      <4>3. <<>> \o gs = gs
        BY ConcatEmptySeq
      <4> QED
        BY <3>5, <4>1, <4>2, <4>3, <2>3, <3>1 DEF Greeting
    <3>7. CASE Silent
      <4>1. wire'[c].down = <<>> \/ wire'[c].down = <<>> \o <<>>
        BY <3>4, <3>7 DEF Sent, Served
      <4>2. <<>> \o <<>> = <<>>
        BY ConcatEmptySeq, NoFrame
      <4> QED
        BY <3>1, <3>4, <3>5, <3>7, <4>1, <4>2, <2>3 DEF Greeting
    <3>8. ASSUME NEW b \in Boots, Minted(b, <<Frame("pending", b, NULL)>>)
          PROVE  Greeting(wire'[c])
      <4> DEFINE gs == <<Frame("pending", b, NULL)>>
      <4>1. /\ gs \in Seq(DownFrame) /\ Sent(c, gs)
            /\ wire'[c].boot = b /\ wire'[c].server
            /\ wire[c].client /\ ~wire[c].cut => wire'[c].down = wire[c].down \o gs
        BY <3>8
      <4>2. <<>> \o gs = gs
        BY <4>1, ConcatEmptySeq
      <4>3. gs # <<>> /\ Head(gs) = Frame("pending", b, NULL) /\ Tail(gs) = <<>>
            /\ Range(gs) = {Frame("pending", b, NULL)}
        BY RangeOne
      <4> HIDE DEF gs
      <4>4. CASE wire[c].cut
        <5>1. wire'[c].down = <<>> /\ wire'[c].cut
          BY <3>4, <4>1, <4>4 DEF Sent, Served
        <5> QED
          BY <3>5, <5>1 DEF Greeting
      <4>5. CASE ~wire[c].cut
        <5>1. wire'[c].down = gs
          BY <3>4, <4>1, <4>2, <4>5
        <5>2. About(wire'[c], b)
          BY <3>5, <4>1, <4>3, <5>1, RangeEmpty DEF About, Frame
        <5>3. NoPending(Tail(wire'[c].down))
          BY <4>3, <5>1, RangeEmpty DEF NoPending
        <5>4. Head(wire'[c].down).type = "pending" /\ Head(wire'[c].down).boot = b /\ wire'[c].down # <<>>
          BY <4>3, <5>1 DEF Frame
        <5> QED
          BY <3>5, <5>2, <5>3, <5>4 DEF Greeting
      <4> QED
        BY <4>4, <4>5
    <3> HIDE DEF Refused, Silent, Minted
    <3> QED
      BY <1>2, <2>3, <3>1, <3>6, <3>7, <3>8
  <2> QED
    BY <2>2, <2>3
<1> QED
  BY <1>6, <1>7, <1>8, <1>9 DEF Talk

-----------------------------------------------------------------------------
(* The client keeps Talk *)

\* A client that leaves drops what it did not read.
LEMMA LeavingClient ==
  ASSUME NEW w \in Connection, Ends(w)
  PROVE  LET v == ClientLeaves(w)
         IN  /\ v \in Connection /\ Ends(v) /\ ~v.client /\ v.down = <<>>
             /\ Range(v.up) \subseteq Range(w.up)
             /\ ~w.server => v = Free
<1> DEFINE t == [w EXCEPT !.client = FALSE, !.down = <<>>]
<1>1. /\ t \in Connection /\ ~t.client /\ t.down = <<>> /\ t.up = w.up /\ t.server = w.server
      /\ t.boot = w.boot
  <2>1. <<>> \in Seq(DownFrame)
    OBVIOUS
  <2> QED
    BY <2>1 DEF Connection
<1>2. ClientLeaves(w) = IF w.server THEN t ELSE Free
  BY <1>1 DEF ClientLeaves, Tidy
<1> HIDE DEF t
<1>3. CASE w.server
  BY <1>1, <1>2, <1>3 DEF Ends
<1>4. CASE ~w.server
  <2>1. ~Free.client /\ Free.down = <<>> /\ Free.up = <<>>
    BY DEF Free
  <2> QED
    BY <1>2, <1>4, <2>1, FreeConnection, RangeEmpty
<1> QED
  BY <1>3, <1>4

\* Connections the client has no end of deliver nothing to it.
LEMMA BareConnection ==
  ASSUME Talk, NEW c \in Conns, client.conn # c
  PROVE  wire[c] \in Connection /\ Ends(wire[c]) /\ ~wire[c].client /\ wire[c].down = <<>>
BY DEF Talk, WireOK, Ends

\* Nothing is sealed.
LEMMA EmptySealed == Sealed(<<>>)
BY DEF Sealed

\* The client leaves its connection, if it has one.
LEMMA LeaveKeepsTalk ==
  ASSUME Talk, UNCHANGED <<boots, tokenLive, faults, breaks>>,
         \/ client.conn = NULL /\ wire' = wire
         \/ client.conn # NULL /\ wire' = [wire EXCEPT ![client.conn] = ClientLeaves(@)],
         client' \in ClientState, client'.conn = NULL,
         client'.pc \in {"dial", "launch", "started", "exited"},
         client'.bootID = client.bootID,
         client'.approved \in {client.approved, "good"},
         client'.approved = "good" =>
           client.bootID # NULL /\ boots[client.bootID].payload = "good",
         client'.pc \in {"launch", "started"} =>
           client.bootID # NULL /\ boots[client.bootID].status = "CONSUMED"
  PROVE  Talk'
<1>1. /\ client.conn \in Conns \cup {NULL} /\ wire \in [Conns -> Connection]
      /\ client.bootID \in Boots \cup {NULL}
  BY DEF Talk, ClientOK, ClientState, WireOK
<1>2. ASSUME NEW c \in Conns
      PROVE  /\ wire'[c] \in Connection /\ Ends(wire'[c]) /\ ~wire'[c].client /\ wire'[c].down = <<>>
             /\ Range(wire'[c].up) \subseteq Range(wire[c].up)
  <2>1. CASE client.conn # c
    <3>1. wire'[c] = wire[c]
      BY <1>1, <2>1
    <3> QED
      BY <2>1, <3>1, BareConnection
  <2>2. CASE client.conn = c
    <3>1. c # NULL /\ wire[c] \in Connection /\ Ends(wire[c])
      BY WireAssumption DEF Talk, WireOK
    <3>2. wire'[c] = ClientLeaves(wire[c])
      BY <1>1, <2>2, <3>1
    <3> QED
      BY <3>1, <3>2, LeavingClient
  <2> QED
    BY <2>1, <2>2
<1>3. wire' \in [Conns -> Connection]
  BY <1>1, <1>2, LeavingClient
<1>4. \A c \in Conns : client'.conn # c
  BY WireAssumption
<1>5. WireOK'
  BY <1>2, <1>3, <1>4 DEF WireOK
<1>6. FramesTrue' /\ ClosesLast'
  BY <1>2, RangeEmpty, EmptySealed DEF FramesTrue, ClosesLast
<1>7. ReceivedTrue'
  BY <1>2 DEF ReceivedTrue, Talk
<1>8. ClientOK'
  BY DEF ClientOK, Talk
<1>9. OneBoot'
  BY DEF OneBoot
<1>10. BootsOK' /\ CountsOK' /\ PayloadOnApproval'
  BY DEF Talk, BootsOK, CountsOK, PayloadOnApproval
<1>11. Acknowledged'
  BY DEF Talk, Acknowledged
<1> QED
  BY <1>5, <1>6, <1>7, <1>8, <1>9, <1>10, <1>11 DEF Talk

\* What is known of the next frame: it is true, it is no close, it is about the boot
\* of the client or tells the first one, and behind it everything is as before.
LEMMA HeadFrame ==
  ASSUME Talk, client.pc = "read", wire[client.conn].down # <<>>
  PROVE  LET h == Head1
             w == wire[client.conn]
         IN  /\ client.conn \in Conns /\ client.conn # NULL
             /\ w \in Connection /\ Ends(w) /\ w.client
             /\ w.down \in Seq(DownFrame) /\ Tail(w.down) \in Seq(DownFrame)
             /\ Range(Tail(w.down)) \subseteq Range(w.down)
             /\ h \in DownFrame /\ h.type # "close"
             /\ h.type \notin Last => Sealed(Tail(w.down))
             /\ Told(h, boots) /\ Over(h, boots)
             /\ client.bootID \in Boots \cup {NULL}
             /\ client.bootID = NULL => \/ h.type = "error"
                                        \/ /\ h.type = "pending" /\ w.up = <<>>
                                           /\ NoPending(Tail(w.down)) /\ About(w, h.boot)
             /\ client.bootID # NULL => /\ h.type # "pending" /\ h.boot \in {NULL, client.bootID}
                                        /\ About(w, client.bootID) /\ NoPending(w.down)
<1> DEFINE c == client.conn
           w == wire[c]
           h == Head1
<1>1. /\ c \in Conns /\ c # NULL /\ w \in Connection /\ Ends(w) /\ w.client
      /\ w.down \in Seq(DownFrame) /\ client.bootID \in Boots \cup {NULL}
  BY DEF Talk, ClientOK, ClientState, WireOK, Connection
<1>2. /\ h = Head(w.down) /\ h \in Range(w.down) /\ h \in DownFrame
      /\ Tail(w.down) \in Seq(DownFrame) /\ Range(Tail(w.down)) \subseteq Range(w.down)
  BY <1>1, RangeHead DEF Head1
<1>3. h.type # "close" /\ (h.type \notin Last => Sealed(Tail(w.down)))
  BY <1>1, <1>2, SealedHead DEF Talk, ClosesLast
<1>4. Told(h, boots) /\ Over(h, boots)
  BY <1>1, <1>2 DEF Talk, FramesTrue
<1>5. client.bootID = NULL => \/ h.type = "error"
                              \/ /\ h.type = "pending" /\ w.up = <<>>
                                 /\ NoPending(Tail(w.down)) /\ About(w, h.boot)
  BY <1>2 DEF Talk, OneBoot, Greeting
<1>6. client.bootID # NULL => /\ h.type # "pending" /\ h.boot \in {NULL, client.bootID}
                              /\ About(w, client.bootID) /\ NoPending(w.down)
  BY <1>2 DEF Talk, OneBoot, About, NoPending
<1> QED
  BY <1>1, <1>2, <1>3, <1>4, <1>5, <1>6

\* The client takes a frame off, and may answer it.
LEMMA ReadKeepsTalk ==
  ASSUME Talk, UNCHANGED <<boots, tokenLive, faults, breaks>>,
         client.pc = "read", wire[client.conn].down # <<>>, Head1.type \notin Last,
         client' \in ClientState, client'.pc = "read", client'.conn = client.conn,
         client'.bootID # NULL,
         IF client.bootID # NULL THEN client'.bootID = client.bootID
         ELSE /\ Head1.type = "pending" /\ client'.bootID = Head1.boot
              /\ client'.approved = client.approved,
         client'.approved \in {client.approved, "good"},
         client'.approved = "good" => boots[client'.bootID].payload = "good",
         NEW v \in Connection, wire' = [wire EXCEPT ![client.conn] = v],
         v.client, v.server = wire[client.conn].server, v.cut = wire[client.conn].cut,
         v.boot = wire[client.conn].boot, v.down = Tail(wire[client.conn].down),
         ~v.server => v.up = <<>>,
         \A f \in Range(v.up) :
           \/ f \in Range(wire[client.conn].up)
           \/ /\ client.bootID # NULL /\ f.boot = client.bootID
              /\ f.type = "received" => client'.approved = "good"
  PROVE  Talk'
<1> DEFINE c == client.conn
           w == wire[c]
           h == Head1
<1>1. /\ c \in Conns /\ w \in Connection /\ Ends(w)
      /\ Range(Tail(w.down)) \subseteq Range(w.down)
      /\ Sealed(Tail(w.down)) /\ client.bootID \in Boots \cup {NULL}
      /\ client.bootID = NULL => /\ w.up = <<>>
                                 /\ NoPending(Tail(w.down)) /\ About(w, h.boot)
      /\ client.bootID # NULL => About(w, client.bootID) /\ NoPending(w.down)
  <2>1. h.type # "error"
    BY DEF Last
  <2> QED
    BY <2>1, HeadFrame
<1>2. wire' \in [Conns -> Connection] /\ wire'[c] = v /\ \A d \in Conns \ {c} : wire'[d] = wire[d]
  BY <1>1 DEF Talk, WireOK
<1>3. \A d \in Conns \ {c} : Ends(wire'[d]) /\ ~wire'[d].client /\ wire'[d].down = <<>>
  BY <1>2, BareConnection
<1>4. Ends(v)
  BY <1>1 DEF Ends
<1>5. WireOK'
  BY <1>1, <1>2, <1>3, <1>4 DEF WireOK
<1>6. \A f \in Range(w.down) : Told(f, boots) /\ Over(f, boots)
  BY <1>1 DEF Talk, FramesTrue
<1>7. \A f \in Range(w.down) : Told(f, boots) /\ Over(f, boots)'
  BY <1>6 DEF Over
<1>8. FramesTrue' /\ ClosesLast'
  <2>1. ASSUME NEW d \in Conns
        PROVE  Sealed(wire'[d].down) /\ \A f \in Range(wire'[d].down) : Told(f, boots) /\ Over(f, boots)'
    <3>1. CASE d = c
      BY <1>1, <1>2, <1>7, <3>1
    <3>2. CASE d # c
      BY <1>3, <3>2, RangeEmpty, EmptySealed
    <3> QED
      BY <3>1, <3>2
  <2> QED
    BY <2>1 DEF FramesTrue, ClosesLast, Told
<1>9. ReceivedTrue'
  <2>1. ASSUME NEW d \in Conns, NEW f \in Range(wire'[d].up), f.type = "received"
        PROVE  client'.approved = "good" /\ client'.bootID = f.boot
    <3>1. CASE f \in Range(wire[d].up)
      <4>1. client.approved = "good" /\ client.bootID = f.boot /\ client.bootID # NULL
        BY <2>1, <3>1 DEF Talk, ReceivedTrue, ClientOK
      <4> QED
        BY <4>1
    <3>2. CASE f \notin Range(wire[d].up)
      <4>1. d = c
        BY <1>2, <2>1, <3>2
      <4> QED
        BY <1>2, <2>1, <3>2, <4>1
    <3> QED
      BY <3>1, <3>2
  <2> QED
    BY <2>1 DEF ReceivedTrue
<1>10. OneBoot'
  <2>1. ASSUME client.bootID # NULL PROVE About(v, client'.bootID) /\ NoPending(v.down)
    BY <1>1, <2>1 DEF About, NoPending
  <2>2. ASSUME client.bootID = NULL PROVE About(v, client'.bootID) /\ NoPending(v.down)
    <3>1. v.up = <<>>
      <4>1. Range(v.up) = {} /\ v.up \in Seq(UpFrame)
        BY <1>1, <2>2, RangeEmpty DEF Connection
      <4> QED
        BY <4>1, RangeNone
    <3> QED
      BY <1>1, <2>2, <3>1, RangeEmpty DEF About
  <2> QED
    BY <1>2, <2>1, <2>2 DEF OneBoot
<1>11. ClientOK'
  BY <1>1 DEF ClientOK, Talk
<1>12. BootsOK' /\ CountsOK' /\ PayloadOnApproval'
  BY DEF Talk, BootsOK, CountsOK, PayloadOnApproval
<1>13. Acknowledged'
  BY DEF Talk, Acknowledged, ClientOK
<1> QED
  BY <1>5, <1>8, <1>9, <1>10, <1>11, <1>12, <1>13 DEF Talk

\* Exit keeps Talk.
LEMMA ExitKeepsTalk ==
  ASSUME Talk, NEW reason \in Reasons, Exit(reason), UNCHANGED <<boots, tokenLive, faults, breaks>>
  PROVE  Talk'
<1>1. client' = [client EXCEPT !.pc = "exited", !.reason = reason, !.conn = NULL]
      /\ client \in ClientState
  BY DEF Exit, Talk, ClientOK
<1>2. /\ client' \in ClientState /\ client'.conn = NULL /\ client'.pc = "exited"
      /\ client'.bootID = client.bootID /\ client'.approved = client.approved
  BY <1>1 DEF ClientState
<1>3. \/ client.conn = NULL /\ wire' = wire
      \/ client.conn # NULL /\ wire' = [wire EXCEPT ![client.conn] = ClientLeaves(@)]
  BY DEF Exit
<1>4. client.approved = "good" => client.bootID # NULL /\ boots[client.bootID].payload = "good"
  BY DEF Talk, ClientOK, Acknowledged
<1> QED
  BY <1>2, <1>3, <1>4, LeaveKeepsTalk

\* Dialling again keeps it.
LEMMA RetryKeepsTalk ==
  ASSUME Talk, client.pc = "read", NEW s \in ClientState, Retry(s),
         UNCHANGED <<boots, tokenLive, faults, breaks>>,
         s.bootID = client.bootID, s.approved \in {client.approved, "good"},
         s.approved = "good" =>
           client.bootID # NULL /\ boots[client.bootID].payload = "good"
  PROVE  Talk'
<1>1. /\ client' = [s EXCEPT !.pc = "dial", !.conn = NULL]
      /\ wire' = [wire EXCEPT ![client.conn] = ClientLeaves(@)]
      /\ client.conn # NULL
  BY DEF Retry, Talk, ClientOK
<1>2. /\ client' \in ClientState /\ client'.conn = NULL /\ client'.pc = "dial"
      /\ client'.bootID = client.bootID /\ client'.approved = s.approved
  BY <1>1 DEF ClientState
<1> QED
  BY <1>1, <1>2, LeaveKeepsTalk

\* Finishing keeps it, where the boot is consumed.
LEMMA FinishKeepsTalk ==
  ASSUME Talk, client.pc = "read", Finish, UNCHANGED <<boots, tokenLive, faults, breaks>>,
         client.bootID # NULL, boots[client.bootID].status = "CONSUMED"
  PROVE  Talk'
<1>1. /\ client' = [client EXCEPT !.pc = "launch", !.conn = NULL]
      /\ wire' = [wire EXCEPT ![client.conn] = ClientLeaves(@)]
      /\ client.conn # NULL /\ client \in ClientState
  BY DEF Finish, Talk, ClientOK
<1>2. /\ client' \in ClientState /\ client'.conn = NULL /\ client'.pc = "launch"
      /\ client'.bootID = client.bootID /\ client'.approved = client.approved
  BY <1>1 DEF ClientState
<1>3. client.approved = "good" => boots[client.bootID].payload = "good"
  BY DEF Talk, Acknowledged
<1> QED
  BY <1>1, <1>2, <1>3, LeaveKeepsTalk

\* The connection after a frame was read, and after it was answered.
LEMMA TakenFacts ==
  ASSUME Talk, client.pc = "read", wire[client.conn].down # <<>>
  PROVE  LET w == wire[client.conn]
         IN  /\ Taken \in Connection /\ Taken.client /\ Taken.server = w.server
             /\ Taken.cut = w.cut /\ Taken.boot = w.boot /\ Taken.down = Tail(w.down)
             /\ Taken.up = w.up /\ (~w.server => w.up = <<>>)
             /\ \A f \in UpFrame :
                  LET v == Up(Taken, f)
                  IN  /\ v \in Connection /\ v.client /\ v.server = w.server /\ v.cut = w.cut
                      /\ v.boot = w.boot /\ v.down = Tail(w.down) /\ (~v.server => v.up = <<>>)
                      /\ Range(v.up) \subseteq Range(w.up) \cup {f}
                      /\ w.server /\ ~w.cut => v.up = Append(w.up, f)
<1> DEFINE w == wire[client.conn]
<1>1. /\ w \in Connection /\ Ends(w) /\ w.client /\ Tail(w.down) \in Seq(DownFrame)
      /\ w.up \in Seq(UpFrame)
  BY HeadFrame DEF Connection
<1>2. /\ Taken \in Connection /\ Taken.client /\ Taken.server = w.server
      /\ Taken.cut = w.cut /\ Taken.boot = w.boot /\ Taken.down = Tail(w.down)
      /\ Taken.up = w.up
  BY <1>1 DEF Taken, Connection
<1>3. ~w.server => w.up = <<>>
  BY <1>1 DEF Ends
<1>4. ASSUME NEW f \in UpFrame
      PROVE  LET v == Up(Taken, f)
             IN  /\ v \in Connection /\ v.client /\ v.server = w.server /\ v.cut = w.cut
                 /\ v.boot = w.boot /\ v.down = Tail(w.down) /\ (~v.server => v.up = <<>>)
                 /\ Range(v.up) \subseteq Range(w.up) \cup {f}
                 /\ w.server /\ ~w.cut => v.up = Append(w.up, f)
  <2>1. Append(w.up, f) \in Seq(UpFrame) /\ Range(Append(w.up, f)) = Range(w.up) \cup {f}
    BY <1>1, RangeOfAppend
  <2> HIDE DEF w
  <2> QED
    BY <1>2, <1>3, <2>1 DEF Up, Connection
<1> QED
  BY <1>2, <1>3, <1>4

\* The client hears of its boot once.
LEMMA PendingKeepsTalk ==
  ASSUME Talk, Pending, UNCHANGED <<boots, tokenLive, faults, breaks>>
  PROVE  Talk' /\ client.bootID = NULL /\ client' = [client EXCEPT !.bootID = Head1.boot]
         /\ client'.bootID \in Boots
<1>1. /\ client.pc = "read" /\ wire[client.conn].down # <<>> /\ Head1.type = "pending"
      /\ client' = [client EXCEPT !.bootID = Head1.boot]
      /\ wire' = [wire EXCEPT ![client.conn] = Taken] /\ client \in ClientState
  BY DEF Pending, Reads, Continue, Talk, ClientOK
<1>2. Head1 \in DownFrame /\ client.bootID = NULL
  BY <1>1, HeadFrame
<1>3. Head1.boot \in Boots /\ Head1.boot # NULL
  BY <1>1, <1>2, WireAssumption DEF DownFrame
<1>4. /\ client' \in ClientState /\ client'.pc = "read" /\ client'.conn = client.conn
      /\ client'.bootID = Head1.boot /\ client'.approved = client.approved
  BY <1>1, <1>3 DEF ClientState
<1>5. client.approved # "good"
  BY <1>2 DEF Talk, ClientOK
<1>6. Head1.type \notin Last
  BY <1>1 DEF Last
<1> QED
  BY <1>1, <1>2, <1>3, <1>4, <1>5, <1>6, TakenFacts, ReadKeepsTalk

\* It answers every challenge for that boot: no other one reaches it.
LEMMA ChallengeKeepsTalk ==
  ASSUME Talk, Challenge, UNCHANGED <<boots, tokenLive, faults, breaks>>
  PROVE  Talk' /\ client' = client
<1>1. /\ client.pc = "read" /\ wire[client.conn].down # <<>> /\ Head1.type = "challenge"
      /\ client \in ClientState
  BY DEF Challenge, Reads, Talk, ClientOK
<1>2. Head1 \in DownFrame /\ client.bootID # NULL /\ Head1.boot \in {NULL, client.bootID}
      /\ client.bootID \in Boots
  BY <1>1, HeadFrame
<1>3. Head1.boot = client.bootID /\ Head1.arg \in Conns
  BY <1>1, <1>2, WireAssumption DEF DownFrame
<1> DEFINE f == Frame("proof", Head1.boot, Head1.arg)
<1>4. f \in UpFrame /\ f.type = "proof" /\ f.boot = client.bootID
  BY <1>2, <1>3 DEF UpFrame, Frame
<1>5. client' = [client EXCEPT !.bootID = Head1.boot]
      /\ wire' = [wire EXCEPT ![client.conn] = Up(Taken, f)]
  BY <1>3 DEF Challenge, Answer
<1>6. client' = client
  BY <1>1, <1>3, <1>5 DEF ClientState
<1>7. Head1.type \notin Last
  BY <1>1 DEF Last
<1>8. client.approved = "good" => boots[client.bootID].payload = "good"
  BY DEF Talk, Acknowledged
<1> DEFINE v == Up(Taken, f)
<1>9. /\ v \in Connection /\ v.client /\ v.server = wire[client.conn].server
      /\ v.cut = wire[client.conn].cut
      /\ v.boot = wire[client.conn].boot /\ v.down = Tail(wire[client.conn].down)
      /\ (~v.server => v.up = <<>>)
      /\ Range(v.up) \subseteq Range(wire[client.conn].up) \cup {f}
  BY <1>1, <1>4, TakenFacts
<1> HIDE DEF f, v
<1>10. \A g \in Range(v.up) :
         \/ g \in Range(wire[client.conn].up)
         \/ /\ client.bootID # NULL /\ g.boot = client.bootID
            /\ g.type = "received" => client'.approved = "good"
  BY <1>2, <1>4, <1>9
<1>11. wire' = [wire EXCEPT ![client.conn] = v]
  BY <1>5 DEF v
<1> QED
  BY <1>1, <1>2, <1>6, <1>7, <1>8, <1>9, <1>10, <1>11, ReadKeepsTalk

\* It is never told that its boot resumed as consumed: the object answers a resume of
\* a boot that ended before it challenges, and checks again before it attaches.
LEMMA ResumedKeepsTalk ==
  ASSUME Talk, Resumed, UNCHANGED <<boots, tokenLive, faults, breaks>>
  PROVE  Talk' /\ client' = client
<1>1. /\ client.pc = "read" /\ wire[client.conn].down # <<>> /\ Head1.type = "resumed"
      /\ client \in ClientState
  BY DEF Resumed, Reads, Talk, ClientOK
<1>2. Head1 \in DownFrame /\ client.bootID # NULL
  BY <1>1, HeadFrame
<1>3. Head1.arg # "CONSUMED"
  BY <1>1, <1>2 DEF DownFrame, Live, NoStatus
<1>4. client' = client /\ wire' = [wire EXCEPT ![client.conn] = Taken]
  BY <1>3 DEF Resumed, Continue
<1>5. Head1.type \notin Last
  BY <1>1 DEF Last
<1>6. client.approved = "good" => boots[client.bootID].payload = "good"
  BY DEF Talk, Acknowledged
<1> QED
  BY <1>1, <1>2, <1>4, <1>5, <1>6, TakenFacts, ReadKeepsTalk

\* The payload it is sent is the one that was approved, so the pins of handleApproved
\* never refuse it; only its content can.
LEMMA ApprovedFacts ==
  ASSUME Talk, Approved
  PROVE  /\ client.pc = "read" /\ wire[client.conn].down # <<>> /\ Head1.type = "approved"
         /\ client.bootID \in Boots /\ client.bootID # NULL /\ Head1.boot = client.bootID
         /\ Head1.arg \in Kinds /\ boots[client.bootID].payload = Head1.arg
         /\ Accepts(client, Head1) <=> Head1.arg = "good"
         /\ ~Accepts(client, Head1) =>
              Refusal(client, Head1) = IF Head1.arg = "incomplete" THEN "config" ELSE "protocol"
<1>1. client.pc = "read" /\ wire[client.conn].down # <<>> /\ Head1.type = "approved"
  BY DEF Approved, Reads
<1>2. /\ Head1 \in DownFrame /\ client.bootID # NULL /\ Head1.boot \in {NULL, client.bootID}
      /\ client.bootID \in Boots /\ Told(Head1, boots)
  BY <1>1, HeadFrame
<1>3. Head1.boot = client.bootID /\ Head1.arg \in Kinds
  BY <1>1, <1>2, WireAssumption DEF DownFrame
<1>4. boots[client.bootID].payload = Head1.arg
  BY <1>1, <1>2, <1>3 DEF Told
<1>5. client.approved = "good" => Head1.arg = "good"
  BY <1>4 DEF Talk, Acknowledged
<1>6. client.approved \in {NULL, "good"}
  BY DEF Talk, ClientOK
<1>7. client.approved \in {NULL, Head1.arg}
  BY <1>5, <1>6
<1> QED
  BY <1>1, <1>2, <1>3, <1>4, <1>7 DEF Accepts, Refusal

\* An acknowledgement is of the payload that is approved.
LEMMA ApprovedKeepsTalk ==
  ASSUME Talk, Approved, UNCHANGED <<boots, tokenLive, faults, breaks>>
  PROVE  Talk'
<1>1. /\ client.pc = "read" /\ wire[client.conn].down # <<>> /\ Head1.type = "approved"
      /\ client.bootID \in Boots /\ client.bootID # NULL /\ Head1.boot = client.bootID
      /\ Head1.arg \in Kinds /\ boots[client.bootID].payload = Head1.arg
      /\ client \in ClientState
  BY ApprovedFacts DEF Talk, ClientOK
<1>2. CASE ~Accepts(client, Head1)
  <2>1. Exit(Refusal(client, Head1))
    BY <1>2 DEF Approved
  <2>2. Refusal(client, Head1) \in Reasons
    BY DEF Refusal, Reasons
  <2> QED
    BY <2>1, <2>2, ExitKeepsTalk
<1>3. CASE Accepts(client, Head1)
  <2> DEFINE open == [client EXCEPT !.bootID = Head1.boot, !.approved = Head1.arg]
             f == Frame("received", Head1.boot, Head1.arg)
  <2>1. Head1.arg = "good"
    BY <1>3, ApprovedFacts
  <2>2. /\ open \in ClientState /\ open.bootID = client.bootID /\ open.approved = "good"
        /\ open.pc = "read" /\ open.conn = client.conn
    BY <1>1, <2>1 DEF ClientState, Payloads
  <2>3. \/ Answer([open EXCEPT !.acked = TRUE], f)
        \/ Retry(open)
    BY <1>3 DEF Approved
  <2>4. CASE Retry(open)
    BY <1>1, <2>1, <2>2, <2>4, RetryKeepsTalk
  <2>5. CASE Answer([open EXCEPT !.acked = TRUE], f)
    <3> DEFINE v == Up(Taken, f)
               acked == [open EXCEPT !.acked = TRUE]
    <3>1. f \in UpFrame /\ f.type = "received" /\ f.boot = client.bootID
      BY <1>1, <2>1 DEF UpFrame, Frame
    <3>2. /\ acked \in ClientState /\ acked.bootID = client.bootID /\ acked.approved = "good"
          /\ acked.pc = "read" /\ acked.conn = client.conn
      BY <2>2 DEF ClientState
    <3>3. client' = acked /\ wire' = [wire EXCEPT ![client.conn] = v]
      BY <2>5 DEF Answer
    <3>4. /\ v \in Connection /\ v.client /\ v.server = wire[client.conn].server
          /\ v.cut = wire[client.conn].cut
          /\ v.boot = wire[client.conn].boot /\ v.down = Tail(wire[client.conn].down)
          /\ (~v.server => v.up = <<>>)
          /\ Range(v.up) \subseteq Range(wire[client.conn].up) \cup {f}
      BY <1>1, <3>1, TakenFacts
    <3> HIDE DEF v, f, acked, open
    <3>5. \A g \in Range(v.up) :
            \/ g \in Range(wire[client.conn].up)
            \/ /\ client.bootID # NULL /\ g.boot = client.bootID
               /\ g.type = "received" => client'.approved = "good"
      BY <1>1, <3>1, <3>2, <3>3, <3>4
    <3>6. Head1.type \notin Last
      BY <1>1 DEF Last
    <3> QED
      BY <1>1, <2>1, <3>2, <3>3, <3>4, <3>5, <3>6, ReadKeepsTalk
  <2> QED
    BY <2>3, <2>4, <2>5
<1> QED
  BY <1>2, <1>3

\* The client finishes when its boot is consumed.
LEMMA ConsumedKeepsTalk ==
  ASSUME Talk, Consumed, UNCHANGED <<boots, tokenLive, faults, breaks>>
  PROVE  Talk' /\ client.bootID # NULL /\ boots[client.bootID].status = "CONSUMED"
<1>1. client.pc = "read" /\ wire[client.conn].down # <<>> /\ Head1.type = "consumed" /\ Finish
  BY DEF Consumed, Reads
<1>2. /\ Head1 \in DownFrame /\ client.bootID # NULL /\ Head1.boot \in {NULL, client.bootID}
      /\ Told(Head1, boots)
  BY <1>1, HeadFrame
<1>3. Head1.boot = client.bootID
  BY <1>1, <1>2, WireAssumption DEF DownFrame
<1>4. boots[client.bootID].status = "CONSUMED"
  BY <1>1, <1>2, <1>3 DEF Told
<1> QED
  BY <1>1, <1>2, <1>4, FinishKeepsTalk

\* A close is never what it reads next.
LEMMA ClosedNever ==
  ASSUME Talk
  PROVE  ~Closed
BY HeadFrame DEF Closed, Reads

\* A refusal keeps Talk.
LEMMA ErrorKeepsTalk ==
  ASSUME Talk, Error, UNCHANGED <<boots, tokenLive, faults, breaks>>
  PROVE  Talk'
<1>1. client.pc = "read" /\ client \in ClientState
  BY DEF Error, Reads, Talk, ClientOK
<1>2. Retry(client) \/ Exit("expired") \/ Exit("protocol")
  BY DEF Error
<1>3. client.approved = "good" => client.bootID # NULL /\ boots[client.bootID].payload = "good"
  BY DEF Talk, ClientOK, Acknowledged
<1> QED
  BY <1>1, <1>2, <1>3, RetryKeepsTalk, ExitKeepsTalk DEF Reasons

\* A lost connection keeps it.
LEMMA LostKeepsTalk ==
  ASSUME Talk, Lost, UNCHANGED <<boots, tokenLive, faults, breaks>>
  PROVE  Talk'
<1>1. client.pc = "read" /\ client \in ClientState /\ Retry(client)
  BY DEF Lost, Talk, ClientOK
<1>2. client.approved = "good" => client.bootID # NULL /\ boots[client.bootID].payload = "good"
  BY DEF Talk, ClientOK, Acknowledged
<1> QED
  BY <1>1, <1>2, RetryKeepsTalk

\* So does the launch.
LEMMA LaunchKeepsTalk ==
  ASSUME Talk, Launch, UNCHANGED <<boots, tokenLive, faults, breaks>>
  PROVE  Talk'
<1>1. PICK reason \in {NULL, "config", "protocol"} :
        client' = [client EXCEPT !.pc = IF reason = NULL THEN "started" ELSE "exited",
                                 !.reason = reason]
  BY DEF Launch
<1>2. client \in ClientState /\ client.pc = "launch" /\ client.conn = NULL /\ wire' = wire
  BY DEF Launch, Talk, ClientOK
<1>3. /\ client' \in ClientState /\ client'.conn = NULL /\ client'.pc \in {"started", "exited"}
      /\ client'.bootID = client.bootID /\ client'.approved = client.approved
  BY <1>1, <1>2 DEF ClientState, Reasons
<1>4. /\ client.approved = "good" => client.bootID # NULL /\ boots[client.bootID].payload = "good"
      /\ client.bootID # NULL /\ boots[client.bootID].status = "CONSUMED"
  BY <1>2 DEF Talk, ClientOK, Acknowledged
<1> QED
  BY <1>2, <1>3, <1>4, LeaveKeepsTalk

\* So does whatever the client reads.
LEMMA ReadStepKeepsTalk ==
  ASSUME Talk, Read, UNCHANGED <<boots, tokenLive, faults>>
  PROVE  Talk'
<1>1. UNCHANGED breaks
  BY DEF Read
<1>2. CASE Declined \/ Expired \/ Canceled
  BY <1>1, <1>2, ExitKeepsTalk DEF Declined, Expired, Canceled, Reasons
<1> QED
  BY <1>1, <1>2, PendingKeepsTalk, ChallengeKeepsTalk, ResumedKeepsTalk, ApprovedKeepsTalk,
     ConsumedKeepsTalk, ErrorKeepsTalk, ClosedNever, LostKeepsTalk DEF Read

\* So does a dial that gets through.
LEMMA DialKeepsTalk ==
  ASSUME Talk, client.pc = "dial", NEW c \in Conns, wire[c] = Free,
         wire' = [wire EXCEPT ![c] = Opened(Handshake)],
         client' = [client EXCEPT !.pc = "read", !.conn = c],
         UNCHANGED <<boots, tokenLive, faults, breaks>>
  PROVE  Talk'
<1> DEFINE v == Opened(Handshake)
<1>1. /\ wire \in [Conns -> Connection] /\ client \in ClientState /\ client.conn = NULL
      /\ client.bootID \in Boots \cup {NULL}
  BY DEF Talk, WireOK, ClientOK, ClientState
<1>2. /\ Handshake \in UpFrame /\ Handshake.type \in {"hello", "resume"}
      /\ client.bootID = NULL => Handshake = Hello0
      /\ client.bootID # NULL => Handshake.boot = client.bootID
  BY <1>1 DEF Handshake, Hello0, Frame, UpFrame
<1>3. /\ v \in Connection /\ v.client /\ v.server /\ ~v.cut /\ v.up = <<Handshake>>
      /\ v.down = <<>> /\ v.boot = NULL
  <2>1. <<Handshake>> \in Seq(UpFrame) /\ <<>> \in Seq(DownFrame)
    BY <1>2
  <2> QED
    BY <2>1 DEF Opened, Connection
<1>4. Range(v.up) = {Handshake} /\ Range(v.down) = {}
  BY <1>3, RangeOne, RangeEmpty
<1> HIDE DEF v
<1>5. /\ wire' \in [Conns -> Connection] /\ wire'[c] = v
      /\ \A d \in Conns \ {c} : wire'[d] = wire[d]
  BY <1>1, <1>3 DEF v
<1>6. /\ client' \in ClientState /\ client'.pc = "read" /\ client'.conn = c
      /\ client'.bootID = client.bootID /\ client'.approved = client.approved
  BY <1>1 DEF ClientState
<1>7. \A d \in Conns \ {c} : Ends(wire'[d]) /\ ~wire'[d].client /\ wire'[d].down = <<>>
  BY <1>1, <1>5, BareConnection, WireAssumption
<1>8. Ends(v) /\ c # NULL
  BY <1>3, WireAssumption DEF Ends
<1>9. WireOK'
  BY <1>3, <1>5, <1>6, <1>7, <1>8 DEF WireOK
<1>10. FramesTrue' /\ ClosesLast'
  BY <1>3, <1>5, <1>7, RangeEmpty, EmptySealed DEF FramesTrue, ClosesLast
<1>11. ReceivedTrue'
  BY <1>2, <1>4, <1>5, <1>6 DEF ReceivedTrue, Talk
<1>12. ClientOK'
  BY <1>6, <1>8 DEF ClientOK, Talk
<1>13. OneBoot'
  <2>1. client.bootID = NULL => Greeting(v)
    BY <1>2, <1>3 DEF Greeting
  <2>2. client.bootID # NULL => About(v, client.bootID) /\ NoPending(v.down)
    BY <1>2, <1>3, <1>4 DEF About, NoPending
  <2> QED
    BY <1>5, <1>6, <2>1, <2>2 DEF OneBoot
<1>14. BootsOK' /\ CountsOK' /\ PayloadOnApproval'
  BY DEF Talk, BootsOK, CountsOK, PayloadOnApproval
<1>15. Acknowledged'
  BY <1>6 DEF Talk, Acknowledged
<1> QED
  BY <1>9, <1>10, <1>11, <1>12, <1>13, <1>14, <1>15 DEF Talk

-----------------------------------------------------------------------------
(* The network keeps Talk *)

\* A connection that loses frames, or the end of the object, keeps Talk.
LEMMA NetworkKeepsTalk ==
  ASSUME Talk, NEW c \in Conns, NEW v \in Connection, wire' = [wire EXCEPT ![c] = v],
         v.client = wire[c].client, Ends(v),
         Range(v.up) \subseteq Range(wire[c].up),
         Range(v.down) \subseteq Range(wire[c].down), Sealed(v.down),
         v.boot \in {NULL, wire[c].boot},
         client.conn = c /\ Greeting(wire[c]) => Greeting(v),
         UNCHANGED <<client, boots, tokenLive, faults>>, breaks' \in 0 .. MaxBreaks
  PROVE  Talk'
<1>1. wire' \in [Conns -> Connection] /\ wire'[c] = v /\ \A d \in Conns \ {c} : wire'[d] = wire[d]
  BY DEF Talk, WireOK
<1>2. WireOK'
  BY <1>1 DEF Talk, WireOK
<1>3. FramesTrue'
  <2>1. \A d \in Conns : \A f \in Range(wire'[d].down) : Told(f, boots) /\ Over(f, boots)
    BY <1>1 DEF Talk, FramesTrue
  <2> QED
    BY <2>1 DEF FramesTrue, Told, Over
<1>4. ClosesLast' /\ ReceivedTrue'
  BY <1>1 DEF Talk, ClosesLast, ReceivedTrue
<1>5. OneBoot'
  <2>1. client.pc = "read" => client.conn \in Conns
    BY DEF Talk, ClientOK, ClientState
  <2>2. \A b : About(wire[c], b) => About(v, b)
    BY DEF About
  <2>3. NoPending(wire[c].down) => NoPending(v.down)
    BY DEF NoPending
  <2>4. CASE client.conn = c
    BY <1>1, <2>1, <2>2, <2>3, <2>4 DEF Talk, OneBoot
  <2>5. CASE client.conn # c
    BY <1>1, <2>1, <2>5 DEF Talk, OneBoot
  <2> QED
    BY <2>4, <2>5
<1>6. ClientOK' /\ BootsOK' /\ CountsOK' /\ PayloadOnApproval' /\ Acknowledged'
  BY DEF Talk, ClientOK, BootsOK, CountsOK, PayloadOnApproval, Acknowledged
<1> QED
  BY <1>2, <1>3, <1>4, <1>5, <1>6 DEF Talk

\* A queue that is cut behind its first frame keeps that one first.
LEMMA TailOfPrefix ==
  ASSUME NEW s \in Seq(DownFrame), s # <<>>, NEW n \in 0 .. Len(s), n # 0
  PROVE  LET p == Prefix(s, n)
         IN  p # <<>> /\ Head(p) = Head(s) /\ Range(Tail(p)) \subseteq Range(Tail(s))
<1> DEFINE p == Prefix(s, n)
<1>1. /\ p \in Seq(DownFrame) /\ Len(p) = n /\ \A i \in 1 .. n : p[i] = s[i]
      /\ Len(s) \in Nat /\ n \in 1 .. Len(s)
  BY RangePrefix
<1> HIDE DEF p
<1>2. p # <<>> /\ Head(p) = Head(s)
  BY <1>1
<1>3. /\ Tail(p) \in Seq(DownFrame) /\ Len(Tail(p)) = n - 1 /\ \A i \in 1 .. n - 1 : Tail(p)[i] = p[i + 1]
      /\ Tail(s) \in Seq(DownFrame) /\ Len(Tail(s)) = Len(s) - 1
      /\ \A i \in 1 .. Len(s) - 1 : Tail(s)[i] = s[i + 1]
  BY <1>1, <1>2, HeadTailProperties
<1>4. DOMAIN Tail(p) = 1 .. n - 1 /\ DOMAIN Tail(s) = 1 .. Len(s) - 1
  BY <1>3, LenProperties
<1>5. \A i \in 1 .. n - 1 : i \in 1 .. Len(s) - 1 /\ Tail(p)[i] = Tail(s)[i]
  BY <1>1, <1>3
<1>6. Range(Tail(p)) \subseteq Range(Tail(s))
  BY <1>4, <1>5 DEF Range
<1> QED
  BY <1>2, <1>6 DEF p

\* The network cuts a connection.
LEMMA CutKeepsTalk ==
  ASSUME Talk, NEW c \in Conns, Cut(c), UNCHANGED <<client, boots, tokenLive, faults>>
  PROVE  Talk' /\ breaks' > 0
<1> DEFINE w == wire[c]
<1>1. PICK m \in 0 .. Len(w.up), n \in 0 .. Len(w.down) :
        wire' = [wire EXCEPT ![c].cut = TRUE, ![c].up = Prefix(@, m), ![c].down = Prefix(@, n)]
  BY DEF Cut
<1>2. /\ w \in Connection /\ Ends(w) /\ w.up \in Seq(UpFrame) /\ w.down \in Seq(DownFrame)
      /\ wire \in [Conns -> Connection] /\ (w.client \/ w.server)
      /\ breaks' \in 0 .. MaxBreaks /\ breaks' > 0
  BY WireAssumption DEF Talk, WireOK, Connection, CountsOK, Cut
<1> DEFINE v == [w EXCEPT !.cut = TRUE, !.up = Prefix(w.up, m), !.down = Prefix(w.down, n)]
<1>3. wire' = [wire EXCEPT ![c] = v]
  BY <1>1, <1>2
<1>4. /\ Prefix(w.up, m) \in Seq(UpFrame) /\ Prefix(w.down, n) \in Seq(DownFrame)
      /\ Range(Prefix(w.up, m)) \subseteq Range(w.up)
      /\ Range(Prefix(w.down, n)) \subseteq Range(w.down)
      /\ Sealed(Prefix(w.down, n))
      /\ Len(Prefix(w.up, m)) = m /\ Len(Prefix(w.down, n)) = n
  BY <1>2, RangePrefix, SealedPrefix DEF Talk, ClosesLast
<1>5. /\ v \in Connection /\ v.cut /\ v.client = w.client /\ v.server = w.server
      /\ v.up = Prefix(w.up, m) /\ v.down = Prefix(w.down, n) /\ v.boot = w.boot
  BY <1>2, <1>4 DEF Connection
<1>6. (w.up = <<>> => v.up = <<>>) /\ (w.down = <<>> => v.down = <<>>)
  <2>1. w.up = <<>> => Range(v.up) = {}
    BY <1>4, <1>5, RangeEmpty
  <2>2. w.down = <<>> => Range(v.down) = {}
    BY <1>4, <1>5, RangeEmpty
  <2> QED
    BY <1>4, <1>5, <2>1, <2>2, RangeNone
<1>7. Ends(v)
  BY <1>2, <1>5, <1>6 DEF Ends
<1>8. Greeting(w) => Greeting(v)
  <2>1. CASE w.up = <<Hello0>> /\ w.down = <<>> /\ w.boot = NULL
    <3>1. m \in {0, 1}
      BY <2>1
    <3>2. CASE m = 0
      <4>1. v.up = <<>>
        BY <1>4, <1>5, <3>2
      <4> QED
        BY <1>5, <1>6, <2>1, <4>1 DEF Greeting
    <3>3. CASE m = 1
      <4>1. Prefix(w.up, 1) = w.up
        BY <2>1, <1>2, SubSeqFull DEF Prefix
      <4> QED
        BY <1>5, <1>6, <2>1, <3>3, <4>1 DEF Greeting
    <3> QED
      BY <3>1, <3>2, <3>3
  <2>2. CASE w.up = <<>> /\ n = 0
    <3>1. v.down = <<>>
      BY <1>4, <1>5, <2>2
    <3> QED
      BY <1>5, <1>6, <2>2, <3>1 DEF Greeting
  <2>3. CASE w.up = <<>> /\ w.down # <<>> /\ n # 0
    <3>1. /\ v.down # <<>> /\ Head(v.down) = Head(w.down)
          /\ Range(Tail(v.down)) \subseteq Range(Tail(w.down))
      BY <1>2, <1>5, <2>3, TailOfPrefix
    <3>2. NoPending(Tail(w.down)) => NoPending(Tail(v.down))
      BY <3>1 DEF NoPending
    <3>3. \A b : About(w, b) => About(v, b)
      BY <1>4, <1>5 DEF About
    <3> QED
      BY <1>5, <1>6, <2>3, <3>1, <3>2, <3>3 DEF Greeting
  <2>4. CASE w.up = <<>> /\ w.down = <<>>
    BY <1>5, <1>6, <2>4 DEF Greeting
  <2> QED
    BY <2>1, <2>2, <2>3, <2>4 DEF Greeting
<1> HIDE DEF v
<1> QED
  BY <1>2, <1>3, <1>4, <1>5, <1>7, <1>8, NetworkKeepsTalk

\* The object notices that one is gone.
LEMMA DetectKeepsTalk ==
  ASSUME Talk, NEW c \in Conns, ServerDetects(c), UNCHANGED <<client, boots, tokenLive, faults>>
  PROVE  Talk' /\ UNCHANGED breaks /\ wire[c].server /\ (wire[c].cut \/ ~wire[c].client)
<1> DEFINE w == wire[c]
           v == ServerLeaves(w)
           t == [w EXCEPT !.server = FALSE, !.up = <<>>, !.boot = NULL]
<1>1. /\ w \in Connection /\ Ends(w) /\ w.server /\ w.up = <<>> /\ (w.cut \/ ~w.client)
      /\ wire' = [wire EXCEPT ![c] = v] /\ breaks' = breaks /\ breaks' \in 0 .. MaxBreaks
  BY DEF Talk, WireOK, CountsOK, ServerDetects, ServerSeesEnd
<1>2. /\ t \in Connection /\ t.client = w.client /\ ~t.server /\ t.up = <<>> /\ t.boot = NULL
      /\ t.down = w.down /\ t.cut = w.cut
  <2>1. <<>> \in Seq(UpFrame)
    OBVIOUS
  <2> QED
    BY <1>1, <2>1 DEF Connection
<1>3. v = IF w.client THEN t ELSE Free
  BY <1>2 DEF ServerLeaves, Tidy
<1> HIDE DEF t, v
<1>4. CASE w.client
  <2>1. v = t /\ Ends(t)
    BY <1>2, <1>3, <1>4 DEF Ends
  <2>2. Greeting(w) => Greeting(t)
    <3>1. w.up # <<Hello0>>
      BY <1>1
    <3>2. \A b : About(w, b) => About(t, b)
      BY <1>2, RangeEmpty DEF About
    <3> QED
      BY <1>2, <3>1, <3>2 DEF Greeting
  <2>3. Range(t.up) \subseteq Range(w.up) /\ Range(t.down) \subseteq Range(w.down) /\ Sealed(t.down)
    BY <1>2, RangeEmpty DEF Talk, ClosesLast
  <2> QED
    BY <1>1, <1>2, <2>1, <2>2, <2>3, NetworkKeepsTalk
<1>5. CASE ~w.client
  <2>1. v = Free /\ Ends(Free) /\ Free \in Connection /\ client.conn # c
    BY <1>3, <1>5, FreeConnection DEF Talk, WireOK
  <2>2. Free.up = <<>> /\ Free.down = <<>> /\ Free.boot = NULL /\ Free.client = FALSE
    BY DEF Free
  <2>3. w.client = FALSE
    BY <1>1, <1>5 DEF Connection
  <2> QED
    BY <1>1, <2>1, <2>2, <2>3, RangeEmpty, EmptySealed, NetworkKeepsTalk
<1> QED
  BY <1>4, <1>5

-----------------------------------------------------------------------------
(* Nothing cut, nothing failed: the object *)

\* Nothing was cut and nothing failed.
Calm == breaks = 0 /\ faults = 0

\* The connection of the client then: a hello finds no boot yet, an acknowledgement
\* finds its boot delivered on it, nothing is refused or challenged, and the object
\* closes only with a last frame.
CalmOn(w, rows) ==
  /\ ~w.cut
  /\ \A f \in Range(w.up) :
       \/ f.type = "hello" /\ \A b \in Boots : rows[b] = NoBoot
       \/ f.type = "received" /\ w.boot = f.boot /\ rows[w.boot].status = "DELIVERED"
  /\ \A f \in Range(w.down) :
       /\ f.type \notin {"error", "challenge", "resumed"}
       /\ f.type = "approved" /\ w.server => w.boot = f.boot /\ rows[w.boot].status = "DELIVERED"
  /\ ~w.server => \E f \in Range(w.down) : f.type \in Last

\* Until the client finishes or exits, that connection is the only one, and there is
\* no boot before it is dialled.
CalmTalk ==
  Calm /\ client.pc \in {"dial", "read"} =>
    /\ \A c \in Conns : client.conn # c => wire[c] = Free
    /\ client.pc = "dial" => client.bootID = NULL /\ \A b \in Boots : boots[b] = NoBoot
    /\ client.pc = "read" => CalmOn(wire[client.conn], boots)

\* Inductive.
ClientInv == Talk /\ CalmTalk /\ ExitsForCause

\* Calm lasts as long as handlers do not fail.
LEMMA CalmBefore ==
  ASSUME Talk, Works \/ Fails, UNCHANGED breaks, Calm'
  PROVE  Calm /\ ~Fails
<1>1. faults \in Nat /\ faults' = 0 /\ breaks = 0
  BY ServiceAssumption DEF Calm, Talk, CountsOK
<1>2. ~Fails
  BY <1>1 DEF Fails
<1> QED
  BY <1>1, <1>2 DEF Calm, Works

\* Then a connection the object holds is the one of the client.
LEMMA CalmOne ==
  ASSUME Talk, CalmTalk, Calm, client.pc \in {"dial", "read"}, NEW c \in Conns, wire[c].server
  PROVE  client.pc = "read" /\ client.conn = c /\ wire[c].client /\ CalmOn(wire[c], boots)
<1>1. wire[c] # Free
  BY DEF Free
<1>2. client.conn = c
  BY <1>1 DEF CalmTalk
<1>3. client.pc = "read" /\ wire[c].client
  BY <1>2, WireAssumption DEF Talk, ClientOK, WireOK
<1> QED
  BY <1>2, <1>3 DEF CalmTalk

\* The row of an unused boot.
LEMMA NoBootFields == NoBoot.status = NoStatus /\ NoBoot.payload = NULL
BY DEF NoBoot

\* The hello is answered by the first boot, as nothing is pending.
LEMMA CalmHello ==
  ASSUME Talk, CalmTalk, NEW c \in Conns, Hello(c), UNCHANGED <<client, breaks>>
  PROVE  CalmTalk'
<1> SUFFICES ASSUME Calm', client.pc \in {"dial", "read"}
             PROVE  /\ client.pc = "read"
                    /\ \A d \in Conns : client.conn # d => wire'[d] = Free
                    /\ CalmOn(wire'[client.conn], boots')
  BY DEF CalmTalk
<1> DEFINE w == wire[c]
           r == Rest(c)
<1>1. Calm /\ ~Fails
  BY CalmBefore DEF Hello
<1>2. /\ w \in Connection /\ Ends(w) /\ w.server /\ w.up # <<>> /\ Head(w.up).type = "hello"
      /\ wire \in [Conns -> Connection]
  BY DEF Hello, Received, Talk, WireOK
<1>3. client.pc = "read" /\ client.conn = c /\ w.client /\ CalmOn(w, boots)
  BY <1>1, <1>2, CalmOne
<1>4. /\ Base(w, r) /\ r \in Connection
      /\ Head(w.up) \in Range(w.up)
      /\ \A b \in Boots :
           LET q == [r EXCEPT !.boot = b]
           IN  Base(w, q) /\ q.boot = b /\ q.server /\ q.up = Tail(w.up) /\ q \in Connection
  BY <1>2, Bases DEF Rest
<1>5. \A b \in Boots : boots[b].status = NoStatus
  BY <1>2, <1>3, <1>4, NoBootFields DEF CalmOn
<1>6. PendingBoots = {}
  BY <1>5 DEF PendingBoots, NoStatus
<1>7. ~(Cardinality(PendingBoots) >= MaxPending)
  BY <1>6, FS_EmptySet, ServiceAssumption
<1>8. PICK b \in Boots : On(c, Say([r EXCEPT !.boot = b], <<Frame("pending", b, NULL)>>))
  BY <1>1, <1>7 DEF Hello
<1> DEFINE q == [r EXCEPT !.boot = b]
           fs == <<Frame("pending", b, NULL)>>
           v == Say(q, fs)
<1>9. Frame("pending", b, NULL) \in DownFrame /\ Frame("pending", b, NULL).type = "pending"
  BY FrameTypes DEF Frame
<1>10. fs \in Seq(DownFrame) /\ Range(fs) = {Frame("pending", b, NULL)}
  BY <1>9, OneFrame
<1>11. Base(w, q) /\ q.boot = b /\ q.server /\ q.up = Tail(w.up) /\ q \in Connection
  BY <1>4
<1> HIDE DEF q, fs, r
<1>12. /\ Served(w, v, fs) /\ v.server /\ v.boot = b /\ v.up = q.up
       /\ v.down = w.down \o fs
  BY <1>2, <1>3, <1>10, <1>11, SayServed DEF CalmOn
<1>13. w.up = <<Hello0>> /\ w.down = <<>>
  <2>1. Head(w.up) = Hello0
    <3>1. Head(w.up) \in UpFrame
      BY <1>2, Bases
    <3> QED
      BY <1>2, <3>1 DEF UpFrame, Hello0, Frame
  <2>2. ~About(w, client.bootID) \/ client.bootID = NULL
    BY <1>4, <2>1 DEF About, Hello0, Frame
  <2>3. Greeting(w)
    BY <1>3, <2>2 DEF Talk, OneBoot
  <2> QED
    BY <1>2, <2>3 DEF Greeting
<1>14. v.up = <<>> /\ v.down = fs
  BY <1>10, <1>11, <1>12, <1>13, ConcatEmptySeq
<1>15. /\ wire' = [wire EXCEPT ![c] = v] /\ v \in Connection /\ ~v.cut
  BY <1>3, <1>8, <1>12 DEF On, q, fs, r, Served, CalmOn
<1> HIDE DEF v
<1>16. wire'[c] = v /\ \A d \in Conns \ {c} : wire'[d] = wire[d]
  BY <1>2, <1>15
<1>17. CalmOn(v, boots')
  BY <1>9, <1>10, <1>12, <1>14, <1>15, RangeEmpty DEF CalmOn
<1> QED
  BY <1>1, <1>3, <1>16, <1>17 DEF CalmTalk

\* Nothing is resumed, so nothing is proved.
LEMMA CalmAsks ==
  ASSUME Talk, CalmTalk, NEW c \in Conns, NEW type \in {"resume", "proof"}, Received(c, type),
         Calm, client.pc \in {"dial", "read"}
  PROVE  FALSE
<1>1. /\ FrameOn(c) \in Range(wire[c].up) /\ FrameOn(c).type = type /\ wire[c].server
  BY ReceivedFrame DEF Received
<1>2. CalmOn(wire[c], boots)
  BY <1>1, CalmOne
<1> QED
  BY <1>1, <1>2 DEF CalmOn

\* The acknowledgement consumes the boot.
LEMMA CalmAcknowledge ==
  ASSUME Talk, CalmTalk, NEW c \in Conns, Acknowledge(c), UNCHANGED <<client, breaks>>
  PROVE  CalmTalk'
<1> SUFFICES ASSUME Calm', client.pc \in {"dial", "read"}
             PROVE  /\ client.pc = "read"
                    /\ \A d \in Conns : client.conn # d => wire'[d] = Free
                    /\ CalmOn(wire'[client.conn], boots')
  BY DEF CalmTalk
<1> DEFINE w == wire[c]
           r == Rest(c)
           f == FrameOn(c)
           b == FrameOn(c).boot
           row == boots[b]
           fs == <<Frame("consumed", b, NULL), Frame("close", NULL, "NORMAL")>>
           v == Shut(r, fs)
<1>1. /\ w \in Connection /\ Ends(w) /\ b \in Boots /\ b # NULL
      /\ r \in Connection /\ Base(w, r) /\ w.server
      /\ f \in Range(w.up) /\ f \in UpFrame /\ f.type = "received"
      /\ wire \in [Conns -> Connection]
  BY ReceivedFrame DEF Acknowledge, Received, Talk, WireOK
<1>2. f.arg = "good" /\ client.approved = "good" /\ client.bootID = b
  BY <1>1 DEF UpFrame, Talk, ReceivedTrue
<1>3. row.payload = "good"
  BY <1>2 DEF Talk, Acknowledged
<1>4. Works \/ Fails
  BY DEF Acknowledge
<1>5. Calm /\ ~Fails
  BY <1>4, CalmBefore
<1>6. client.pc = "read" /\ client.conn = c /\ w.client /\ CalmOn(w, boots)
  BY <1>1, <1>5, CalmOne
<1>7. w.boot = b /\ row.status = "DELIVERED"
  BY <1>1, <1>6 DEF CalmOn
<1>8. Allowed(row.status, "consume")
  BY <1>7 DEF Allowed, Transitions, Target
<1>9. On(c, v)
  BY <1>2, <1>3, <1>5, <1>7, <1>8 DEF Acknowledge
<1>10. Frame("consumed", b, NULL) \in DownFrame /\ Frame("close", NULL, "NORMAL") \in DownFrame
  BY <1>1, FrameTypes DEF Codes
<1>11. /\ fs \in Seq(DownFrame)
       /\ Range(fs) = {Frame("consumed", b, NULL), Frame("close", NULL, "NORMAL")}
  BY <1>10, TwoFrames DEF Frame, Last
<1> HIDE DEF fs, r
<1>12. /\ Served(w, v, fs) /\ ~v.server /\ v.up = <<>> /\ v.down = w.down \o fs
  BY <1>1, <1>6, <1>11, ShutServed DEF CalmOn
<1>13. /\ wire' = [wire EXCEPT ![c] = v] /\ v \in Connection /\ ~v.cut
  BY <1>6, <1>9, <1>12 DEF On, Served, CalmOn
<1>14. Range(v.down) = Range(w.down) \cup Range(fs)
  BY <1>1, <1>11, <1>12, RangeOfConcat DEF Connection
<1> HIDE DEF v
<1>15. wire'[c] = v /\ \A d \in Conns \ {c} : wire'[d] = wire[d]
  BY <1>1, <1>13
<1>16. \A g \in Range(fs) : g.type \notin {"error", "challenge", "resumed"}
  BY <1>11 DEF Frame
<1>17. \E g \in Range(fs) : g.type \in Last
  BY <1>11 DEF Frame, Last
<1>18. CalmOn(v, boots')
  BY <1>6, <1>12, <1>13, <1>14, <1>16, <1>17, RangeEmpty DEF CalmOn
<1> QED
  BY <1>5, <1>6, <1>15, <1>18 DEF CalmTalk

\* The end of the boot is the last thing said.
LEMMA CalmShut ==
  ASSUME NEW w \in Connection, w.server, w.client, Ends(w), CalmOn(w, boots),
         NEW b \in Boots, NEW status \in {"DECLINED", "EXPIRED", "CANCELED"}
  PROVE  CalmOn(Shut(w, TerminalFrames(b, status)), boots')
<1> DEFINE fs == TerminalFrames(b, status)
           v == Shut(w, fs)
<1>1. /\ fs \in Seq(DownFrame)
      /\ \A f \in Range(fs) : f.type # "error"
      /\ \E f \in Range(fs) : f.type \in Last
  BY TerminalFramesTold DEF Terminal
<1>2. \A f \in Range(fs) : f.type \notin {"challenge", "resumed"}
  <2> DEFINE first == CASE status = "DECLINED" -> Frame("declined", b, NULL)
                      [] status = "EXPIRED"  -> Frame("expired", b, NULL)
                      [] status = "CANCELED" -> Frame("canceled", b, NULL)
                      [] OTHER               -> Frame("error", NULL, "TERMINAL")
  <2>1. first.type \in {"declined", "expired", "canceled"}
    BY DEF Frame
  <2>2. fs = <<first, Frame("close", NULL, "TERMINAL")>>
    BY DEF TerminalFrames
  <2> HIDE DEF first, fs
  <2>3. Range(fs) = {first, Frame("close", NULL, "TERMINAL")}
    BY <2>2, RangeTwo
  <2> QED
    BY <2>1, <2>3 DEF Frame
<1>3. Base(w, w)
  BY Bases
<1> HIDE DEF fs
<1>4. /\ Served(w, v, fs) /\ ~v.server /\ v.up = <<>> /\ v.down = w.down \o fs
  BY <1>1, <1>3, ShutServed DEF CalmOn
<1>5. ~v.cut
  BY <1>4 DEF Served, CalmOn
<1>6. Range(v.down) = Range(w.down) \cup Range(fs)
  BY <1>1, <1>4, RangeOfConcat DEF Connection
<1> HIDE DEF v
<1>7. CalmOn(v, boots')
  BY <1>1, <1>2, <1>4, <1>5, <1>6, RangeEmpty DEF CalmOn
<1> QED
  BY <1>7 DEF v, fs

\* A row may change that the connection says nothing of.
LEMMA CalmRows ==
  ASSUME NEW w \in Connection, Ends(w), CalmOn(w, boots),
         \A d \in Boots : boots'[d] # boots[d] =>
           /\ boots[d] # NoBoot
           /\ boots[d].status # "DELIVERED" \/ ~w.server \/ w.boot # d
  PROVE  CalmOn(w, boots')
<1>1. ASSUME NEW f \in Range(w.up)
      PROVE  \/ f.type = "hello" /\ \A b \in Boots : boots'[b] = NoBoot
             \/ f.type = "received" /\ w.boot = f.boot /\ boots'[w.boot].status = "DELIVERED"
  <2>1. CASE f.type = "hello" /\ \A b \in Boots : boots[b] = NoBoot
    BY <2>1
  <2>2. CASE f.type = "received" /\ w.boot = f.boot /\ boots[w.boot].status = "DELIVERED"
    <3>1. w.up \in Seq(UpFrame)
      BY DEF Connection
    <3>2. f \in UpFrame
      BY <3>1 DEF Range
    <3>3. f.boot \in Boots
      BY <2>2, <3>2 DEF UpFrame
    <3>4. w.server
      <4>1. Range(w.up) # {}
        BY <1>1
      <4> QED
        BY <4>1, RangeEmpty DEF Ends
    <3> QED
      BY <2>2, <3>3, <3>4
  <2> QED
    BY <2>1, <2>2 DEF CalmOn
<1>2. ASSUME NEW f \in Range(w.down)
      PROVE  /\ f.type \notin {"error", "challenge", "resumed"}
             /\ f.type = "approved" /\ w.server =>
                  w.boot = f.boot /\ boots'[w.boot].status = "DELIVERED"
  <2>1. w.down \in Seq(DownFrame)
    BY DEF Connection
  <2>2. f \in DownFrame
    BY <2>1 DEF Range
  <2>3. f.type = "approved" => f.boot \in Boots
    BY <2>2 DEF DownFrame
  <2> QED
    BY <2>3 DEF CalmOn
<1> QED
  BY <1>1, <1>2 DEF CalmOn

\* What a handler has to show: that it keeps CalmOn of the connection.
LEMMA CalmServed ==
  ASSUME Talk, CalmTalk, Works \/ Fails, UNCHANGED <<client, breaks>>,
         NEW b \in Boots, boots[b].status # NoStatus,
         \A d \in Conns : ~wire[d].server => wire'[d] = wire[d],
         \A c \in Conns :
           /\ ~Fails /\ wire[c].client /\ wire[c] \in Connection /\ Ends(wire[c])
           /\ CalmOn(wire[c], boots)
           => CalmOn(wire'[c], boots')
  PROVE  CalmTalk'
<1> SUFFICES ASSUME Calm', client.pc \in {"dial", "read"}
             PROVE  /\ client.pc = "read"
                    /\ \A d \in Conns : client.conn # d => wire'[d] = Free
                    /\ CalmOn(wire'[client.conn], boots')
  BY DEF CalmTalk
<1>1. Calm /\ ~Fails
  BY CalmBefore
<1>2. client.pc = "read"
  BY <1>1, NoBootFields DEF CalmTalk
<1>3. /\ client.conn \in Conns /\ wire[client.conn] \in Connection /\ Ends(wire[client.conn])
      /\ wire[client.conn].client
  BY <1>2 DEF Talk, ClientOK, ClientState, WireOK
<1>4. CalmOn(wire'[client.conn], boots')
  BY <1>1, <1>2, <1>3 DEF CalmTalk
<1>5. ~Free.server
  BY DEF Free
<1>6. \A d \in Conns : client.conn # d => wire'[d] = Free
  BY <1>1, <1>2, <1>5 DEF CalmTalk
<1> QED
  BY <1>2, <1>4, <1>6

\* The payload is sent when it is approved: the client is attached.
LEMMA CalmApprove ==
  ASSUME Talk, CalmTalk, NEW b \in Boots, NEW payload \in Kinds, Approve(b, payload),
         UNCHANGED <<client, breaks>>
  PROVE  CalmTalk'
<1> DEFINE sockets == SocketsOf(b)
           row == [boots[b] EXCEPT !.status = "APPROVED", !.payload = payload]
           sent == IF sockets = {} THEN row ELSE [row EXCEPT !.status = "DELIVERED"]
           f0 == Frame("approved", b, payload)
           fs == <<f0>>
<1>1. boots[b] \in BootRow /\ boots[b].status = "PENDING" /\ boots \in [Boots -> BootRow]
      /\ wire \in [Conns -> Connection]
  BY DEF Talk, BootsOK, WireOK, Approve
<1>2. \/ /\ wire' = [c \in Conns |-> IF c \in sockets THEN Say(wire[c], fs) ELSE wire[c]]
         /\ boots' = [boots EXCEPT ![b] = sent] /\ Works
      \/ boots' = [boots EXCEPT ![b] = row] /\ Fails /\ UNCHANGED wire
  BY DEF Approve
<1>3. sockets # {} => sent.status = "DELIVERED"
  BY <1>1 DEF BootRow
<1>4. f0 \in DownFrame /\ f0.type = "approved" /\ f0.boot = b
  BY FrameTypes DEF Frame
<1>5. fs \in Seq(DownFrame) /\ Range(fs) = {f0}
  BY <1>4, OneFrame
<1>6. boots[b] # NoBoot /\ boots[b].status # "DELIVERED" /\ boots[b].status # NoStatus
  BY <1>1, NoBootFields DEF NoStatus
<1>7. \A c \in sockets : c \in Conns /\ wire[c].server /\ wire[c].boot = b
  BY DEF SocketsOf
<1>8. \A c \in Conns : wire[c].server /\ wire[c].boot = b => c \in sockets
  BY DEF SocketsOf
<1> HIDE DEF sockets, row, sent, f0, fs
<1>9. Works \/ Fails
  BY <1>2
<1>10. \A d \in Conns : ~wire[d].server => wire'[d] = wire[d]
  BY <1>1, <1>2, <1>7
<1>11. \A d \in Boots : boots'[d] # boots[d] => d = b
  BY <1>1, <1>2
<1>12. ASSUME NEW c \in Conns, ~Fails, wire[c].client, wire[c] \in Connection, Ends(wire[c]),
              CalmOn(wire[c], boots)
       PROVE  CalmOn(wire'[c], boots')
  <2> DEFINE w == wire[c]
             v == Say(w, fs)
  <2>1. CASE c \notin sockets
    <3>1. wire'[c] = w
      BY <1>2, <2>1, <1>12
    <3>2. CalmOn(w, boots')
      BY <1>6, <1>11, <1>12, CalmRows
    <3> QED
      BY <3>1, <3>2
  <2>2. CASE c \in sockets
    <3>1. wire'[c] = v /\ w.server /\ w.boot = b /\ boots'[b].status = "DELIVERED"
      BY <1>1, <1>2, <1>3, <1>7, <1>12, <2>2
    <3>2. Base(w, w)
      BY <1>12, <3>1, Bases
    <3> HIDE DEF v
    <3>3. /\ Served(w, v, fs) /\ v.server = w.server /\ v.boot = w.boot /\ v.up = w.up
          /\ v.down = w.down \o fs
      BY <1>5, <1>12, <3>1, <3>2, SayServed DEF CalmOn, v
    <3>4. ~v.cut
      BY <1>12, <3>3 DEF Served, CalmOn
    <3>5. Range(v.down) = Range(w.down) \cup {f0}
      BY <1>5, <1>12, <3>3, RangeOfConcat DEF Connection
    <3>6. \A f \in Range(w.up) : FALSE
      BY <1>6, <1>12, <3>1 DEF CalmOn
    <3>7. \A f \in Range(w.down) : f.type \notin {"error", "challenge", "resumed", "approved"}
      BY <1>6, <1>12, <3>1 DEF CalmOn
    <3>8. CalmOn(v, boots')
      BY <1>4, <3>1, <3>3, <3>4, <3>5, <3>6, <3>7 DEF CalmOn
    <3> QED
      BY <3>1, <3>8
  <2> QED
    BY <2>1, <2>2
<1> QED
  BY <1>6, <1>9, <1>10, <1>12, CalmServed

\* An end is told to it.
LEMMA CalmEnd ==
  ASSUME Talk, CalmTalk, NEW b \in Boots,
         NEW event \in {"decline", "cancel", "expirePending", "expirePayload"}, EndBy(b, event),
         UNCHANGED <<client, breaks>>
  PROVE  CalmTalk'
<1> DEFINE status == Target(event)
<1>1. /\ status \in {"DECLINED", "EXPIRED", "CANCELED"} /\ boots[b].status \in Live
  BY EndStep
<1>2. boots[b] # NoBoot /\ boots[b].status # NoStatus
  BY <1>1, NoBootFields DEF NoStatus, Live
<1>3. /\ wire \in [Conns -> Connection] /\ boots \in [Boots -> BootRow]
      /\ boots' = [boots EXCEPT ![b].status = status]
      /\ \/ TellAll(b, status) /\ Works
         \/ Fails /\ UNCHANGED wire
  BY DEF Talk, WireOK, BootsOK, EndBy
<1> HIDE DEF status
<1>4. Works \/ Fails
  BY <1>3
<1>5. \A d \in Conns : ~wire[d].server => wire'[d] = wire[d]
  BY <1>3 DEF TellAll, SocketsOf
<1>6. \A d \in Boots : boots'[d] # boots[d] => d = b
  BY <1>3
<1>7. ASSUME NEW c \in Conns, ~Fails, wire[c].client, wire[c] \in Connection, Ends(wire[c]),
             CalmOn(wire[c], boots)
      PROVE  CalmOn(wire'[c], boots')
  <2>1. CASE wire[c].server /\ wire[c].boot = b
    <3>1. wire'[c] = Shut(wire[c], TerminalFrames(b, status))
      BY <1>3, <1>7, <2>1 DEF TellAll, SocketsOf
    <3> QED
      BY <1>1, <1>7, <2>1, <3>1, CalmShut
  <2>2. CASE ~(wire[c].server /\ wire[c].boot = b)
    <3>1. wire'[c] = wire[c]
      BY <1>3, <1>7, <2>2 DEF TellAll, SocketsOf
    <3>2. CalmOn(wire[c], boots')
      BY <1>2, <1>6, <1>7, <2>2, CalmRows
    <3> QED
      BY <3>1, <3>2
  <2> QED
    BY <2>1, <2>2
<1> QED
  BY <1>2, <1>4, <1>5, <1>7, CalmServed

\* A step elsewhere keeps CalmTalk.
LEMMA CalmRest ==
  ASSUME CalmTalk, UNCHANGED <<client, boots, wire>>, Calm' => Calm
  PROVE  CalmTalk'
<1>1. ASSUME NEW w, CalmOn(w, boots) PROVE CalmOn(w, boots')
  BY <1>1 DEF CalmOn
<1> QED
  BY <1>1 DEF CalmTalk

\* The end of a revoked boot is told to it.
LEMMA CalmRevoke ==
  ASSUME Talk, CalmTalk, Revoke, UNCHANGED <<client, breaks>>
  PROVE  CalmTalk'
<1>1. Works \/ Fails
  BY DEF Revoke
<1>2. CASE UNCHANGED <<boots, wire>>
  BY <1>1, <1>2, CalmBefore, CalmRest
<1>3. CASE Cancelable = {}
  <2>1. boots \in [Boots -> BootRow] /\ wire \in [Conns -> Connection]
    BY DEF Talk, BootsOK, WireOK
  <2>2. UNCHANGED <<boots, wire>>
    BY <1>3, <2>1 DEF Revoke
  <2> QED
    BY <1>2, <2>2
<1>4. CASE /\ Cancelable # {}
           /\ boots' = [b \in Boots |-> IF b \in Cancelable
                THEN [boots[b] EXCEPT !.status = "CANCELED"] ELSE boots[b]]
           /\ wire' = [c \in Conns |-> IF wire[c].server /\ wire[c].boot \in Cancelable
                THEN Shut(wire[c], TerminalFrames(wire[c].boot, "CANCELED")) ELSE wire[c]]
  <2>1. \A b \in Cancelable : b \in Boots /\ boots[b].status \in {"PENDING", "APPROVED"}
    BY DEF Cancelable, Allowed, Transitions, Target
  <2>2. \A b \in Cancelable : boots[b] # NoBoot /\ boots[b].status # NoStatus
                              /\ boots[b].status # "DELIVERED"
    BY <2>1, NoBootFields DEF NoStatus
  <2>3. PICK b \in Cancelable : TRUE
    BY <1>4
  <2>4. \A d \in Conns : ~wire[d].server => wire'[d] = wire[d]
    BY <1>4
  <2>5. \A d \in Boots : boots'[d] # boots[d] => d \in Cancelable
    BY <1>4
  <2>6. ASSUME NEW c \in Conns, ~Fails, wire[c].client, wire[c] \in Connection, Ends(wire[c]),
               CalmOn(wire[c], boots)
        PROVE  CalmOn(wire'[c], boots')
    <3>1. CASE wire[c].server /\ wire[c].boot \in Cancelable
      <4>1. wire'[c] = Shut(wire[c], TerminalFrames(wire[c].boot, "CANCELED"))
        BY <1>4, <3>1
      <4>2. wire[c].boot \in Boots
        BY <2>1, <3>1
      <4> QED
        BY <2>6, <3>1, <4>1, <4>2, CalmShut
    <3>2. CASE ~(wire[c].server /\ wire[c].boot \in Cancelable)
      <4>1. wire'[c] = wire[c]
        BY <1>4, <3>2
      <4>2. CalmOn(wire[c], boots')
        BY <2>2, <2>5, <2>6, CalmRows
      <4> QED
        BY <4>1, <4>2
    <3> QED
      BY <3>1, <3>2
  <2>7. b \in Boots /\ boots[b].status # NoStatus
    BY <2>1, <2>2, <2>3
  <2> QED
    BY <1>1, <2>4, <2>6, <2>7, CalmServed
<1> QED
  BY <1>2, <1>3, <1>4 DEF Revoke

-----------------------------------------------------------------------------
(* Why the client goes on or gives up *)

\* The client reads on.
LEMMA CalmContinues ==
  ASSUME Talk, CalmTalk, client.pc = "read", wire[client.conn].down # <<>>, Head1.type \notin Last,
         UNCHANGED <<boots, faults, breaks>>, client'.pc = "read", client'.conn = client.conn,
         NEW v, wire' = [wire EXCEPT ![client.conn] = v],
         v.cut = wire[client.conn].cut, v.server = wire[client.conn].server,
         v.boot = wire[client.conn].boot, v.down = Tail(wire[client.conn].down),
         CalmOn(wire[client.conn], boots) =>
           \A f \in Range(v.up) :
             \/ f \in Range(wire[client.conn].up)
             \/ f.type = "received" /\ v.boot = f.boot /\ boots[v.boot].status = "DELIVERED"
  PROVE  CalmTalk'
<1> SUFFICES ASSUME Calm'
             PROVE  /\ \A d \in Conns : client.conn # d => wire'[d] = Free
                    /\ CalmOn(wire'[client.conn], boots)
  BY DEF CalmTalk, CalmOn
<1> DEFINE c == client.conn
           w == wire[c]
<1>1. Calm
  BY DEF Calm
<1>2. /\ c \in Conns /\ w.down \in Seq(DownFrame) /\ wire \in [Conns -> Connection]
  BY HeadFrame DEF Talk, WireOK
<1>3. CalmOn(w, boots) /\ \A d \in Conns : c # d => wire[d] = Free
  BY <1>1 DEF CalmTalk
<1>4. Range(w.down) = {Head1} \cup Range(v.down)
  BY <1>2, RangeHead DEF Head1
<1>5. wire'[c] = v /\ \A d \in Conns \ {c} : wire'[d] = wire[d]
  BY <1>2
<1>6. CalmOn(v, boots)
  BY <1>3, <1>4 DEF CalmOn
<1> QED
  BY <1>3, <1>5, <1>6

\* What it reads when nothing was cut and nothing failed.
LEMMA CalmHead ==
  ASSUME Talk, CalmTalk, client.pc = "read", wire[client.conn].down # <<>>, Calm
  PROVE  /\ Head1.type \notin {"error", "challenge", "resumed"}
         /\ Head1.type = "approved" /\ wire[client.conn].server =>
              /\ wire[client.conn].boot = Head1.boot
              /\ boots[Head1.boot].status = "DELIVERED"
<1>1. Head1 \in Range(wire[client.conn].down)
  BY HeadFrame, RangeHead DEF Head1
<1>2. CalmOn(wire[client.conn], boots)
  BY DEF CalmTalk
<1> QED
  BY <1>1, <1>2 DEF CalmOn

\* What an exit has to show.
LEMMA CauseOfExit ==
  ASSUME Talk, NEW reason \in Reasons, Exit(reason), UNCHANGED <<boots, tokenLive, faults, breaks>>,
         reason = "declined" => client.bootID # NULL /\ boots[client.bootID].status = "DECLINED",
         reason = "expired" =>
           /\ client.bootID # NULL
           /\ boots[client.bootID].status \in {"EXPIRED", "CANCELED", "CONSUMED"}
           /\ Calm => boots[client.bootID].status # "CONSUMED",
         reason = "config" =>
           client.bootID # NULL /\ boots[client.bootID].payload = "incomplete",
         reason = "protocol" /\ Calm =>
           ~tokenLive \/ (client.bootID # NULL /\ boots[client.bootID].payload = "broken")
  PROVE  CalmTalk' /\ ExitsForCause'
<1>1. client' = [client EXCEPT !.pc = "exited", !.reason = reason, !.conn = NULL]
      /\ client \in ClientState
  BY DEF Exit, Talk, ClientOK
<1>2. client'.pc = "exited" /\ client'.reason = reason /\ client'.bootID = client.bootID
  BY <1>1 DEF ClientState
<1>3. CalmTalk'
  BY <1>2 DEF CalmTalk
<1>4. ExitsForCause'
  BY <1>2 DEF ExitsForCause, Calm
<1> QED
  BY <1>3, <1>4

\* A client that goes on shows nothing.
LEMMA NoExit ==
  ASSUME client'.pc # "exited"
  PROVE  ExitsForCause'
BY DEF ExitsForCause

\* It goes on when it hears of its boot.
LEMMA PendingStep ==
  ASSUME Talk, CalmTalk, Pending, UNCHANGED <<boots, tokenLive, faults, breaks>>
  PROVE  CalmTalk' /\ ExitsForCause'
<1>1. /\ client.pc = "read" /\ wire[client.conn].down # <<>> /\ Head1.type = "pending"
      /\ client' = [client EXCEPT !.bootID = Head1.boot]
      /\ wire' = [wire EXCEPT ![client.conn] = Taken] /\ client \in ClientState
  BY DEF Pending, Reads, Continue, Talk, ClientOK
<1>2. client'.pc = "read" /\ client'.conn = client.conn
  BY <1>1 DEF ClientState
<1>3. Head1.type \notin Last
  BY <1>1 DEF Last
<1>4. CalmTalk'
  BY <1>1, <1>2, <1>3, TakenFacts, CalmContinues
<1> QED
  BY <1>2, <1>4, NoExit

\* It goes on when it is challenged or resumed, which takes a cut or a failure.
LEMMA ChallengeStep ==
  ASSUME Talk, CalmTalk, Challenge \/ Resumed, UNCHANGED <<boots, tokenLive, faults, breaks>>
  PROVE  CalmTalk' /\ ExitsForCause'
<1>1. /\ client.pc = "read" /\ wire[client.conn].down # <<>>
      /\ Head1.type \in {"challenge", "resumed"}
  BY DEF Challenge, Resumed, Reads
<1>2. client' = client
  BY ChallengeKeepsTalk, ResumedKeepsTalk
<1>3. ~Calm
  BY <1>1, CalmHead
<1>4. CalmTalk'
  BY <1>3 DEF CalmTalk, Calm
<1> QED
  BY <1>1, <1>2, <1>4, NoExit

\* It goes on with a payload it can use, and gives up on the one it was approved.
LEMMA ApprovedStep ==
  ASSUME Talk, CalmTalk, Approved, UNCHANGED <<boots, tokenLive, faults, breaks>>
  PROVE  CalmTalk' /\ ExitsForCause'
<1>1. /\ client.pc = "read" /\ wire[client.conn].down # <<>> /\ Head1.type = "approved"
      /\ client.bootID \in Boots /\ client.bootID # NULL /\ Head1.boot = client.bootID
      /\ Head1.arg \in Kinds /\ boots[client.bootID].payload = Head1.arg
      /\ client \in ClientState
  BY ApprovedFacts DEF Talk, ClientOK
<1>2. CASE ~Accepts(client, Head1)
  <2>1. Exit(Refusal(client, Head1))
    BY <1>2 DEF Approved
  <2>2. /\ Head1.arg # "good"
        /\ Refusal(client, Head1) = IF Head1.arg = "incomplete" THEN "config" ELSE "protocol"
    BY <1>2, ApprovedFacts
  <2>3. CASE Head1.arg = "incomplete"
    BY <1>1, <2>1, <2>2, <2>3, CauseOfExit DEF Reasons
  <2>4. CASE Head1.arg = "broken"
    BY <1>1, <2>1, <2>2, <2>4, CauseOfExit DEF Reasons
  <2> QED
    BY <1>1, <2>2, <2>3, <2>4 DEF Kinds
<1>3. CASE Accepts(client, Head1)
  <2> DEFINE open == [client EXCEPT !.bootID = Head1.boot, !.approved = Head1.arg]
             acked == [open EXCEPT !.acked = TRUE]
             f == Frame("received", Head1.boot, Head1.arg)
             w == wire[client.conn]
  <2>1. Head1.arg = "good"
    BY <1>3, ApprovedFacts
  <2>2. \/ Answer(acked, f)
        \/ w.cut /\ Retry(open)
    BY <1>3 DEF Approved
  <2>3. CASE w.cut /\ Retry(open)
    <3>1. client' = [open EXCEPT !.pc = "dial", !.conn = NULL]
      BY <2>3 DEF Retry
    <3>2. client'.pc = "dial"
      BY <1>1, <3>1 DEF ClientState
    <3>3. ~Calm
      BY <1>1, <2>3 DEF CalmTalk, CalmOn
    <3>4. CalmTalk'
      BY <3>3 DEF CalmTalk, Calm
    <3> QED
      BY <3>2, <3>4, NoExit
  <2>4. CASE Answer(acked, f)
    <3> DEFINE v == Up(Taken, f)
    <3>1. f \in UpFrame /\ f.type = "received" /\ f.boot = client.bootID
      BY <1>1, <2>1 DEF UpFrame, Frame
    <3>2. acked.pc = "read" /\ acked.conn = client.conn
      BY <1>1 DEF ClientState
    <3>3. client' = acked /\ wire' = [wire EXCEPT ![client.conn] = v]
      BY <2>4 DEF Answer
    <3>4. /\ v.server = w.server /\ v.cut = w.cut
          /\ v.boot = w.boot /\ v.down = Tail(w.down)
          /\ ~v.server => v.up = <<>>
          /\ Range(v.up) \subseteq Range(w.up) \cup {f}
      BY <1>1, <3>1, TakenFacts
    <3> HIDE DEF v, f, acked
    <3>5. ASSUME Calm
          PROVE  \A g \in Range(v.up) :
                   \/ g \in Range(w.up)
                   \/ g.type = "received" /\ v.boot = g.boot /\ boots[v.boot].status = "DELIVERED"
      <4>1. w.server => w.boot = Head1.boot /\ boots[Head1.boot].status = "DELIVERED"
        BY <1>1, <3>5, CalmHead
      <4> QED
        BY <1>1, <3>1, <3>4, <4>1, RangeEmpty
    <3>6. Head1.type \notin Last
      BY <1>1 DEF Last
    <3>7. CASE ~Calm
      <4>1. CalmTalk'
        BY <3>7 DEF CalmTalk, Calm
      <4> QED
        BY <1>1, <3>2, <3>3, <4>1, NoExit
    <3>8. CASE Calm
      <4>1. CalmTalk'
        BY <1>1, <3>2, <3>3, <3>4, <3>5, <3>6, <3>8, CalmContinues
      <4> QED
        BY <3>2, <3>3, <4>1, NoExit
    <3> QED
      BY <3>7, <3>8
  <2> QED
    BY <2>2, <2>3, <2>4
<1> QED
  BY <1>2, <1>3

\* It finishes.
LEMMA ConsumedStep ==
  ASSUME Talk, Consumed
  PROVE  CalmTalk' /\ ExitsForCause'
<1>1. client' = [client EXCEPT !.pc = "launch", !.conn = NULL] /\ client \in ClientState
  BY DEF Consumed, Finish, Talk, ClientOK
<1>2. client'.pc = "launch"
  BY <1>1 DEF ClientState
<1> QED
  BY <1>2, NoExit DEF CalmTalk

\* It gives up on the word of the server.
LEMMA ToldStep ==
  ASSUME Talk, CalmTalk, Declined \/ Expired \/ Canceled,
         UNCHANGED <<boots, tokenLive, faults, breaks>>
  PROVE  CalmTalk' /\ ExitsForCause'
<1>1. /\ client.pc = "read" /\ wire[client.conn].down # <<>>
      /\ Head1.type \in {"declined", "expired", "canceled"}
      /\ \/ Head1.type = "declined" /\ Exit("declined")
         \/ Head1.type \in {"expired", "canceled"} /\ Exit("expired")
  BY DEF Declined, Expired, Canceled, Reads
<1>2. /\ Head1 \in DownFrame /\ client.bootID # NULL /\ Head1.boot \in {NULL, client.bootID}
      /\ Told(Head1, boots)
  BY <1>1, HeadFrame
<1>3. Head1.boot = client.bootID
  BY <1>1, <1>2, WireAssumption DEF DownFrame
<1>4. /\ Head1.type = "declined" => boots[client.bootID].status = "DECLINED"
      /\ Head1.type \in {"expired", "canceled"} =>
           boots[client.bootID].status \in {"EXPIRED", "CANCELED"}
  BY <1>2, <1>3 DEF Told
<1>5. CASE Head1.type = "declined" /\ Exit("declined")
  BY <1>2, <1>4, <1>5, CauseOfExit DEF Reasons
<1>6. CASE Head1.type \in {"expired", "canceled"} /\ Exit("expired")
  BY <1>2, <1>4, <1>6, CauseOfExit DEF Reasons
<1> QED
  BY <1>1, <1>5, <1>6

\* It is refused after a cut or a failure only, and TERMINAL is true of its boot.
LEMMA ErrorStep ==
  ASSUME Talk, CalmTalk, Error, UNCHANGED <<boots, tokenLive, faults, breaks>>
  PROVE  CalmTalk' /\ ExitsForCause'
<1>1. /\ client.pc = "read" /\ wire[client.conn].down # <<>> /\ Head1.type = "error"
      /\ client \in ClientState
  BY DEF Error, Reads, Talk, ClientOK
<1>2. ~Calm
  BY <1>1, CalmHead
<1>3. CalmTalk'
  BY <1>2 DEF CalmTalk, Calm
<1>4. Over(Head1, boots)
  BY <1>1, HeadFrame
<1>5. \/ Retry(client)
      \/ Head1.arg = "TERMINAL" /\ Exit("expired")
      \/ Exit("protocol")
  BY DEF Error
<1>6. CASE Retry(client)
  <2>1. client' = [client EXCEPT !.pc = "dial", !.conn = NULL]
    BY <1>6 DEF Retry
  <2>2. client'.pc = "dial"
    BY <1>1, <2>1 DEF ClientState
  <2> QED
    BY <1>3, <2>2, NoExit
<1>7. CASE Head1.arg = "TERMINAL" /\ Exit("expired")
  BY <1>1, <1>2, <1>4, <1>7, CauseOfExit DEF Over, Reasons
<1>8. CASE Exit("protocol")
  BY <1>2, <1>8, CauseOfExit DEF Reasons
<1> QED
  BY <1>5, <1>6, <1>7, <1>8

\* It loses a connection that was cut.
LEMMA LostStep ==
  ASSUME Talk, CalmTalk, Lost, UNCHANGED <<boots, tokenLive, faults, breaks>>
  PROVE  CalmTalk' /\ ExitsForCause'
<1>1. /\ client.pc = "read" /\ client \in ClientState /\ ClientSeesEnd(wire[client.conn])
      /\ client' = [client EXCEPT !.pc = "dial", !.conn = NULL]
  BY DEF Lost, Retry, Talk, ClientOK
<1>2. client'.pc = "dial"
  BY <1>1 DEF ClientState
<1>3. ~Calm
  <2>1. \A f \in Range(wire[client.conn].down) : FALSE
    BY <1>1, RangeEmpty DEF ClientSeesEnd
  <2> QED
    BY <1>1, <2>1 DEF CalmTalk, CalmOn, ClientSeesEnd
<1>4. CalmTalk'
  BY <1>3 DEF CalmTalk, Calm
<1> QED
  BY <1>2, <1>4, NoExit

\* The launch may fail once the boot is consumed.
LEMMA LaunchStep ==
  ASSUME Talk, CalmTalk, Launch, UNCHANGED <<boots, tokenLive, faults, breaks>>
  PROVE  CalmTalk' /\ ExitsForCause'
<1>1. PICK reason \in {NULL, "config", "protocol"} :
        client' = [client EXCEPT !.pc = IF reason = NULL THEN "started" ELSE "exited",
                                 !.reason = reason]
  BY DEF Launch
<1>2. client \in ClientState /\ client.pc = "launch"
  BY DEF Launch, Talk, ClientOK
<1>3. /\ client'.pc \in {"started", "exited"} /\ client'.bootID = client.bootID
      /\ client'.pc = "exited" => client'.reason \in {"config", "protocol"}
  BY <1>1, <1>2 DEF ClientState
<1>4. client.bootID # NULL /\ boots[client.bootID].status = "CONSUMED"
  BY <1>2 DEF Talk, Acknowledged
<1>5. CalmTalk'
  BY <1>3 DEF CalmTalk
<1>6. ExitsForCause'
  BY <1>3, <1>4 DEF ExitsForCause
<1> QED
  BY <1>5, <1>6

\* A dial fails for good when the token is dead.
LEMMA ConnectStep ==
  ASSUME Talk, CalmTalk, Connect(tokenLive), UNCHANGED <<boots, tokenLive, faults>>
  PROVE  Talk' /\ CalmTalk' /\ ExitsForCause'
<1>1. client.pc = "dial" /\ UNCHANGED breaks /\ client \in ClientState /\ client.conn = NULL
      /\ wire \in [Conns -> Connection]
  BY DEF Connect, Talk, ClientOK, WireOK
<1>2. CASE ~tokenLive /\ Exit("protocol")
  <2>1. Talk'
    BY <1>1, <1>2, ExitKeepsTalk DEF Reasons
  <2>2. CalmTalk' /\ ExitsForCause'
    BY <1>1, <1>2, CauseOfExit DEF Reasons
  <2> QED
    BY <2>1, <2>2
<1>3. ASSUME NEW c \in Conns, wire[c] = Free,
             wire' = [wire EXCEPT ![c] = Opened(Handshake)],
             client' = [client EXCEPT !.pc = "read", !.conn = c]
      PROVE  Talk' /\ CalmTalk' /\ ExitsForCause'
  <2>1. Talk'
    BY <1>1, <1>3, DialKeepsTalk
  <2>2. client'.pc = "read" /\ client'.conn = c
    BY <1>1, <1>3 DEF ClientState
  <2>3. wire'[c] = Opened(Handshake) /\ \A d \in Conns \ {c} : wire'[d] = wire[d]
    BY <1>1, <1>3
  <2>4. ASSUME Calm
        PROVE  CalmOn(Opened(Handshake), boots) /\ \A d \in Conns : c # d => wire'[d] = Free
    <3>1. client.bootID = NULL /\ \A b \in Boots : boots[b] = NoBoot
      BY <1>1, <2>4 DEF CalmTalk
    <3>2. \A d \in Conns \ {c} : wire[d] = Free
      BY <1>1, <2>4, WireAssumption DEF CalmTalk
    <3>3. Handshake = Hello0 /\ Hello0.type = "hello"
      BY <3>1 DEF Handshake, Hello0, Frame
    <3> DEFINE v == Opened(Hello0)
    <3>4. ~v.cut /\ v.server /\ v.up = <<Hello0>> /\ v.down = <<>>
      BY DEF Opened
    <3>5. Range(v.up) = {Hello0} /\ Range(v.down) = {}
      BY <3>4, RangeOne, RangeEmpty
    <3> HIDE DEF v
    <3>6. CalmOn(v, boots)
      BY <3>1, <3>3, <3>4, <3>5 DEF CalmOn
    <3> QED
      BY <2>3, <3>2, <3>3, <3>6 DEF v
  <2>5. UNCHANGED boots /\ (Calm' => Calm)
    BY <1>1 DEF Calm
  <2>6. CalmTalk'
    <3>1. ASSUME NEW w, CalmOn(w, boots) PROVE CalmOn(w, boots')
      BY <2>5, <3>1 DEF CalmOn
    <3> QED
      BY <2>2, <2>3, <2>4, <2>5, <3>1 DEF CalmTalk
  <2> QED
    BY <2>1, <2>2, <2>6, NoExit
<1> QED
  BY <1>2, <1>3 DEF Connect

\* A step of Run.
LEMMA RunStep ==
  ASSUME ClientInv, Run
  PROVE  ClientInv'
<1>1. Talk /\ CalmTalk /\ UNCHANGED <<boots, tokenLive, faults>>
  BY DEF ClientInv, Run, service
<1>2. CASE Read
  <2>1. Talk'
    BY <1>1, <1>2, ReadStepKeepsTalk
  <2>2. UNCHANGED breaks
    BY <1>2 DEF Read
  <2>3. CalmTalk' /\ ExitsForCause'
    BY <1>1, <1>2, <2>2, PendingStep, ChallengeStep, ApprovedStep, ConsumedStep, ToldStep, ErrorStep,
       ClosedNever, LostStep DEF Read
  <2> QED
    BY <2>1, <2>3 DEF ClientInv
<1>3. CASE Connect(tokenLive)
  BY <1>1, <1>3, ConnectStep DEF ClientInv
<1>4. CASE Launch /\ UNCHANGED breaks
  BY <1>1, <1>4, LaunchKeepsTalk, LaunchStep DEF ClientInv
<1> QED
  BY <1>2, <1>3, <1>4 DEF Run

\* Its timeout.
LEMMA GiveUpStep ==
  ASSUME ClientInv, GiveUp
  PROVE  ClientInv'
<1>1. Talk /\ CalmTalk /\ UNCHANGED <<boots, tokenLive, faults, breaks>> /\ Exit("timeout")
  BY DEF ClientInv, GiveUp, service, Timeout
<1> QED
  BY <1>1, ExitKeepsTalk, CauseOfExit DEF ClientInv, Reasons

-----------------------------------------------------------------------------
(* Every step keeps the invariant *)

\* The end a client was told of stays the end of its boot, the payload it refused stays
\* the payload, and the token stays dead.
LEMMA CauseKept ==
  ASSUME Talk, ExitsForCause, BootsMove, UNCHANGED <<client, breaks>>, Works \/ Fails,
         tokenLive' => tokenLive
  PROVE  ExitsForCause'
<1> SUFFICES ASSUME client.pc = "exited" PROVE ExitsForCause'
  BY DEF ExitsForCause
<1>1. Calm' => Calm
  BY CalmBefore
<1>2. client.bootID \in Boots \cup {NULL}
  BY DEF Talk, ClientOK, ClientState
<1>3. CASE client.bootID = NULL
  BY <1>1, <1>3 DEF ExitsForCause, Calm
<1>4. CASE client.bootID \in Boots
  <2> DEFINE old == boots[client.bootID]
             new == boots'[client.bootID]
  <2>1. client.bootID # NULL
    BY <1>4, WireAssumption
  <2>2. /\ old.status \in Terminal => new.status = old.status
        /\ old.payload # NULL => new.payload = old.payload
    BY <1>4 DEF BootsMove, Forward
  <2>3. "incomplete" # NULL /\ "broken" # NULL
    BY ClientAssumption DEF Payloads
  <2>4. /\ client.reason = "declined" => old.status = "DECLINED"
        /\ client.reason = "expired" => old.status \in {"EXPIRED", "CANCELED", "CONSUMED"}
        /\ client.reason = "config" => old.payload = "incomplete" \/ old.status = "CONSUMED"
        /\ Calm =>
             /\ client.reason = "expired" => old.status # "CONSUMED"
             /\ client.reason = "protocol" =>
                  ~tokenLive \/ old.payload = "broken" \/ old.status = "CONSUMED"
    BY <2>1 DEF ExitsForCause, Calm
  <2> HIDE DEF old, new
  <2>5. /\ client.reason = "declined" => new.status = "DECLINED"
        /\ client.reason = "expired" => new.status \in {"EXPIRED", "CANCELED", "CONSUMED"}
        /\ client.reason = "config" => new.payload = "incomplete" \/ new.status = "CONSUMED"
        /\ Calm' =>
             /\ client.reason = "expired" => new.status # "CONSUMED"
             /\ client.reason = "protocol" =>
                  ~tokenLive' \/ new.payload = "broken" \/ new.status = "CONSUMED"
    BY <1>1, <2>2, <2>3, <2>4 DEF Terminal
  <2> QED
    BY <2>1, <2>5 DEF ExitsForCause, Calm, new
<1> QED
  BY <1>2, <1>3, <1>4

\* A frame is handled.
LEMMA ServeStep ==
  ASSUME ClientInv, NEW c \in Conns, Serve(c)
  PROVE  ClientInv'
<1>1. Talk /\ CalmTalk /\ ExitsForCause /\ UNCHANGED <<client, breaks>> /\ Handle(c)
  BY DEF ClientInv, Serve
<1>2. Works \/ Fails
  BY <1>1 DEF Handle, Hello, Resume, Proof, Attach, Acknowledge
<1>3. UNCHANGED tokenLive
  BY <1>1 DEF Handle, Hello, Resume, Proof, Acknowledge
<1>4. CASE Hello(c)
  BY <1>1, <1>2, <1>3, <1>4, HelloStep, HelloKeepsTalk, CalmHello, CauseKept DEF ClientInv
<1>5. CASE Acknowledge(c)
  BY <1>1, <1>2, <1>3, <1>5, AcknowledgeStep, ServerKeepsTalk, CalmAcknowledge, CauseKept
     DEF ClientInv, ServerStep
<1>6. CASE Resume(c) \/ Proof(c)
  <2>1. Received(c, "resume") \/ Received(c, "proof")
    BY <1>6 DEF Resume, Proof
  <2>2. ~(Calm' /\ client.pc \in {"dial", "read"})
    BY <1>1, <1>2, <2>1, CalmBefore, CalmAsks
  <2>3. CalmTalk'
    BY <1>1, <2>2 DEF CalmTalk
  <2> QED
    BY <1>1, <1>2, <1>3, <1>6, <2>3, ResumeStep, ProofStep, ServerKeepsTalk, CauseKept
       DEF ClientInv, ServerStep
<1> QED
  BY <1>1, <1>4, <1>5, <1>6 DEF Handle

\* Operators decide, deadlines pass.
LEMMA DecisionStep ==
  ASSUME ClientInv, Decision
  PROVE  ClientInv'
<1>1. Talk /\ CalmTalk /\ ExitsForCause /\ UNCHANGED <<client, breaks>>
  BY DEF ClientInv, Decision
<1>2. ASSUME NEW b \in Boots, NEW payload \in Kinds, Approve(b, payload) PROVE ClientInv'
  <2>1. (Works \/ Fails) /\ UNCHANGED tokenLive
    BY <1>2 DEF Approve
  <2> QED
    BY <1>1, <1>2, <2>1, ApproveStep, ServerKeepsTalk, CalmApprove, CauseKept DEF ClientInv, ServerStep
<1>3. ASSUME NEW b \in Boots,
             NEW event \in {"decline", "cancel", "expirePending", "expirePayload"}, EndBy(b, event)
      PROVE  ClientInv'
  <2>1. (Works \/ Fails) /\ UNCHANGED tokenLive
    BY <1>3 DEF EndBy
  <2> QED
    BY <1>1, <1>3, <2>1, EndStep, ServerKeepsTalk, CalmEnd, CauseKept DEF ClientInv, ServerStep
<1> QED
  BY <1>2, <1>3 DEF Decision, Decide, Expire

\* The token is revoked.
LEMMA RevocationStep ==
  ASSUME ClientInv, Revocation
  PROVE  ClientInv'
<1>1. Talk /\ CalmTalk /\ ExitsForCause /\ UNCHANGED <<client, breaks>> /\ Revoke
  BY DEF ClientInv, Revocation
<1>2. (Works \/ Fails) /\ ~tokenLive'
  BY <1>1 DEF Revoke
<1> QED
  BY <1>1, <1>2, RevokeStep, ServerKeepsTalk, CalmRevoke, CauseKept DEF ClientInv, ServerStep

\* A step elsewhere keeps the cause.
LEMMA CauseStays ==
  ASSUME ExitsForCause, UNCHANGED <<client, boots, tokenLive>>, Calm' => Calm
  PROVE  ExitsForCause'
BY DEF ExitsForCause, Calm

\* A connection is cut.
LEMMA BreakStep ==
  ASSUME ClientInv, Break
  PROVE  ClientInv'
<1>1. /\ Talk /\ CalmTalk /\ ExitsForCause /\ UNCHANGED <<client, boots, tokenLive, faults>>
      /\ \E c \in Conns : Cut(c)
  BY DEF ClientInv, Break, service
<1>2. Talk' /\ breaks' > 0
  BY <1>1, CutKeepsTalk
<1>3. ~Calm'
  BY <1>2 DEF Calm
<1>4. CalmTalk'
  BY <1>3 DEF CalmTalk
<1> QED
  BY <1>1, <1>2, <1>3, <1>4, CauseStays DEF ClientInv

\* The object notices.
LEMMA DetectStep ==
  ASSUME ClientInv, NEW c \in Conns, Detect(c)
  PROVE  ClientInv'
<1>1. /\ Talk /\ CalmTalk /\ ExitsForCause /\ UNCHANGED <<client, boots, tokenLive, faults>>
      /\ ServerDetects(c)
  BY DEF ClientInv, Detect, service
<1>2. /\ Talk' /\ UNCHANGED breaks /\ wire[c].server /\ (wire[c].cut \/ ~wire[c].client)
  BY <1>1, DetectKeepsTalk
<1>3. Calm' => Calm
  BY <1>1, <1>2 DEF Calm
<1>4. CalmTalk'
  <2>1. ASSUME Calm, client.pc \in {"dial", "read"} PROVE FALSE
    BY <1>1, <1>2, <2>1, CalmOne DEF CalmOn
  <2> QED
    BY <1>1, <1>3, <2>1 DEF CalmTalk
<1> QED
  BY <1>1, <1>2, <1>3, <1>4, CauseStays DEF ClientInv

-----------------------------------------------------------------------------
(* The invariant *)

\* A step that changes nothing changes nothing.
LEMMA InvStays ==
  ASSUME ClientInv, UNCHANGED vars
  PROVE  ClientInv'
<1>1. Talk'
  BY DEF ClientInv, vars, Talk, WireOK, ClientOK, BootsOK, CountsOK, OneBoot, FramesTrue, Told, Over,
         ClosesLast, ReceivedTrue, Acknowledged, PayloadOnApproval
<1>2. CalmTalk' /\ ExitsForCause'
  BY CalmRest, CauseStays DEF ClientInv, vars, Calm
<1> QED
  BY <1>1, <1>2 DEF ClientInv

\* The invariant holds before the client dials,
LEMMA InvAtFirst ==
  ASSUME Init
  PROVE  ClientInv
<1>1. /\ client.pc = "dial" /\ client.conn = NULL /\ client.bootID = NULL /\ client.approved = NULL
      /\ client \in ClientState
  BY DEF Init, NewSession, ClientState
<1>2. \A c \in Conns : wire[c] = Free
  BY DEF Init
<1>3. \A b \in Boots : boots[b] = NoBoot
  BY DEF Init
<1>4. "good" # NULL
  BY ClientAssumption DEF Payloads
<1>5. Free.client = FALSE /\ Free.up = <<>> /\ Free.down = <<>> /\ Ends(Free) /\ Free \in Connection
  BY FreeConnection DEF Free
<1>6. WireOK
  BY <1>1, <1>2, <1>5, WireAssumption DEF WireOK, Init
<1>7. ClientOK
  BY <1>1, <1>4 DEF ClientOK
<1>8. BootsOK
  <2>1. NoBoot \in BootRow
    BY DEF NoBoot, BootRow
  <2> QED
    BY <2>1 DEF BootsOK, Init
<1>9. CountsOK
  BY WireAssumption, ServiceAssumption DEF CountsOK, Init
<1>10. OneBoot
  BY <1>1 DEF OneBoot
<1>11. FramesTrue /\ ClosesLast /\ ReceivedTrue
  BY <1>2, <1>5, RangeEmpty, EmptySealed DEF FramesTrue, ClosesLast, ReceivedTrue
<1>12. Acknowledged /\ PayloadOnApproval
  BY <1>1, <1>3, <1>4, NoBootFields DEF Acknowledged, PayloadOnApproval, NoStatus
<1>13. CalmTalk
  BY <1>1, <1>2, <1>3 DEF CalmTalk
<1>14. ExitsForCause
  BY <1>1 DEF ExitsForCause
<1> QED
  BY <1>6, <1>7, <1>8, <1>9, <1>10, <1>11, <1>12, <1>13, <1>14 DEF ClientInv, Talk

\* and every step keeps it.
LEMMA InvKept ==
  ASSUME ClientInv, [Next]_vars
  PROVE  ClientInv'
BY RunStep, GiveUpStep, ServeStep, DetectStep, DecisionStep, RevocationStep, BreakStep, InvStays
   DEF Next

\* In every run: frames on their way are true, and without cuts or failures the first
\* connection is the only one.
THEOREM ClientInvariant == Spec => []ClientInv
<1>1. Init => ClientInv
  BY InvAtFirst
<1>2. ClientInv /\ [Next]_vars => ClientInv'
  BY InvKept
<1> QED
  BY <1>1, <1>2, PTL DEF Spec

\* Every variable has its type, and the client holds an end of its own connection only
\* (Wire, EnvClient, BootService).
THEOREM ClientTypeOK == Spec => []TypeOK
<1>1. ClientInv => TypeOK
  <2> SUFFICES ASSUME ClientInv PROVE TypeOK
    OBVIOUS
  <2>1. Talk
    BY DEF ClientInv
  <2>2. \A c \in Conns : /\ wire[c].boot \in Boots \cup {NULL}
                         /\ wire[c].client <=> client.conn = c
                         /\ ~(wire[c].client \/ wire[c].server) => wire[c] = Free
    BY <2>1 DEF Talk, WireOK, Connection, Ends
  <2> QED
    BY <2>1, <2>2 DEF Talk, ClientOK, BootsOK, CountsOK, TypeOK
<1> QED
  BY <1>1, ClientInvariant, PTL

\* The exit reason of Session.Run is what became of the boot at the object: declined and
\* expired as decided, config for the payload; and with no cut and no failure a
\* protocol error needs a dead token, a broken payload or a failed launch.
THEOREM ExitsForCauseHolds == Spec => []ExitsForCause
<1>1. ClientInv => ExitsForCause
  BY DEF ClientInv
<1> QED
  BY <1>1, ClientInvariant, PTL

-----------------------------------------------------------------------------
(* The handover *)

\* BootHandover sees the boot whose payload the client opened,
OpenedBoot == IF client.approved = "good" THEN client.bootID ELSE NULL

\* the rows handleReceived consumed,
ConsumedBoots == {b \in Boots : boots[b].status = "CONSUMED"}

\* and how Run ended.
Outcome == IF client.pc \in {"started", "exited"} THEN client.pc ELSE "running"

\* A step of BootHandover, or none.
HandoverMove ==
  \/ UNCHANGED <<OpenedBoot, ConsumedBoots, Outcome>>
  \/ \E b \in Boots :
       \/ /\ Outcome = "running" /\ OpenedBoot \in {NULL, b}
          /\ OpenedBoot' = b
          /\ UNCHANGED <<ConsumedBoots, Outcome>>
       \/ /\ OpenedBoot = b
          /\ ConsumedBoots' = {b}
          /\ UNCHANGED <<OpenedBoot, Outcome>>
  \/ /\ Outcome = "running" /\ OpenedBoot \in ConsumedBoots
     /\ Outcome' = "started"
     /\ UNCHANGED <<OpenedBoot, ConsumedBoots>>
  \/ /\ Outcome = "running"
     /\ Outcome' = "exited"
     /\ UNCHANGED <<OpenedBoot, ConsumedBoots>>

\* A handler consumes the boot the client opened, or nothing BootHandover sees.
LEMMA ServerHandsOver ==
  ASSUME Talk, Talk', BootsMove, UNCHANGED client
  PROVE  HandoverMove
<1>1. UNCHANGED OpenedBoot /\ UNCHANGED Outcome
  BY DEF OpenedBoot, Outcome
<1>2. \A b \in Boots : boots[b].status = "CONSUMED" => boots'[b].status = "CONSUMED"
  BY DEF BootsMove, Forward, Terminal
<1>3. CASE \A b \in Boots : boots'[b].status = "CONSUMED" => boots[b].status = "CONSUMED"
  <2>1. UNCHANGED ConsumedBoots
    BY <1>2, <1>3 DEF ConsumedBoots
  <2> QED
    BY <1>1, <2>1 DEF HandoverMove
<1>4. ASSUME NEW b \in Boots, boots'[b].status = "CONSUMED", boots[b].status # "CONSUMED"
      PROVE  HandoverMove
  <2>1. client.approved = "good" /\ client.bootID = b
    BY <1>4 DEF BootsMove
  <2>2. OpenedBoot = b
    BY <2>1 DEF OpenedBoot
  <2>3. \A d \in Boots : boots'[d].status = "CONSUMED" => d = b
    BY <2>1 DEF Talk, Acknowledged
  <2>4. ConsumedBoots' = {b}
    BY <1>4, <2>3 DEF ConsumedBoots
  <2> QED
    BY <1>1, <2>2, <2>4 DEF HandoverMove
<1> QED
  BY <1>3, <1>4

\* The client goes on with what it opened.
LEMMA ClientStays ==
  ASSUME UNCHANGED boots, client.pc \notin {"started", "exited"},
         client'.pc \notin {"started", "exited"}, UNCHANGED OpenedBoot
  PROVE  HandoverMove
<1>1. UNCHANGED ConsumedBoots /\ UNCHANGED Outcome
  BY DEF ConsumedBoots, Outcome
<1> QED
  BY <1>1 DEF HandoverMove

\* It exits.
LEMMA ClientExits ==
  ASSUME Talk, UNCHANGED boots, NEW reason, Exit(reason), client.pc \in {"dial", "read"}
  PROVE  HandoverMove
<1>1. client' = [client EXCEPT !.pc = "exited", !.reason = reason, !.conn = NULL]
      /\ client \in ClientState
  BY DEF Exit, Talk, ClientOK
<1>2. client'.pc = "exited" /\ client'.bootID = client.bootID /\ client'.approved = client.approved
  BY <1>1 DEF ClientState
<1>3. UNCHANGED OpenedBoot /\ UNCHANGED ConsumedBoots /\ Outcome = "running" /\ Outcome' = "exited"
  BY <1>2 DEF OpenedBoot, ConsumedBoots, Outcome
<1> QED
  BY <1>3 DEF HandoverMove

\* It opens a payload (again), or exits.
LEMMA ClientOpens ==
  ASSUME Talk, UNCHANGED boots, Approved
  PROVE  HandoverMove
<1>1. /\ client.pc = "read" /\ client.bootID \in Boots /\ Head1.boot = client.bootID
      /\ client \in ClientState
  BY ApprovedFacts DEF Talk, ClientOK
<1>2. CASE ~Accepts(client, Head1)
  BY <1>1, <1>2, ClientExits DEF Approved
<1>3. CASE Accepts(client, Head1)
  <2> DEFINE open == [client EXCEPT !.bootID = Head1.boot, !.approved = Head1.arg]
  <2>1. Head1.arg = "good"
    BY <1>3, ApprovedFacts
  <2>2. \/ client' = [open EXCEPT !.acked = TRUE]
        \/ client' = [open EXCEPT !.pc = "dial", !.conn = NULL]
    BY <1>3 DEF Approved, Answer, Retry
  <2>3. /\ client'.pc \in {"read", "dial"} /\ client'.approved = "good"
        /\ client'.bootID = client.bootID
    BY <1>1, <2>1, <2>2 DEF ClientState
  <2>4. OpenedBoot' = client.bootID /\ OpenedBoot \in {NULL, client.bootID}
    BY <2>3 DEF OpenedBoot
  <2>5. UNCHANGED ConsumedBoots /\ Outcome = "running" /\ Outcome' = "running"
    BY <1>1, <2>3 DEF ConsumedBoots, Outcome
  <2> QED
    BY <1>1, <2>4, <2>5 DEF HandoverMove
<1> QED
  BY <1>2, <1>3

\* Whatever it reads.
LEMMA ClientReads ==
  ASSUME Talk, Read, UNCHANGED <<boots, tokenLive, faults>>
  PROVE  HandoverMove
<1>1. client \in ClientState /\ UNCHANGED breaks
  BY DEF Talk, ClientOK, Read
<1>2. CASE Approved
  BY <1>2, ClientOpens
<1>3. CASE Pending
  <2>1. client.pc = "read" /\ client.bootID = NULL /\ client' = [client EXCEPT !.bootID = Head1.boot]
    BY <1>1, <1>3, PendingKeepsTalk DEF Pending, Reads
  <2>2. client'.pc = "read" /\ client'.approved = client.approved
    BY <1>1, <2>1 DEF ClientState
  <2>3. client.approved # "good"
    BY <2>1 DEF Talk, ClientOK
  <2>4. UNCHANGED OpenedBoot
    BY <2>2, <2>3 DEF OpenedBoot
  <2> QED
    BY <2>1, <2>2, <2>4, ClientStays
<1>4. CASE Challenge \/ Resumed
  <2>1. client.pc = "read" /\ client' = client
    BY <1>1, <1>4, ChallengeKeepsTalk, ResumedKeepsTalk DEF Challenge, Resumed, Reads
  <2>2. UNCHANGED OpenedBoot
    BY <2>1 DEF OpenedBoot
  <2> QED
    BY <2>1, <2>2, ClientStays
<1>5. CASE Declined \/ Expired \/ Canceled
  BY <1>5, ClientExits DEF Declined, Expired, Canceled, Reads
<1>6. CASE Consumed \/ Error \/ Lost
  <2>1. client.pc = "read"
    BY <1>6 DEF Consumed, Error, Lost, Reads
  <2>2. CASE Exit("expired") \/ Exit("protocol")
    BY <2>1, <2>2, ClientExits
  <2>3. CASE Finish \/ Retry(client)
    <3>1. \/ client' = [client EXCEPT !.pc = "launch", !.conn = NULL]
          \/ client' = [client EXCEPT !.pc = "dial", !.conn = NULL]
      BY <2>3 DEF Finish, Retry
    <3>2. /\ client'.pc \in {"launch", "dial"} /\ client'.bootID = client.bootID
          /\ client'.approved = client.approved
      BY <1>1, <3>1 DEF ClientState
    <3>3. UNCHANGED OpenedBoot
      BY <3>2 DEF OpenedBoot
    <3> QED
      BY <2>1, <3>2, <3>3, ClientStays
  <2> QED
    BY <1>6, <2>2, <2>3 DEF Consumed, Error, Lost
<1> QED
  BY <1>2, <1>3, <1>4, <1>5, <1>6, ClosedNever DEF Read

\* It dials, or exits for a dead token.
LEMMA ClientDials ==
  ASSUME Talk, Connect(tokenLive), UNCHANGED boots
  PROVE  HandoverMove
<1>1. client.pc = "dial" /\ client \in ClientState
  BY DEF Connect, Talk, ClientOK
<1>2. CASE Exit("protocol")
  BY <1>1, <1>2, ClientExits
<1>3. ASSUME NEW c \in Conns, client' = [client EXCEPT !.pc = "read", !.conn = c]
      PROVE  HandoverMove
  <2>1. client'.pc = "read" /\ client'.bootID = client.bootID /\ client'.approved = client.approved
    BY <1>1, <1>3 DEF ClientState
  <2>2. UNCHANGED OpenedBoot
    BY <2>1 DEF OpenedBoot
  <2> QED
    BY <1>1, <2>1, <2>2, ClientStays
<1> QED
  BY <1>2, <1>3 DEF Connect

\* It starts the application with the payload of a consumed boot, or exits.
LEMMA ClientLaunches ==
  ASSUME Talk, Launch, UNCHANGED boots
  PROVE  HandoverMove
<1>1. PICK reason \in {NULL, "config", "protocol"} :
        client' = [client EXCEPT !.pc = IF reason = NULL THEN "started" ELSE "exited",
                                 !.reason = reason]
  BY DEF Launch
<1>2. client \in ClientState /\ client.pc = "launch"
  BY DEF Launch, Talk, ClientOK
<1>3. /\ client'.pc \in {"started", "exited"} /\ client'.bootID = client.bootID
      /\ client'.approved = client.approved
  BY <1>1, <1>2 DEF ClientState
<1>4. /\ client.bootID \in Boots /\ boots[client.bootID].status = "CONSUMED"
      /\ client.approved = "good"
  BY <1>2 DEF Talk, ClientOK, ClientState, Acknowledged
<1>5. UNCHANGED OpenedBoot /\ UNCHANGED ConsumedBoots /\ OpenedBoot \in ConsumedBoots
  BY <1>3, <1>4 DEF OpenedBoot, ConsumedBoots
<1>6. Outcome = "running" /\ Outcome' \in {"started", "exited"}
  BY <1>2, <1>3 DEF Outcome
<1> QED
  BY <1>5, <1>6 DEF HandoverMove

\* Every step of the system is one of BootHandover, or none.
LEMMA HandsOver ==
  ASSUME ClientInv, ClientInv', [Next]_vars
  PROVE  HandoverMove
<1>1. Talk /\ Talk'
  BY DEF ClientInv
<1>2. CASE Run
  BY <1>1, <1>2, ClientReads, ClientDials, ClientLaunches DEF Run, service
<1>3. CASE GiveUp
  BY <1>1, <1>3, ClientExits DEF GiveUp, Timeout, service
<1>4. ASSUME NEW c \in Conns, Serve(c) PROVE HandoverMove
  <2>1. UNCHANGED client /\ BootsMove
    BY <1>1, <1>4, HelloStep, ResumeStep, ProofStep, AcknowledgeStep DEF Serve, Handle, ServerStep
  <2> QED
    BY <1>1, <2>1, ServerHandsOver
<1>5. CASE Decision
  <2>1. UNCHANGED client /\ BootsMove
    BY <1>1, <1>5, ApproveStep, EndStep DEF Decision, Decide, Expire, ServerStep
  <2> QED
    BY <1>1, <2>1, ServerHandsOver
<1>6. CASE Revocation
  <2>1. UNCHANGED client /\ BootsMove
    BY <1>1, <1>6, RevokeStep DEF Revocation, ServerStep
  <2> QED
    BY <1>1, <2>1, ServerHandsOver
<1>7. CASE UNCHANGED <<client, boots>>
  BY <1>1, <1>7, BootsRest, ServerHandsOver
<1> QED
  BY <1>2, <1>3, <1>4, <1>5, <1>6, <1>7 DEF Next, Detect, Break, service, vars

\* Client and object implement BootHandover: a boot is consumed only by the client that
\* opened its payload, and the application starts once, after that, however often
\* connections are cut, frames lost or handlers stopped by D1.
THEOREM ImplementsHandoverHolds == Spec => ImplementsHandover
<1>1. Init => Handover!Init
  <2> SUFFICES ASSUME Init PROVE Handover!Init
    OBVIOUS
  <2>1. client.approved = NULL /\ client.pc = "dial"
    BY DEF Init, NewSession
  <2>2. "good" # NULL
    BY ClientAssumption DEF Payloads
  <2>3. {b \in Boots : boots[b].status = "CONSUMED"} = {}
    BY NoBootFields DEF Init, NoStatus
  <2> QED
    BY <2>1, <2>2, <2>3 DEF Handover!Init
<1>2. HandoverMove => [Handover!Next]_(Handover!vars)
  BY DEF HandoverMove, OpenedBoot, ConsumedBoots, Outcome, Handover!Next, Handover!vars,
         Handover!Open, Handover!Consume, Handover!Start, Handover!Exit
<1>3. ClientInv /\ ClientInv' /\ [Next]_vars => [Handover!Next]_(Handover!vars)
  BY <1>2, HandsOver
<1> QED
  BY <1>1, <1>3, ClientInvariant, PTL DEF Spec, ImplementsHandover, Handover!Spec

=============================================================================
