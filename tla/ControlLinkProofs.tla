------------------------- MODULE ControlLinkProofs -------------------------
(***************************************************************************)
(* Proofs about ControlLink for any calls and limits: the types, the       *)
(* inductive invariant LinkInv, that a call reported `not_sent' never      *)
(* runs, that the link implements CallContract, that an answer the plugin  *)
(* holds back is not lost, and that an end that has closed stays quiet.    *)
(***************************************************************************)
EXTENDS ControlLink, SequenceTheorems, TLAPS

-----------------------------------------------------------------------------
(* Frames and sequences of frames. *)

\* What a frame can be.
LEMMA FrameShape ==
  ASSUME NEW f \in Frames
  PROVE  /\ f.type \in {"hello", "ack", "req", "res"}
         /\ f.type = "req" => f.call \in Calls /\ f.tag \in {"full", "cut"}
         /\ f.type = "res" => f.call \in Calls /\ f.tag \in {"ok", "error", "truncated"}
BY DEF Frames, Hello, HelloAck, Request, Response

\* Requests and responses are frames.
LEMMA MakeFrame ==
  ASSUME NEW c \in Calls
  PROVE  /\ \A t \in {"full", "cut"} : /\ Request(c, t) \in Frames
                                       /\ Request(c, t).type = "req"
                                       /\ Request(c, t).call = c
         /\ \A t \in {"ok", "error", "truncated"} : /\ Response(c, t) \in Frames
                                                    /\ Response(c, t).type = "res"
                                                    /\ Response(c, t).call = c
BY DEF Frames, Request, Response

\* The acknowledgement is a frame.
LEMMA MakeAck == HelloAck \in Frames /\ HelloAck.type = "ack"
BY DEF Frames, HelloAck

\* An empty queue carries nothing.
LEMMA NoFrames ==
  /\ <<>> \in Seq(Frames) /\ Len(<<>>) = 0
  /\ Requested(<<>>) = {} /\ Responded(<<>>) = {} /\ OneRequestEach(<<>>)
BY DEF Requested, Responded, OneRequestEach, SeqRange

\* Appending a frame adds its call, and keeps requests unique if it is new.
LEMMA AppendFrame ==
  ASSUME NEW s \in Seq(Frames), NEW f \in Frames
  PROVE  /\ Append(s, f) \in Seq(Frames)
         /\ Len(Append(s, f)) = Len(s) + 1
         /\ Requested(Append(s, f)) =
              Requested(s) \cup (IF f.type = "req" THEN {f.call} ELSE {})
         /\ Responded(Append(s, f)) =
              Responded(s) \cup (IF f.type = "res" THEN {f.call} ELSE {})
         /\ OneRequestEach(s) /\ (f.type = "req" => f.call \notin Requested(s))
              => OneRequestEach(Append(s, f))
<1> DEFINE a == Append(s, f)
<1>1. /\ a \in Seq(Frames) /\ Len(a) = Len(s) + 1
      /\ \A i \in 1..Len(s) : a[i] = s[i]
      /\ a[Len(s) + 1] = f
      /\ DOMAIN a = 1..(Len(s) + 1) /\ DOMAIN s = 1..Len(s) /\ Len(s) \in Nat
  BY AppendProperties, LenProperties
<1>2. SeqRange(a) = SeqRange(s) \cup {f}
  BY <1>1 DEF SeqRange
<1>3. f.type \in {"req", "res"} => f.call \in Calls
  BY FrameShape
<1>4. Requested(a) = Requested(s) \cup (IF f.type = "req" THEN {f.call} ELSE {})
  BY <1>2, <1>3 DEF Requested, IsRequest
<1>5. Responded(a) = Responded(s) \cup (IF f.type = "res" THEN {f.call} ELSE {})
  BY <1>2, <1>3 DEF Responded
<1>6. ASSUME OneRequestEach(s), f.type = "req" => f.call \notin Requested(s)
      PROVE  OneRequestEach(a)
  <2>1. \A i \in 1..Len(s) : s[i].type = "req" /\ f.type = "req" => s[i].call # f.call
    BY <1>1, <1>3, <1>6 DEF Requested, IsRequest, SeqRange
  <2> QED
    BY <1>1, <1>6, <2>1 DEF OneRequestEach
<1> QED
  BY <1>1, <1>4, <1>5, <1>6

\* Taking the head away takes its call away.
LEMMA HeadTail ==
  ASSUME NEW s \in Seq(Frames), s # <<>>
  PROVE  /\ Head(s) \in Frames /\ Tail(s) \in Seq(Frames)
         /\ Len(Tail(s)) = Len(s) - 1 /\ Len(s) > 0
         /\ Requested(s) =
              Requested(Tail(s)) \cup (IF Head(s).type = "req" THEN {Head(s).call} ELSE {})
         /\ Responded(s) =
              Responded(Tail(s)) \cup (IF Head(s).type = "res" THEN {Head(s).call} ELSE {})
         /\ OneRequestEach(s) =>
              /\ OneRequestEach(Tail(s))
              /\ Head(s).type = "req" => Head(s).call \notin Requested(Tail(s))
<1> DEFINE t == Tail(s)
<1>1. /\ Head(s) \in Frames /\ t \in Seq(Frames)
      /\ Head(s) = s[1] /\ Len(s) \in Nat /\ Len(s) > 0
      /\ Len(t) = Len(s) - 1
      /\ DOMAIN s = 1..Len(s) /\ DOMAIN t = 1..(Len(s) - 1)
      /\ \A i \in 1..(Len(s) - 1) : t[i] = s[i + 1]
  BY HeadTailProperties, LenProperties, EmptySeq
<1>2. SeqRange(s) = SeqRange(t) \cup {s[1]}
  <2>1. \A i \in 1..(Len(s) - 1) : i + 1 \in 1..Len(s)
    BY <1>1
  <2>2. SeqRange(t) \cup {s[1]} \subseteq SeqRange(s)
    BY <1>1, <2>1 DEF SeqRange
  <2>3. ASSUME NEW i \in 1..Len(s), i # 1
        PROVE  s[i] \in SeqRange(t)
    <3>1. i - 1 \in 1..(Len(s) - 1) /\ (i - 1) + 1 = i
      BY <1>1, <2>3
    <3>2. t[i - 1] = s[i]
      BY <1>1, <3>1
    <3> QED
      BY <1>1, <3>1, <3>2 DEF SeqRange
  <2> QED
    BY <1>1, <2>2, <2>3 DEF SeqRange
<1>3. Head(s).type \in {"req", "res"} => Head(s).call \in Calls
  BY <1>1, FrameShape
<1>4. /\ Requested(s) = Requested(t) \cup (IF Head(s).type = "req" THEN {Head(s).call} ELSE {})
      /\ Responded(s) = Responded(t) \cup (IF Head(s).type = "res" THEN {Head(s).call} ELSE {})
  BY <1>1, <1>2, <1>3 DEF Requested, Responded, IsRequest
<1>5. ASSUME OneRequestEach(s)
      PROVE  /\ OneRequestEach(t)
             /\ Head(s).type = "req" => Head(s).call \notin Requested(t)
  <2>1. OneRequestEach(t)
    BY <1>1, <1>5 DEF OneRequestEach
  <2>2. ASSUME Head(s).type = "req", Head(s).call \in Requested(t) PROVE FALSE
    <3>1. PICK i \in DOMAIN t : t[i].type = "req" /\ t[i].call = s[1].call
      BY <1>1, <2>2 DEF Requested, IsRequest, SeqRange
    <3>2. i + 1 \in DOMAIN s /\ 1 \in DOMAIN s /\ s[i + 1] = t[i] /\ i + 1 # 1
      BY <1>1
    <3> QED
      BY <1>1, <1>5, <2>2, <3>1, <3>2 DEF OneRequestEach
  <2> QED
    BY <2>1, <2>2
<1> QED
  BY <1>1, <1>4, <1>5
\* A window of a sequence: a slice of its frames, requests still unique.
LEMMA Window ==
  ASSUME NEW s \in Seq(Frames), NEW m \in 1..(Len(s) + 1), NEW n \in 0..Len(s)
  PROVE  /\ SubSeq(s, m, n) \in Seq(Frames)
         /\ Len(SubSeq(s, m, n)) = IF m <= n THEN n - m + 1 ELSE 0
         /\ SeqRange(SubSeq(s, m, n)) = {s[i] : i \in m..n}
         /\ OneRequestEach(s) => OneRequestEach(SubSeq(s, m, n))
<1> DEFINE w == SubSeq(s, m, n)
<1>1. /\ Len(s) \in Nat /\ DOMAIN s = 1..Len(s)
      /\ \A i \in 1..Len(s) : s[i] \in Frames
      /\ m \in Int /\ n \in Int
  BY LenProperties, ElementOfSeq
<1>2. \A i \in m..n : s[i] \in Frames
  BY <1>1
<1>3. /\ w \in Seq(Frames)
      /\ Len(w) = IF m <= n THEN n - m + 1 ELSE 0
      /\ \A i \in 1..(n - m + 1) : w[i] = s[m + i - 1]
  BY <1>1, <1>2, SubSeqProperties
<1>4. DOMAIN w = 1..(n - m + 1)
  BY <1>1, <1>3, LenProperties
<1>5. SeqRange(w) = {s[i] : i \in m..n}
  <2>1. \A i \in 1..(n - m + 1) : m + i - 1 \in m..n
    BY <1>1
  <2>2. SeqRange(w) \subseteq {s[i] : i \in m..n}
    BY <1>3, <1>4, <2>1 DEF SeqRange
  <2>3. ASSUME NEW i \in m..n PROVE s[i] \in SeqRange(w)
    <3>1. i - m + 1 \in 1..(n - m + 1) /\ m + (i - m + 1) - 1 = i
      BY <1>1
    <3>2. w[i - m + 1] = s[i]
      BY <1>3, <3>1
    <3> QED
      BY <1>4, <3>1, <3>2 DEF SeqRange
  <2> QED
    BY <2>2, <2>3
<1>6. ASSUME OneRequestEach(s) PROVE OneRequestEach(w)
  <2> SUFFICES ASSUME NEW i \in 1..(n - m + 1), NEW j \in 1..(n - m + 1),
                      w[i].type = "req", w[j].type = "req", w[i].call = w[j].call
               PROVE  i = j
    BY <1>4 DEF OneRequestEach
  <2>1. /\ m + i - 1 \in DOMAIN s /\ m + j - 1 \in DOMAIN s
        /\ w[i] = s[m + i - 1] /\ w[j] = s[m + j - 1]
    BY <1>1, <1>3
  <2>2. m + i - 1 = m + j - 1
    BY <1>6, <2>1 DEF OneRequestEach
  <2> QED
    BY <1>1, <2>2
<1> QED
  BY <1>3, <1>5, <1>6

\* A prefix carries no call the whole does not.
LEMMA Prefix ==
  ASSUME NEW s \in Seq(Frames), NEW n \in 0..Len(s)
  PROVE  /\ SubSeq(s, 1, n) \in Seq(Frames)
         /\ Len(SubSeq(s, 1, n)) <= Len(s)
         /\ Requested(SubSeq(s, 1, n)) \subseteq Requested(s)
         /\ Responded(SubSeq(s, 1, n)) \subseteq Responded(s)
         /\ OneRequestEach(s) => OneRequestEach(SubSeq(s, 1, n))
<1>1. Len(s) \in Nat /\ DOMAIN s = 1..Len(s)
  BY LenProperties
<1>2. 1 \in 1..(Len(s) + 1)
  BY <1>1
<1>3. SeqRange(SubSeq(s, 1, n)) \subseteq SeqRange(s)
  BY <1>1, <1>2, Window DEF SeqRange
<1>4. Len(SubSeq(s, 1, n)) <= Len(s)
  BY <1>1, <1>2, Window
<1> QED
  BY <1>2, <1>3, <1>4, Window DEF Requested, Responded, IsRequest

\* Cutting a sequence in two shares its frames out.
LEMMA Split ==
  ASSUME NEW s \in Seq(Frames), NEW n \in 0..Len(s)
  PROVE  /\ SubSeq(s, 1, n) \in Seq(Frames) /\ Len(SubSeq(s, 1, n)) = n
         /\ SubSeq(s, n + 1, Len(s)) \in Seq(Frames)
         /\ Requested(s) = Requested(SubSeq(s, 1, n)) \cup Requested(SubSeq(s, n + 1, Len(s)))
         /\ Responded(s) = Responded(SubSeq(s, 1, n)) \cup Responded(SubSeq(s, n + 1, Len(s)))
         /\ OneRequestEach(s) =>
              /\ OneRequestEach(SubSeq(s, 1, n)) /\ OneRequestEach(SubSeq(s, n + 1, Len(s)))
              /\ Requested(SubSeq(s, 1, n)) \cap Requested(SubSeq(s, n + 1, Len(s))) = {}
<1> DEFINE a == SubSeq(s, 1, n)
           b == SubSeq(s, n + 1, Len(s))
<1>1. Len(s) \in Nat /\ DOMAIN s = 1..Len(s) /\ n \in Nat
  BY LenProperties
<1>2. /\ 1 \in 1..(Len(s) + 1) /\ n + 1 \in 1..(Len(s) + 1)
      /\ Len(s) \in 0..Len(s)
  BY <1>1
<1>3. /\ a \in Seq(Frames) /\ SeqRange(a) = {s[i] : i \in 1..n}
      /\ Len(a) = IF 1 <= n THEN n - 1 + 1 ELSE 0
      /\ OneRequestEach(s) => OneRequestEach(a)
  BY <1>2, Window
<1>4. /\ b \in Seq(Frames) /\ SeqRange(b) = {s[i] : i \in (n + 1)..Len(s)}
      /\ OneRequestEach(s) => OneRequestEach(b)
  BY <1>2, Window
<1>5. SeqRange(s) = SeqRange(a) \cup SeqRange(b)
  <2>1. 1..Len(s) = (1..n) \cup ((n + 1)..Len(s))
    BY <1>1
  <2> QED
    BY <1>1, <1>3, <1>4, <2>1 DEF SeqRange
<1>6. ASSUME OneRequestEach(s), NEW c \in Requested(a), c \in Requested(b)
      PROVE  FALSE
  <2>1. PICK i \in 1..n : s[i].type = "req" /\ s[i].call = c
    BY <1>3, <1>6 DEF Requested, IsRequest
  <2>2. PICK j \in (n + 1)..Len(s) : s[j].type = "req" /\ s[j].call = c
    BY <1>4, <1>6 DEF Requested, IsRequest
  <2>3. i \in DOMAIN s /\ j \in DOMAIN s /\ i # j
    BY <1>1, <2>1, <2>2
  <2> QED
    BY <1>6, <2>1, <2>2, <2>3 DEF OneRequestEach
<1>7. Len(a) = n
  BY <1>1, <1>3
<1>8. /\ Requested(s) = Requested(a) \cup Requested(b)
      /\ Responded(s) = Responded(a) \cup Responded(b)
  BY <1>5 DEF Requested, Responded, IsRequest
<1> QED
  BY <1>3, <1>4, <1>6, <1>7, <1>8

\* Joining two sequences.
LEMMA Join ==
  ASSUME NEW s \in Seq(Frames), NEW t \in Seq(Frames)
  PROVE  /\ s \o t \in Seq(Frames) /\ Len(s \o t) = Len(s) + Len(t)
         /\ Requested(s \o t) = Requested(s) \cup Requested(t)
         /\ Responded(s \o t) = Responded(s) \cup Responded(t)
         /\ /\ OneRequestEach(s) /\ OneRequestEach(t)
            /\ Requested(s) \cap Requested(t) = {}
            => OneRequestEach(s \o t)
<1> DEFINE u == s \o t
<1>1. /\ Len(s) \in Nat /\ DOMAIN s = 1..Len(s)
      /\ Len(t) \in Nat /\ DOMAIN t = 1..Len(t)
      /\ \A i \in 1..Len(s) : s[i] \in Frames
      /\ \A i \in 1..Len(t) : t[i] \in Frames
  BY LenProperties, ElementOfSeq
<1>2. /\ u \in Seq(Frames) /\ Len(u) = Len(s) + Len(t)
      /\ DOMAIN u = 1..(Len(s) + Len(t))
      /\ \A i \in 1..(Len(s) + Len(t)) :
            u[i] = IF i <= Len(s) THEN s[i] ELSE t[i - Len(s)]
  BY ConcatProperties, LenProperties
<1>3. SeqRange(u) = SeqRange(s) \cup SeqRange(t)
  <2>1. ASSUME NEW i \in 1..(Len(s) + Len(t)) PROVE u[i] \in SeqRange(s) \cup SeqRange(t)
    <3>1. CASE i <= Len(s)
      BY <1>1, <1>2, <3>1 DEF SeqRange
    <3>2. CASE ~(i <= Len(s))
      <4>1. i - Len(s) \in 1..Len(t) /\ u[i] = t[i - Len(s)]
        BY <1>1, <1>2, <3>2
      <4> QED
        BY <1>1, <4>1 DEF SeqRange
    <3> QED
      BY <3>1, <3>2
  <2>2. ASSUME NEW i \in 1..Len(s) PROVE s[i] \in SeqRange(u)
    <3>1. i \in 1..(Len(s) + Len(t)) /\ u[i] = s[i]
      BY <1>1, <1>2
    <3> QED
      BY <1>2, <3>1 DEF SeqRange
  <2>3. ASSUME NEW i \in 1..Len(t) PROVE t[i] \in SeqRange(u)
    <3>1. /\ Len(s) + i \in 1..(Len(s) + Len(t)) /\ ~(Len(s) + i <= Len(s))
          /\ (Len(s) + i) - Len(s) = i
      BY <1>1
    <3>2. u[Len(s) + i] = t[i]
      BY <1>2, <3>1
    <3> QED
      BY <1>2, <3>1, <3>2 DEF SeqRange
  <2> QED
    BY <1>1, <1>2, <2>1, <2>2, <2>3 DEF SeqRange
<1>4. /\ Requested(u) = Requested(s) \cup Requested(t)
      /\ Responded(u) = Responded(s) \cup Responded(t)
  BY <1>3 DEF Requested, Responded, IsRequest
<1>5. ASSUME OneRequestEach(s), OneRequestEach(t), Requested(s) \cap Requested(t) = {}
      PROVE  OneRequestEach(u)
  <2> SUFFICES ASSUME NEW i \in 1..(Len(s) + Len(t)), NEW j \in 1..(Len(s) + Len(t)),
                      u[i].type = "req", u[j].type = "req", u[i].call = u[j].call
               PROVE  i = j
    BY <1>2 DEF OneRequestEach
  <2>1. ASSUME NEW a \in 1..Len(s), NEW b \in 1..Len(t),
               s[a].type = "req", t[b].type = "req", s[a].call = t[b].call
        PROVE  FALSE
    <3>1. s[a].call \in Calls
      BY <1>1, <2>1, FrameShape
    <3> QED
      BY <1>1, <1>5, <2>1, <3>1 DEF Requested, IsRequest, SeqRange
  <2>2. CASE i <= Len(s) /\ j <= Len(s)
    <3>1. i \in DOMAIN s /\ j \in DOMAIN s /\ u[i] = s[i] /\ u[j] = s[j]
      BY <1>1, <1>2, <2>2
    <3> QED
      BY <1>5, <3>1 DEF OneRequestEach
  <2>3. CASE ~(i <= Len(s)) /\ ~(j <= Len(s))
    <3>1. /\ i - Len(s) \in DOMAIN t /\ j - Len(s) \in DOMAIN t
          /\ u[i] = t[i - Len(s)] /\ u[j] = t[j - Len(s)]
      BY <1>1, <1>2, <2>3
    <3>2. i - Len(s) = j - Len(s)
      BY <1>5, <3>1 DEF OneRequestEach
    <3> QED
      BY <1>1, <3>2
  <2>4. CASE i <= Len(s) /\ ~(j <= Len(s))
    <3>1. i \in 1..Len(s) /\ j - Len(s) \in 1..Len(t) /\ u[i] = s[i] /\ u[j] = t[j - Len(s)]
      BY <1>1, <1>2, <2>4
    <3> QED
      BY <2>1, <3>1
  <2>5. CASE ~(i <= Len(s)) /\ j <= Len(s)
    <3>1. j \in 1..Len(s) /\ i - Len(s) \in 1..Len(t) /\ u[j] = s[j] /\ u[i] = t[i - Len(s)]
      BY <1>1, <1>2, <2>5
    <3> QED
      BY <2>1, <3>1
  <2> QED
    BY <2>2, <2>3, <2>4, <2>5
<1> QED
  BY <1>2, <1>4, <1>5

\* removeQueued takes exactly the call's request out.
LEMMA Without ==
  ASSUME NEW s \in Seq(Frames), NEW c \in Calls, OneRequestEach(s)
  PROVE  /\ WithoutRequest(s, c) \in Seq(Frames)
         /\ Requested(WithoutRequest(s, c)) = Requested(s) \ {c}
         /\ Responded(WithoutRequest(s, c)) \subseteq Responded(s)
         /\ OneRequestEach(WithoutRequest(s, c))
<1>1. CASE c \notin Requested(s)
  BY <1>1 DEF WithoutRequest
<1>2. CASE c \in Requested(s)
  <2> DEFINE k == CHOOSE i \in DOMAIN s : IsRequest(s[i], c)
             w == DropAt(s, k)
             up(j) == IF j < k THEN j ELSE j + 1
  <2>1. /\ Len(s) \in Nat /\ DOMAIN s = 1..Len(s)
        /\ \A i \in 1..Len(s) : s[i] \in Frames
    BY LenProperties, ElementOfSeq
  <2>2. \E i \in DOMAIN s : IsRequest(s[i], c)
    BY <1>2 DEF Requested, SeqRange
  <2>3. k \in 1..Len(s) /\ s[k].type = "req" /\ s[k].call = c
    BY <2>1, <2>2 DEF IsRequest
  <2> HIDE DEF k
  <2>4. /\ \A j \in 1..(Len(s) - 1) : up(j) \in 1..Len(s) /\ w[j] = s[up(j)] /\ up(j) # k
        /\ DOMAIN w = 1..(Len(s) - 1)
        /\ Len(s) - 1 \in Nat
    BY <2>1, <2>3 DEF DropAt
  <2>5. w \in Seq(Frames)
    BY <2>1, <2>4, IsASeq DEF DropAt
  <2>6. SeqRange(w) \subseteq SeqRange(s)
    BY <2>1, <2>4 DEF SeqRange
  <2>7. ASSUME NEW i \in 1..Len(s), i # k PROVE s[i] \in SeqRange(w)
    <3>1. CASE i < k
      <4>1. i \in 1..(Len(s) - 1) /\ w[i] = s[i]
        BY <2>1, <2>3, <2>4, <3>1
      <4> QED
        BY <2>4, <4>1 DEF SeqRange
    <3>2. CASE i > k
      <4>1. i - 1 \in 1..(Len(s) - 1) /\ up(i - 1) = i
        BY <2>1, <2>3, <3>2
      <4>2. w[i - 1] = s[i]
        BY <2>4, <4>1
      <4> QED
        BY <2>4, <4>1, <4>2 DEF SeqRange
    <3> QED
      BY <2>3, <2>7, <3>1, <3>2
  <2>8. ASSUME NEW f \in SeqRange(w), f.type = "req", f.call = c PROVE FALSE
    <3>1. PICK j \in 1..(Len(s) - 1) : w[j] = f
      BY <2>4, <2>8 DEF SeqRange
    <3>2. up(j) \in DOMAIN s /\ s[up(j)] = f /\ up(j) # k /\ k \in DOMAIN s
      BY <2>1, <2>3, <2>4, <3>1
    <3> QED
      BY <2>3, <2>8, <3>2 DEF OneRequestEach
  <2>9. Requested(w) = Requested(s) \ {c}
    <3>1. Requested(w) \subseteq Requested(s) /\ c \notin Requested(w)
      BY <2>6, <2>8 DEF Requested, IsRequest
    <3>2. ASSUME NEW d \in Requested(s), d # c PROVE d \in Requested(w)
      <4>1. PICK i \in 1..Len(s) : s[i].type = "req" /\ s[i].call = d
        BY <2>1 DEF Requested, IsRequest, SeqRange
      <4>2. s[i] \in SeqRange(w) /\ d \in Calls
        BY <2>3, <2>7, <3>2, <4>1 DEF Requested
      <4> QED
        BY <4>1, <4>2 DEF Requested, IsRequest
    <3> QED
      BY <3>1, <3>2
  <2>10. Responded(w) \subseteq Responded(s)
    BY <2>6 DEF Responded
  <2>11. OneRequestEach(w)
    <3> SUFFICES ASSUME NEW i \in 1..(Len(s) - 1), NEW j \in 1..(Len(s) - 1),
                        w[i].type = "req", w[j].type = "req", w[i].call = w[j].call
                 PROVE  i = j
      BY <2>4 DEF OneRequestEach
    <3>1. up(i) = up(j)
      <4>1. /\ up(i) \in DOMAIN s /\ up(j) \in DOMAIN s
            /\ w[i] = s[up(i)] /\ w[j] = s[up(j)]
        BY <2>1, <2>4
      <4> HIDE DEF up
      <4> QED
        BY <4>1 DEF OneRequestEach
    <3> QED
      BY <2>1, <2>3, <3>1
  <2>12. WithoutRequest(s, c) = w
    BY <1>2 DEF WithoutRequest, k
  <2> QED
    BY <2>5, <2>9, <2>10, <2>11, <2>12
<1> QED
  BY <1>1, <1>2
-----------------------------------------------------------------------------
(* The invariant. *)

Inv == TypeOK /\ LinkInv

\* What the definitions of the ends and the assumptions say.
LEMMA Constants ==
  /\ "host" \in Ends /\ "child" \in Ends /\ "host" # "child"
  /\ \A e \in Ends : e = "host" \/ e = "child"
  /\ Peer("host") = "child" /\ Peer("child") = "host"
  /\ CallsOf("host") = HostCalls /\ CallsOf("child") = ChildCalls
  /\ Calls = HostCalls \cup ChildCalls /\ HostCalls \cap ChildCalls = {}
  /\ HighWater \in Nat /\ HighWater > 0
BY CallsAssumption, LimitsAssumption DEF Ends, Peer, CallsOf, Calls

\* The initial state satisfies the invariant.
LEMMA InitInv == Init => Inv
<1> SUFFICES ASSUME Init PROVE Inv
  OBVIOUS
<1> USE NoFrames, Constants DEF Init
<1>1. /\ <<Hello>> \in Seq(Frames) /\ Len(<<Hello>>) = 1
      /\ Requested(<<Hello>>) = {} /\ Responded(<<Hello>>) = {}
      /\ OneRequestEach(<<Hello>>)
  <2>1. Hello \in Frames /\ Hello.type = "hello"
    BY DEF Hello, Frames
  <2>2. <<Hello>> = Append(<<>>, Hello)
    OBVIOUS
  <2> QED
    BY <2>1, <2>2, AppendFrame
<1>2. TypeOK
  <2>1. wire \in [Ends -> Seq(Frames)]
    BY <1>1 DEF Ends
  <2> QED
    BY <2>1 DEF TypeOK, Verdicts
<1>3. \A e \in Ends :
        /\ Requested(queue[e]) = {} /\ Requested(wire[e]) = {}
        /\ Responded(queue[e]) = {} /\ Responded(wire[e]) = {}
        /\ OneRequestEach(queue[e]) /\ OneRequestEach(wire[e])
  BY <1>1
<1>4. FramesInv /\ QueuedInv /\ WireInv
  BY <1>3 DEF FramesInv, QueuedInv, WireInv
<1>5. RunsInv /\ PendingInv /\ FutureInv
  BY <1>3 DEF RunsInv, PendingInv, FutureInv
<1>6. StreamInv
  <2>1. Len(wire["child"]) = 1
    BY <1>1
  <2>2. blocked <=> HighWater = 1
    BY Zenon
  <2>3. ~blocked => 1 < HighWater
    BY <2>2
  <2> QED
    BY <2>1, <2>3 DEF StreamInv
<1> QED
  BY <1>2, <1>4, <1>5, <1>6 DEF Inv, LinkInv

\* Frames the child's pump moves from its queue to its stream.
LEMMA PumpFacts ==
  ASSUME TypeOK, NEW q \in Seq(Frames), NEW free \in BOOLEAN, NEW entries,
         ChildPump(q, free, entries),
         free => Len(wire["child"]) < HighWater,
         OneRequestEach(q), OneRequestEach(wire["child"]),
         Requested(q) \cap Requested(wire["child"]) = {}
  PROVE  /\ queue' \in [Ends -> Seq(Frames)] /\ queue'["host"] = queue["host"]
         /\ wire' \in [Ends -> Seq(Frames)] /\ wire'["host"] = wire["host"]
         /\ blocked' \in BOOLEAN
         /\ ~blocked' => Len(wire'["child"]) < HighWater
         /\ Requested(queue'["child"]) \subseteq Requested(q)
         /\ Requested(wire'["child"]) =
              Requested(wire["child"]) \cup (Requested(q) \ Requested(queue'["child"]))
         /\ Responded(queue'["child"]) \cup Responded(wire'["child"]) =
              Responded(q) \cup Responded(wire["child"])
         /\ OneRequestEach(queue'["child"]) /\ OneRequestEach(wire'["child"])
         /\ issued' = issued \cup ((Requested(q) \ Requested(queue'["child"])) \cap entries)
<1> DEFINE n == IF free THEN Burst(q) ELSE 0
           w == wire["child"]
           a == SubSeq(q, 1, n)
           b == SubSeq(q, n + 1, Len(q))
<1>1. /\ w \in Seq(Frames) /\ Len(w) \in Nat /\ Len(q) \in Nat
      /\ queue \in [Ends -> Seq(Frames)] /\ wire \in [Ends -> Seq(Frames)]
  BY Constants, LenProperties DEF TypeOK
<1>2. n \in 0..Len(q)
  BY <1>1, Constants DEF Burst
<1>3. /\ queue' = [queue EXCEPT !["child"] = b]
      /\ wire' = [wire EXCEPT !["child"] = w \o a]
      /\ blocked' = (free => Len(w) + n >= HighWater)
      /\ issued' = issued \cup (Requested(a) \cap entries)
  BY DEF ChildPump
<1> HIDE DEF n
<1>4. /\ a \in Seq(Frames) /\ Len(a) = n /\ b \in Seq(Frames)
      /\ Requested(q) = Requested(a) \cup Requested(b)
      /\ Responded(q) = Responded(a) \cup Responded(b)
      /\ OneRequestEach(a) /\ OneRequestEach(b) /\ Requested(a) \cap Requested(b) = {}
  BY <1>2, Split
<1>5. /\ w \o a \in Seq(Frames) /\ Len(w \o a) = Len(w) + Len(a)
      /\ Requested(w \o a) = Requested(w) \cup Requested(a)
      /\ Responded(w \o a) = Responded(w) \cup Responded(a)
      /\ OneRequestEach(w \o a)
  BY <1>1, <1>4, Join
<1> HIDE DEF a, b
<1>6. /\ queue'["child"] = b /\ queue'["host"] = queue["host"]
      /\ wire'["child"] = w \o a /\ wire'["host"] = wire["host"]
      /\ queue' \in [Ends -> Seq(Frames)] /\ wire' \in [Ends -> Seq(Frames)]
  BY <1>1, <1>3, <1>4, <1>5, Constants
<1>7. blocked' \in BOOLEAN /\ (~blocked' => Len(wire'["child"]) < HighWater)
  <2>1. Len(wire'["child"]) = Len(w) + n /\ n \in Nat
    BY <1>1, <1>2, <1>4, <1>5, <1>6
  <2>2. blocked' <=> (free => Len(w) + n >= HighWater)
    BY <1>3
  <2>3. ~(Len(w) + n >= HighWater) => Len(wire'["child"]) < HighWater
    BY <1>1, <2>1, Constants
  <2>4. blocked' \in BOOLEAN
    BY <1>3
  <2> QED
    BY <2>2, <2>3, <2>4
<1>8. /\ Requested(queue'["child"]) \subseteq Requested(q)
      /\ Requested(q) \ Requested(queue'["child"]) = Requested(a)
  BY <1>4, <1>6
<1> QED
  BY <1>3, <1>4, <1>5, <1>6, <1>7, <1>8

\* ChildDrain preserves the invariant.
LEMMA ChildDrainInv ==
  ASSUME Inv, ChildDrain PROVE Inv'
<1> USE Constants
<1>1. TypeOK /\ LinkInv
  BY DEF Inv
<1>2. /\ queue["child"] \in Seq(Frames)
      /\ OneRequestEach(queue["child"]) /\ OneRequestEach(wire["child"])
      /\ Requested(queue["child"]) \cap Requested(wire["child"]) = {}
  BY <1>1 DEF TypeOK, LinkInv, FramesInv
<1>3. ChildPump(queue["child"], TRUE, pending) /\ Len(wire["child"]) < HighWater
  BY DEF ChildDrain
<1>4. /\ queue' \in [Ends -> Seq(Frames)] /\ queue'["host"] = queue["host"]
      /\ wire' \in [Ends -> Seq(Frames)] /\ wire'["host"] = wire["host"]
      /\ blocked' \in BOOLEAN
      /\ ~blocked' => Len(wire'["child"]) < HighWater
      /\ Requested(queue'["child"]) \subseteq Requested(queue["child"])
      /\ Requested(wire'["child"]) = Requested(wire["child"])
            \cup (Requested(queue["child"]) \ Requested(queue'["child"]))
      /\ Responded(queue'["child"]) \cup Responded(wire'["child"]) =
            Responded(queue["child"]) \cup Responded(wire["child"])
      /\ OneRequestEach(queue'["child"]) /\ OneRequestEach(wire'["child"])
      /\ issued' = issued \cup
            ((Requested(queue["child"]) \ Requested(queue'["child"])) \cap pending)
  BY <1>1, <1>2, <1>3, PumpFacts
<1>5. UNCHANGED <<ready, closed, greeted, handlers, pending, cancelled, future,
                  outcome, runs>>
  BY DEF ChildDrain
<1>6. TypeOK'
  BY <1>1, <1>4, <1>5 DEF TypeOK
<1>7. FramesInv'
  BY <1>1, <1>4, <1>5 DEF LinkInv, FramesInv
<1>8. QueuedInv'
  <2> SUFFICES ASSUME NEW e \in Ends, NEW c \in Requested(queue'[e])
               PROVE  /\ runs[c] = 0 /\ c \notin issued'
                      /\ outcome[c] \in {"waiting", "truncated"}
                      /\ outcome[c] = "waiting" => c \in pending
                           \/ (e = "host" /\ (c \in cancelled \/ future[c] # "waiting"))
    BY <1>5 DEF QueuedInv
  <2>1. c \in Requested(queue[e]) /\ c \in CallsOf(e)
    BY <1>1, <1>4 DEF LinkInv, FramesInv
  <2>2. c \notin issued'
    BY <1>1, <1>4, <2>1 DEF LinkInv, FramesInv, QueuedInv
  <2> QED
    BY <1>1, <2>1, <2>2 DEF LinkInv, QueuedInv
<1>9. WireInv'
  <2> SUFFICES ASSUME NEW e \in Ends, NEW c \in Requested(wire'[e])
               PROVE  runs[c] = 0 /\ Sent(c)'
    BY <1>5 DEF WireInv
  <2>1. CASE c \in Requested(wire[e])
    BY <1>1, <1>4, <1>5, <2>1 DEF LinkInv, WireInv, Sent
  <2>2. CASE c \notin Requested(wire[e])
    <3>1. e = "child" /\ c \in Requested(queue["child"]) \ Requested(queue'["child"])
      BY <1>4, <2>2
    <3>2. /\ runs[c] = 0 /\ outcome[c] \in {"waiting", "truncated"}
          /\ outcome[c] = "waiting" => c \in pending
      BY <1>1, <3>1 DEF LinkInv, QueuedInv
    <3> QED
      BY <1>4, <1>5, <3>1, <3>2 DEF Sent
  <2> QED
    BY <2>1, <2>2
<1>10. RunsInv'
  <2>1. \A c \in Calls : Sent(c) => Sent(c)'
    BY <1>4, <1>5 DEF Sent
  <2>2. \A c \in Calls : runs[c] \in {0, 1} /\ (runs[c] = 1 => Sent(c))
    BY <1>1 DEF LinkInv, RunsInv
  <2>3. \A c \in Calls : runs'[c] \in {0, 1} /\ (runs'[c] = 1 => Sent(c)')
    BY <1>5, <2>1, <2>2
  <2>4. \A e \in Ends : Responded(queue'[e]) \cup Responded(wire'[e])
                            = Responded(queue[e]) \cup Responded(wire[e])
    BY <1>4
  <2> QED BY <1>1, <1>5, <2>3, <2>4 DEF LinkInv, RunsInv
<1>11. PendingInv' /\ FutureInv' /\ StreamInv'
  BY <1>1, <1>4, <1>5 DEF LinkInv, PendingInv, FutureInv, StreamInv, FramesInv
<1> QED
  BY <1>6, <1>7, <1>8, <1>9, <1>10, <1>11 DEF Inv, LinkInv
\* HostFinish preserves the invariant.
LEMMA HostFinishInv ==
  ASSUME Inv, HostFinish PROVE Inv'
<1> USE Constants
<1>1. TypeOK /\ LinkInv
  BY DEF Inv
<1>2. /\ wire["host"] \in Seq(Frames) /\ Len(wire["host"]) \in Nat
      /\ OneRequestEach(wire["host"])
  BY <1>1, LenProperties DEF TypeOK, LinkInv, FramesInv
<1>3. PICK n \in 0..Len(wire["host"]) :
        wire' = [e \in Ends |-> IF e = "host" THEN SubSeq(wire[e], 1, n) ELSE <<>>]
  BY DEF HostFinish
<1>4. /\ wire' \in [Ends -> Seq(Frames)] /\ wire'["child"] = <<>>
      /\ Requested(wire'["host"]) \subseteq Requested(wire["host"])
      /\ Responded(wire'["host"]) \subseteq Responded(wire["host"])
      /\ OneRequestEach(wire'["host"])
  BY <1>2, <1>3, Prefix, NoFrames
<1>5. /\ queue' \in [Ends -> Seq(Frames)] /\ queue'["host"] = <<>>
      /\ queue'["child"] = queue["child"]
  BY <1>1, NoFrames DEF HostFinish, TypeOK
<1>6. /\ closed' = [closed EXCEPT !["host"] = TRUE]
      /\ ready' = [ready EXCEPT !["host"] = FALSE]
      /\ handlers' = [handlers EXCEPT !["host"] = {}]
      /\ future' = [c \in HostCalls |->
           IF c \in pending \ cancelled /\ future[c] = "waiting"
           THEN Verdict(c) ELSE future[c]]
      /\ pending' = pending \ HostCalls
      /\ UNCHANGED <<greeted, blocked, issued, cancelled, outcome, runs>>
  BY DEF HostFinish
<1>7. Len(wire'["child"]) = 0
  BY <1>4, NoFrames
<1>8. TypeOK'
  BY <1>1, <1>2, <1>3, <1>4, <1>5, <1>6, <1>7 DEF TypeOK, Verdicts, Verdict
<1>9. FramesInv'
  BY <1>1, <1>2, <1>3, <1>4, <1>5, <1>6, <1>7, NoFrames DEF LinkInv, FramesInv
<1>10. QueuedInv'
  <2> SUFFICES ASSUME NEW c \in Requested(queue'["child"])
               PROVE  /\ runs[c] = 0 /\ c \notin issued
                      /\ outcome[c] \in {"waiting", "truncated"}
                      /\ outcome[c] = "waiting" => c \in pending'
    BY <1>5, <1>6, NoFrames DEF QueuedInv
  <2>1. c \in Requested(queue["child"]) /\ c \in ChildCalls
    BY <1>1, <1>5 DEF LinkInv, FramesInv
  <2> QED
    BY <1>1, <1>6, <2>1 DEF LinkInv, QueuedInv
<1>11. WireInv'
  BY <1>1, <1>2, <1>3, <1>4, <1>5, <1>6, <1>7, NoFrames DEF LinkInv, WireInv, Sent
<1>12. RunsInv'
  BY <1>1, <1>2, <1>3, <1>4, <1>5, <1>6, <1>7, NoFrames DEF LinkInv, RunsInv, Sent
<1>13. PendingInv'
  BY <1>1, <1>2, <1>3, <1>4, <1>5, <1>6, <1>7 DEF TypeOK, LinkInv, PendingInv, Verdict
<1>14. FutureInv'
  <2> SUFFICES ASSUME NEW c \in HostCalls
               PROVE  /\ future'[c] \in {"ok", "error"} => runs[c] = 1
                      /\ future'[c] = "not_sent" =>
                           /\ runs[c] = 0 /\ c \notin issued
                           /\ c \notin Requested(wire'["host"])
    BY <1>6 DEF FutureInv
  <2>1. CASE c \in pending \ cancelled /\ future[c] = "waiting"
    <3>1. future'[c] = Verdict(c) /\ outcome[c] = "waiting"
      BY <1>1, <1>6, <2>1 DEF LinkInv, PendingInv
    <3>2. c \notin issued => runs[c] = 0 /\ c \notin Requested(wire["host"])
      BY <1>1, <3>1 DEF LinkInv, RunsInv, WireInv, Sent, TypeOK
    <3> QED
      BY <1>4, <3>1, <3>2 DEF Verdict
  <2>2. CASE ~(c \in pending \ cancelled /\ future[c] = "waiting")
    BY <1>1, <1>4, <1>6, <2>2 DEF LinkInv, FutureInv
  <2> QED
    BY <2>1, <2>2
<1>15. StreamInv'
  BY <1>1, <1>2, <1>3, <1>4, <1>5, <1>6, <1>7 DEF TypeOK, LinkInv, StreamInv, Verdict
<1> QED
  BY <1>8, <1>9, <1>10, <1>11, <1>12, <1>13, <1>14, <1>15 DEF Inv, LinkInv

\* ChildEnd preserves the invariant.
LEMMA ChildEndInv ==
  ASSUME Inv, NEW done, ChildEnd(done) PROVE Inv'
<1> USE Constants
<1>1. TypeOK /\ LinkInv
  BY DEF Inv
<1>2. /\ wire["child"] \in Seq(Frames) /\ Len(wire["child"]) \in Nat
      /\ OneRequestEach(wire["child"])
  BY <1>1, LenProperties DEF TypeOK, LinkInv, FramesInv
<1>3. PICK n \in 0..Len(wire["child"]) :
        wire' = [e \in Ends |-> IF e = "child" THEN SubSeq(wire[e], 1, n) ELSE <<>>]
  BY DEF ChildEnd
<1>4. /\ wire' \in [Ends -> Seq(Frames)] /\ wire'["host"] = <<>>
      /\ Requested(wire'["child"]) \subseteq Requested(wire["child"])
      /\ Responded(wire'["child"]) \subseteq Responded(wire["child"])
      /\ OneRequestEach(wire'["child"])
  BY <1>2, <1>3, Prefix, NoFrames
<1>5. /\ queue' \in [Ends -> Seq(Frames)] /\ queue'["child"] = <<>>
      /\ queue'["host"] = queue["host"]
  BY <1>1, NoFrames DEF ChildEnd, TypeOK
<1>6. /\ closed' = [closed EXCEPT !["child"] = TRUE]
      /\ ready' = [ready EXCEPT !["child"] = FALSE]
      /\ blocked' = FALSE
      /\ handlers' = [handlers EXCEPT !["child"] = @ \ done]
      /\ outcome' = [c \in Calls |->
           IF c \in pending \cap ChildCalls THEN Verdict(c) ELSE outcome[c]]
      /\ pending' = pending \ ChildCalls
      /\ issued' = issued \ ChildCalls
      /\ UNCHANGED <<greeted, cancelled, future, runs>>
  BY DEF ChildEnd
<1>7. \A c \in Calls : Sent(c) => Sent(c)'
  <2> SUFFICES ASSUME NEW c \in Calls, Sent(c) PROVE Sent(c)'
    OBVIOUS
  <2>1. outcome'[c] = IF c \in pending \cap ChildCalls THEN Verdict(c) ELSE outcome[c]
    BY <1>6
  <2>2. CASE c \in pending \cap ChildCalls
    BY <1>1, <2>1, <2>2 DEF LinkInv, PendingInv, Sent, Verdict
  <2>3. CASE c \notin pending \cap ChildCalls
    BY <1>1, <1>6, <2>1, <2>3 DEF LinkInv, PendingInv, Sent
  <2> QED
    BY <2>2, <2>3
<1>8. TypeOK'
  BY <1>1, <1>2, <1>3, <1>4, <1>5, <1>6, <1>7 DEF TypeOK, Verdicts, Verdict
<1>9. FramesInv'
  BY <1>1, <1>2, <1>3, <1>4, <1>5, <1>6, <1>7, NoFrames DEF LinkInv, FramesInv
<1>10. QueuedInv'
  <2> SUFFICES ASSUME NEW c \in Requested(queue'["host"])
               PROVE  /\ runs[c] = 0 /\ c \notin issued'
                      /\ outcome'[c] \in {"waiting", "truncated"}
                      /\ outcome'[c] = "waiting" => c \in pending'
                           \/ c \in cancelled \/ future[c] # "waiting"
    BY <1>5, <1>6, NoFrames DEF QueuedInv
  <2>1. c \in Requested(queue["host"]) /\ c \in HostCalls
    BY <1>1, <1>5 DEF LinkInv, FramesInv
  <2> QED
    BY <1>1, <1>6, <2>1 DEF LinkInv, QueuedInv
<1>11. WireInv'
  <2> SUFFICES ASSUME NEW c \in Requested(wire'["child"])
               PROVE  runs[c] = 0 /\ Sent(c)'
    BY <1>4, <1>6, NoFrames DEF WireInv
  <2> QED
    BY <1>1, <1>4, <1>7 DEF LinkInv, WireInv, FramesInv
<1>12. RunsInv'
  <2>1. \A c \in Calls : runs'[c] \in {0, 1} /\ (runs'[c] = 1 => Sent(c)')
    BY <1>1, <1>6, <1>7 DEF LinkInv, RunsInv
  <2>2. \A c \in Calls : outcome'[c] \in {"ok", "error"} => runs'[c] = 1
    BY <1>1, <1>6 DEF LinkInv, RunsInv, Verdict
  <2>3. \A e \in Ends : \A c \in handlers'[e] : runs'[c] = 1
    BY <1>1, <1>6 DEF LinkInv, RunsInv, TypeOK
  <2>4. \A e \in Ends : \A c \in Responded(queue'[e]) \cup Responded(wire'[e]) : runs'[c] = 1
    BY <1>1, <1>4, <1>5, <1>6, NoFrames DEF LinkInv, RunsInv
  <2> QED
    BY <2>1, <2>2, <2>3, <2>4 DEF RunsInv
<1>13. PendingInv'
  BY <1>1, <1>2, <1>3, <1>4, <1>5, <1>6, <1>7 DEF TypeOK, LinkInv, PendingInv, Verdict
<1>14. FutureInv'
  BY <1>1, <1>2, <1>3, <1>4, <1>5, <1>6, <1>7, NoFrames DEF LinkInv, FutureInv
<1>15. StreamInv'
  BY <1>1, <1>2, <1>3, <1>4, <1>5, <1>6, <1>7 DEF TypeOK, LinkInv, StreamInv, Verdict
<1> QED
  BY <1>8, <1>9, <1>10, <1>11, <1>12, <1>13, <1>14, <1>15 DEF Inv, LinkInv

\* RefuseCall preserves the invariant.
LEMMA RefuseCallInv ==
  ASSUME Inv, NEW e \in Ends, NEW c \in Calls, RefuseCall(e, c) PROVE Inv'
<1> USE Constants
<1>1. TypeOK /\ LinkInv
  BY DEF Inv
<1>2. TypeOK'
  BY <1>1 DEF TypeOK, Verdicts, RefuseCall
<1>3. FramesInv'
  BY <1>1 DEF LinkInv, FramesInv, RefuseCall
<1>4. QueuedInv'
  BY <1>1 DEF LinkInv, FramesInv, QueuedInv, RefuseCall
<1>5. WireInv'
  BY <1>1 DEF LinkInv, FramesInv, WireInv, Sent, RefuseCall
<1>6. RunsInv'
  BY <1>1 DEF LinkInv, RunsInv, Sent, RefuseCall
<1>7. PendingInv'
  BY <1>1 DEF TypeOK, LinkInv, PendingInv, RefuseCall
<1>8. FutureInv'
  BY <1>1 DEF LinkInv, FutureInv, FramesInv, RefuseCall
<1>9. StreamInv'
  BY <1>1 DEF TypeOK, LinkInv, StreamInv, RefuseCall
<1> QED
  BY <1>2, <1>3, <1>4, <1>5, <1>6, <1>7, <1>8, <1>9 DEF Inv, LinkInv

\* HostRequestOversized preserves the invariant.
LEMMA HostRequestOversizedInv ==
  ASSUME Inv, NEW c \in Calls, HostRequestOversized(c) PROVE Inv'
<1> USE Constants
<1>1. TypeOK /\ LinkInv
  BY DEF Inv
<1>2. TypeOK'
  BY <1>1 DEF TypeOK, Verdicts, HostRequestOversized, Callable
<1>3. FramesInv'
  BY <1>1 DEF LinkInv, FramesInv, HostRequestOversized, Callable
<1>4. QueuedInv'
  BY <1>1 DEF LinkInv, FramesInv, QueuedInv, HostRequestOversized, Callable
<1>5. WireInv'
  BY <1>1 DEF LinkInv, FramesInv, WireInv, Sent, HostRequestOversized, Callable
<1>6. RunsInv'
  BY <1>1 DEF LinkInv, RunsInv, Sent, HostRequestOversized, Callable
<1>7. PendingInv'
  BY <1>1 DEF TypeOK, LinkInv, PendingInv, HostRequestOversized, Callable
<1>8. FutureInv'
  BY <1>1 DEF LinkInv, FutureInv, FramesInv, HostRequestOversized, Callable
<1>9. StreamInv'
  BY <1>1 DEF TypeOK, LinkInv, StreamInv, HostRequestOversized, Callable
<1> QED
  BY <1>2, <1>3, <1>4, <1>5, <1>6, <1>7, <1>8, <1>9 DEF Inv, LinkInv

\* HostCancel preserves the invariant.
LEMMA HostCancelInv ==
  ASSUME Inv, NEW c \in Calls, HostCancel(c) PROVE Inv'
<1> USE Constants
<1>1. TypeOK /\ LinkInv
  BY DEF Inv
<1>2. TypeOK'
  BY <1>1 DEF TypeOK, Verdicts, HostCancel
<1>3. FramesInv'
  BY <1>1 DEF LinkInv, FramesInv, HostCancel
<1>4. QueuedInv'
  BY <1>1 DEF LinkInv, FramesInv, QueuedInv, HostCancel
<1>5. WireInv'
  BY <1>1 DEF LinkInv, FramesInv, WireInv, Sent, HostCancel
<1>6. RunsInv'
  BY <1>1 DEF LinkInv, RunsInv, Sent, HostCancel
<1>7. PendingInv'
  BY <1>1 DEF TypeOK, LinkInv, PendingInv, HostCancel
<1>8. FutureInv'
  BY <1>1 DEF LinkInv, FutureInv, FramesInv, HostCancel
<1>9. StreamInv'
  BY <1>1 DEF TypeOK, LinkInv, StreamInv, HostCancel
<1> QED
  BY <1>2, <1>3, <1>4, <1>5, <1>6, <1>7, <1>8, <1>9 DEF Inv, LinkInv

\* ChildHandlerEndsLate preserves the invariant.
LEMMA ChildHandlerEndsLateInv ==
  ASSUME Inv, NEW c \in Calls, ChildHandlerEndsLate(c) PROVE Inv'
<1> USE Constants
<1>1. TypeOK /\ LinkInv
  BY DEF Inv
<1>2. TypeOK'
  BY <1>1 DEF TypeOK, Verdicts, ChildHandlerEndsLate
<1>3. FramesInv'
  BY <1>1 DEF LinkInv, FramesInv, ChildHandlerEndsLate
<1>4. QueuedInv'
  BY <1>1 DEF LinkInv, FramesInv, QueuedInv, ChildHandlerEndsLate
<1>5. WireInv'
  BY <1>1 DEF LinkInv, FramesInv, WireInv, Sent, ChildHandlerEndsLate
<1>6. RunsInv'
  BY <1>1 DEF LinkInv, RunsInv, Sent, ChildHandlerEndsLate
<1>7. PendingInv'
  BY <1>1 DEF TypeOK, LinkInv, PendingInv, ChildHandlerEndsLate
<1>8. FutureInv'
  BY <1>1 DEF LinkInv, FutureInv, FramesInv, ChildHandlerEndsLate
<1>9. StreamInv'
  BY <1>1 DEF TypeOK, LinkInv, StreamInv, ChildHandlerEndsLate
<1> QED
  BY <1>2, <1>3, <1>4, <1>5, <1>6, <1>7, <1>8, <1>9 DEF Inv, LinkInv

\* HostReadHello preserves the invariant.
LEMMA HostReadHelloInv ==
  ASSUME Inv, HostReadHello PROVE Inv'
<1> USE Constants
<1>1. TypeOK /\ LinkInv
  BY DEF Inv
<1>2. /\ wire["child"] \in Seq(Frames) /\ wire["child"] # <<>>
      /\ OneRequestEach(wire["child"])
      /\ wire' = [wire EXCEPT !["child"] = Tail(@)]
  BY <1>1 DEF HostReadHello, Arrives, Consume, TypeOK, LinkInv, FramesInv
<1>3. /\ wire' \in [Ends -> Seq(Frames)] /\ wire'["host"] = wire["host"]
      /\ Len(wire'["child"]) < Len(wire["child"]) /\ Len(wire["child"]) \in Nat
      /\ Len(wire'["child"]) \in Nat
      /\ OneRequestEach(wire'["child"])
      /\ Requested(wire["child"]) = Requested(wire'["child"])
           \cup (IF Head(wire["child"]).type = "req" THEN {Head(wire["child"]).call} ELSE {})
      /\ Responded(wire["child"]) = Responded(wire'["child"])
           \cup (IF Head(wire["child"]).type = "res" THEN {Head(wire["child"]).call} ELSE {})
      /\ Head(wire["child"]).type = "req" => Head(wire["child"]).call \notin Requested(wire'["child"])
      /\ Head(wire["child"]) \in Frames
  BY <1>1, <1>2, HeadTail, LenProperties DEF TypeOK
<1>4. Head(wire["child"]).type = "hello" /\ ~closed["host"]
  BY DEF HostReadHello, Arrives
<1>5. greeted' = TRUE /\ UNCHANGED <<ready, closed, queue, blocked, handlers, pending,
        issued, cancelled, future, outcome, runs>>
  BY DEF HostReadHello
<1>6. TypeOK'
  BY <1>1, <1>2, <1>3, <1>4, <1>5 DEF TypeOK, Verdicts
<1>7. FramesInv'
  BY <1>1, <1>2, <1>3, <1>4, <1>5 DEF LinkInv, FramesInv
<1>8. QueuedInv'
  BY <1>1, <1>2, <1>3, <1>4, <1>5 DEF LinkInv, FramesInv, QueuedInv
<1>9. WireInv'
  BY <1>1, <1>2, <1>3, <1>4, <1>5 DEF LinkInv, FramesInv, WireInv, Sent
<1>10. RunsInv'
  BY <1>1, <1>2, <1>3, <1>4, <1>5 DEF LinkInv, RunsInv, Sent
<1>11. PendingInv'
  BY <1>1, <1>2, <1>3, <1>4, <1>5 DEF TypeOK, LinkInv, PendingInv
<1>12. FutureInv'
  BY <1>1, <1>2, <1>3, <1>4, <1>5 DEF LinkInv, FutureInv, FramesInv
<1>13. StreamInv'
  BY <1>1, <1>2, <1>3, <1>4, <1>5 DEF TypeOK, LinkInv, StreamInv
<1> QED
  BY <1>6, <1>7, <1>8, <1>9, <1>10, <1>11, <1>12, <1>13 DEF Inv, LinkInv

\* ChildReadAck preserves the invariant.
LEMMA ChildReadAckInv ==
  ASSUME Inv, ChildReadAck PROVE Inv'
<1> USE Constants
<1>1. TypeOK /\ LinkInv
  BY DEF Inv
<1>2. /\ wire["host"] \in Seq(Frames) /\ wire["host"] # <<>>
      /\ OneRequestEach(wire["host"])
      /\ wire' = [wire EXCEPT !["host"] = Tail(@)]
  BY <1>1 DEF ChildReadAck, Arrives, Consume, TypeOK, LinkInv, FramesInv
<1>3. /\ wire' \in [Ends -> Seq(Frames)] /\ wire'["child"] = wire["child"]
      /\ Len(wire'["host"]) < Len(wire["host"]) /\ Len(wire["host"]) \in Nat
      /\ Len(wire'["host"]) \in Nat
      /\ OneRequestEach(wire'["host"])
      /\ Requested(wire["host"]) = Requested(wire'["host"])
           \cup (IF Head(wire["host"]).type = "req" THEN {Head(wire["host"]).call} ELSE {})
      /\ Responded(wire["host"]) = Responded(wire'["host"])
           \cup (IF Head(wire["host"]).type = "res" THEN {Head(wire["host"]).call} ELSE {})
      /\ Head(wire["host"]).type = "req" => Head(wire["host"]).call \notin Requested(wire'["host"])
      /\ Head(wire["host"]) \in Frames
  BY <1>1, <1>2, HeadTail, LenProperties DEF TypeOK
<1>4. Head(wire["host"]).type = "ack" /\ ~closed["child"]
  BY DEF ChildReadAck, Arrives
<1>5. ready' = [ready EXCEPT !["child"] = TRUE] /\ UNCHANGED <<closed, greeted, queue,
        blocked, handlers, pending, issued, cancelled, future, outcome, runs>>
  BY DEF ChildReadAck
<1>6. TypeOK'
  BY <1>1, <1>2, <1>3, <1>4, <1>5 DEF TypeOK, Verdicts
<1>7. FramesInv'
  BY <1>1, <1>2, <1>3, <1>4, <1>5 DEF LinkInv, FramesInv
<1>8. QueuedInv'
  BY <1>1, <1>2, <1>3, <1>4, <1>5 DEF LinkInv, FramesInv, QueuedInv
<1>9. WireInv'
  BY <1>1, <1>2, <1>3, <1>4, <1>5 DEF LinkInv, FramesInv, WireInv, Sent
<1>10. RunsInv'
  BY <1>1, <1>2, <1>3, <1>4, <1>5 DEF LinkInv, RunsInv, Sent
<1>11. PendingInv'
  BY <1>1, <1>2, <1>3, <1>4, <1>5 DEF TypeOK, LinkInv, PendingInv
<1>12. FutureInv'
  BY <1>1, <1>2, <1>3, <1>4, <1>5 DEF LinkInv, FutureInv, FramesInv
<1>13. StreamInv'
  BY <1>1, <1>2, <1>3, <1>4, <1>5 DEF TypeOK, LinkInv, StreamInv
<1> QED
  BY <1>6, <1>7, <1>8, <1>9, <1>10, <1>11, <1>12, <1>13 DEF Inv, LinkInv

\* HostReadResponse preserves the invariant.
LEMMA HostReadResponseInv ==
  ASSUME Inv, HostReadResponse PROVE Inv'
<1> USE Constants
<1>1. TypeOK /\ LinkInv
  BY DEF Inv
<1>2. /\ wire["child"] \in Seq(Frames) /\ wire["child"] # <<>>
      /\ OneRequestEach(wire["child"])
      /\ wire' = [wire EXCEPT !["child"] = Tail(@)]
  BY <1>1 DEF HostReadResponse, Arrives, Consume, TypeOK, LinkInv, FramesInv
<1>3. /\ wire' \in [Ends -> Seq(Frames)] /\ wire'["host"] = wire["host"]
      /\ Len(wire'["child"]) < Len(wire["child"]) /\ Len(wire["child"]) \in Nat
      /\ Len(wire'["child"]) \in Nat
      /\ OneRequestEach(wire'["child"])
      /\ Requested(wire["child"]) = Requested(wire'["child"])
           \cup (IF Head(wire["child"]).type = "req" THEN {Head(wire["child"]).call} ELSE {})
      /\ Responded(wire["child"]) = Responded(wire'["child"])
           \cup (IF Head(wire["child"]).type = "res" THEN {Head(wire["child"]).call} ELSE {})
      /\ Head(wire["child"]).type = "req" => Head(wire["child"]).call \notin Requested(wire'["child"])
      /\ Head(wire["child"]) \in Frames
  BY <1>1, <1>2, HeadTail, LenProperties DEF TypeOK
<1>4. /\ Head(wire["child"]).type = "res"
      /\ Head(wire["child"]).tag \in {"ok", "error", "truncated"}
      /\ Head(wire["child"]).call \in Responded(wire["child"])
  <2>1. Head(wire["child"]).type = "res"
    BY DEF HostReadResponse, Arrives
  <2> QED
    BY <1>3, <2>1, FrameShape
<1>5. /\ future' = [c \in HostCalls |->
           IF c = Head(wire["child"]).call /\ c \in pending \ cancelled /\ future[c] = "waiting"
           THEN Head(wire["child"]).tag ELSE future[c]]
      /\ pending' = pending \ {Head(wire["child"]).call}
      /\ UNCHANGED <<ready, closed, greeted, queue, blocked, handlers, issued, cancelled,
                     outcome, runs>>
  BY DEF HostReadResponse
<1>6. runs[Head(wire["child"]).call] = 1 /\ Head(wire["child"]).call \in HostCalls
  BY <1>1, <1>4 DEF LinkInv, RunsInv, FramesInv
<1>7. TypeOK'
  BY <1>1, <1>2, <1>3, <1>4, <1>5, <1>6 DEF TypeOK, Verdicts
<1>8. FramesInv'
  BY <1>1, <1>2, <1>3, <1>4, <1>5, <1>6 DEF LinkInv, FramesInv
<1>9. QueuedInv'
  BY <1>1, <1>2, <1>3, <1>4, <1>5, <1>6 DEF LinkInv, FramesInv, QueuedInv
<1>10. WireInv'
  BY <1>1, <1>2, <1>3, <1>4, <1>5, <1>6 DEF LinkInv, FramesInv, WireInv, Sent
<1>11. RunsInv'
  BY <1>1, <1>2, <1>3, <1>4, <1>5, <1>6 DEF LinkInv, RunsInv, Sent
<1>12. PendingInv'
  BY <1>1, <1>2, <1>3, <1>4, <1>5, <1>6 DEF TypeOK, LinkInv, PendingInv
<1>13. FutureInv'
  BY <1>1, <1>2, <1>3, <1>4, <1>5, <1>6 DEF LinkInv, FutureInv, FramesInv
<1>14. StreamInv'
  BY <1>1, <1>2, <1>3, <1>4, <1>5, <1>6 DEF TypeOK, LinkInv, StreamInv
<1> QED
  BY <1>7, <1>8, <1>9, <1>10, <1>11, <1>12, <1>13, <1>14 DEF Inv, LinkInv

\* ChildReadResponse preserves the invariant.
LEMMA ChildReadResponseInv ==
  ASSUME Inv, ChildReadResponse PROVE Inv'
<1> USE Constants
<1>1. TypeOK /\ LinkInv
  BY DEF Inv
<1>2. /\ wire["host"] \in Seq(Frames) /\ wire["host"] # <<>>
      /\ OneRequestEach(wire["host"])
      /\ wire' = [wire EXCEPT !["host"] = Tail(@)]
  BY <1>1 DEF ChildReadResponse, Arrives, Consume, TypeOK, LinkInv, FramesInv
<1>3. /\ wire' \in [Ends -> Seq(Frames)] /\ wire'["child"] = wire["child"]
      /\ Len(wire'["host"]) < Len(wire["host"]) /\ Len(wire["host"]) \in Nat
      /\ Len(wire'["host"]) \in Nat
      /\ OneRequestEach(wire'["host"])
      /\ Requested(wire["host"]) = Requested(wire'["host"])
           \cup (IF Head(wire["host"]).type = "req" THEN {Head(wire["host"]).call} ELSE {})
      /\ Responded(wire["host"]) = Responded(wire'["host"])
           \cup (IF Head(wire["host"]).type = "res" THEN {Head(wire["host"]).call} ELSE {})
      /\ Head(wire["host"]).type = "req" => Head(wire["host"]).call \notin Requested(wire'["host"])
      /\ Head(wire["host"]) \in Frames
  BY <1>1, <1>2, HeadTail, LenProperties DEF TypeOK
<1>4. /\ Head(wire["host"]).type = "res"
      /\ Head(wire["host"]).tag \in {"ok", "error", "truncated"}
      /\ Head(wire["host"]).call \in Responded(wire["host"])
  <2>1. Head(wire["host"]).type = "res"
    BY DEF ChildReadResponse, Arrives
  <2> QED
    BY <1>3, <2>1, FrameShape
<1>5. /\ outcome' = [c \in Calls |->
           IF c = Head(wire["host"]).call /\ c \in pending
           THEN Head(wire["host"]).tag ELSE outcome[c]]
      /\ pending' = pending \ {Head(wire["host"]).call}
      /\ issued' = issued \ {Head(wire["host"]).call}
      /\ UNCHANGED <<ready, closed, greeted, queue, blocked, handlers, cancelled,
                     future, runs>>
  BY DEF ChildReadResponse
<1>6. runs[Head(wire["host"]).call] = 1 /\ Head(wire["host"]).call \in ChildCalls
  BY <1>1, <1>4 DEF LinkInv, RunsInv, FramesInv
<1>7. TypeOK'
  BY <1>1, <1>2, <1>3, <1>4, <1>5, <1>6 DEF TypeOK, Verdicts
<1>8. FramesInv'
  BY <1>1, <1>2, <1>3, <1>4, <1>5, <1>6 DEF LinkInv, FramesInv
<1>9. QueuedInv'
  BY <1>1, <1>2, <1>3, <1>4, <1>5, <1>6 DEF LinkInv, FramesInv, QueuedInv
<1>10. WireInv'
  BY <1>1, <1>2, <1>3, <1>4, <1>5, <1>6 DEF LinkInv, FramesInv, WireInv, Sent
<1>11. RunsInv'
  <2>1. \A c \in Calls : Sent(c) => Sent(c)'
    BY <1>1, <1>2, <1>3, <1>4, <1>5, <1>6 DEF Sent, TypeOK, LinkInv, PendingInv
  <2>2. \A c \in Calls : runs'[c] \in {0, 1} /\ (runs'[c] = 1 => Sent(c)')
    BY <1>1, <1>2, <1>3, <1>4, <1>5, <1>6, <2>1 DEF LinkInv, RunsInv
  <2>3. \A c \in Calls : outcome'[c] \in {"ok", "error"} => runs'[c] = 1
    BY <1>1, <1>2, <1>3, <1>4, <1>5, <1>6 DEF LinkInv, RunsInv, TypeOK
  <2>4. \A e \in Ends : \A c \in handlers'[e] : runs'[c] = 1
    BY <1>1, <1>2, <1>3, <1>4, <1>5, <1>6 DEF LinkInv, RunsInv, TypeOK
  <2>5. \A e \in Ends : \A c \in Responded(queue'[e]) \cup Responded(wire'[e]) : runs'[c] = 1
    BY <1>1, <1>2, <1>3, <1>4, <1>5, <1>6 DEF LinkInv, RunsInv
  <2> QED
    BY <2>2, <2>3, <2>4, <2>5 DEF RunsInv
<1>12. PendingInv'
  BY <1>1, <1>2, <1>3, <1>4, <1>5, <1>6 DEF TypeOK, LinkInv, PendingInv
<1>13. FutureInv'
  BY <1>1, <1>2, <1>3, <1>4, <1>5, <1>6 DEF LinkInv, FutureInv, FramesInv
<1>14. StreamInv'
  BY <1>1, <1>2, <1>3, <1>4, <1>5, <1>6 DEF TypeOK, LinkInv, StreamInv
<1> QED
  BY <1>7, <1>8, <1>9, <1>10, <1>11, <1>12, <1>13, <1>14 DEF Inv, LinkInv

\* HostAck preserves the invariant.
LEMMA HostAckInv ==
  ASSUME Inv, HostAck PROVE Inv'
<1> USE Constants
<1>1. TypeOK /\ LinkInv
  BY DEF Inv
<1>2. /\ queue' \in [Ends -> Seq(Frames)] /\ queue'["child"] = queue["child"]
      /\ Requested(queue'["host"]) = Requested(queue["host"])
      /\ Responded(queue'["host"]) = Responded(queue["host"])
      /\ OneRequestEach(queue'["host"])
  <2>1. queue' = [queue EXCEPT !["host"] = Append(queue["host"], HelloAck)]
    BY DEF HostAck
  <2>2. /\ queue \in [Ends -> Seq(Frames)] /\ queue["host"] \in Seq(Frames)
        /\ OneRequestEach(queue["host"])
    BY <1>1 DEF TypeOK, LinkInv, FramesInv
  <2>3. HelloAck \in Frames /\ HelloAck.type = "ack"
    BY MakeAck
  <2> DEFINE s == Append(queue["host"], HelloAck)
  <2>4. /\ s \in Seq(Frames) /\ OneRequestEach(s)
        /\ Requested(s) = Requested(queue["host"]) 
        /\ Responded(s) = Responded(queue["host"]) 
    BY <2>2, <2>3, AppendFrame
  <2>5. queue'["host"] = s /\ queue'["child"] = queue["child"]
    BY <2>1, <2>2
  <2>6. queue' \in [Ends -> Seq(Frames)]
    BY <2>1, <2>2, <2>4
  <2> HIDE DEF s
  <2> QED
    BY <2>4, <2>5, <2>6
<1>3. /\ ~closed["host"] /\ ready' = [ready EXCEPT !["host"] = TRUE]
      /\ UNCHANGED <<closed, greeted, wire, blocked, handlers, pending, issued,
                     cancelled, future, outcome, runs>>
  BY DEF HostAck
<1>4. TypeOK'
  BY <1>1, <1>2, <1>3 DEF TypeOK, Verdicts
<1>5. FramesInv'
  BY <1>1, <1>2, <1>3 DEF LinkInv, FramesInv
<1>6. QueuedInv'
  BY <1>1, <1>2, <1>3 DEF LinkInv, FramesInv, QueuedInv
<1>7. WireInv'
  BY <1>1, <1>2, <1>3 DEF LinkInv, FramesInv, WireInv, Sent
<1>8. RunsInv'
  BY <1>1, <1>2, <1>3 DEF LinkInv, RunsInv, Sent
<1>9. PendingInv'
  BY <1>1, <1>2, <1>3 DEF TypeOK, LinkInv, PendingInv
<1>10. FutureInv'
  BY <1>1, <1>2, <1>3 DEF LinkInv, FutureInv, FramesInv
<1>11. StreamInv'
  BY <1>1, <1>2, <1>3 DEF TypeOK, LinkInv, StreamInv
<1> QED
  BY <1>4, <1>5, <1>6, <1>7, <1>8, <1>9, <1>10, <1>11 DEF Inv, LinkInv

\* HostRequest preserves the invariant.
LEMMA HostRequestInv ==
  ASSUME Inv, NEW c \in Calls, HostRequest(c) PROVE Inv'
<1> USE Constants
<1>1. TypeOK /\ LinkInv
  BY DEF Inv
<1>2. c \in HostCalls /\ outcome[c] = "idle"
  BY DEF HostRequest, Callable
<1>3. /\ runs[c] = 0 /\ c \notin issued /\ c \notin pending
      /\ \A e \in Ends : c \notin Requested(queue[e]) \cup Requested(wire[e])
  BY <1>1, <1>2 DEF TypeOK, LinkInv, QueuedInv, WireInv, RunsInv, PendingInv, Sent
<1>4. /\ queue' \in [Ends -> Seq(Frames)] /\ queue'["child"] = queue["child"]
      /\ Requested(queue'["host"]) = Requested(queue["host"]) \cup {c}
      /\ Responded(queue'["host"]) = Responded(queue["host"])
      /\ OneRequestEach(queue'["host"])
  <2>1. queue' = [queue EXCEPT !["host"] = Append(queue["host"], Request(c, "full"))]
    BY DEF HostRequest
  <2>2. /\ queue \in [Ends -> Seq(Frames)] /\ queue["host"] \in Seq(Frames)
        /\ OneRequestEach(queue["host"])
    BY <1>1 DEF TypeOK, LinkInv, FramesInv
  <2>3. /\ Request(c, "full") \in Frames /\ Request(c, "full").type = "req"
        /\ Request(c, "full").call = c
    BY MakeFrame
  <2> DEFINE s == Append(queue["host"], Request(c, "full"))
  <2>4. /\ s \in Seq(Frames) /\ OneRequestEach(s)
        /\ Requested(s) = Requested(queue["host"]) \cup {c}
        /\ Responded(s) = Responded(queue["host"]) 
    BY <2>2, <2>3, AppendFrame, <1>3
  <2>5. queue'["host"] = s /\ queue'["child"] = queue["child"]
    BY <2>1, <2>2
  <2>6. queue' \in [Ends -> Seq(Frames)]
    BY <2>1, <2>2, <2>4
  <2> HIDE DEF s
  <2> QED
    BY <2>4, <2>5, <2>6
<1>5. /\ outcome' = [outcome EXCEPT ![c] = "waiting"] /\ pending' = pending \cup {c}
      /\ UNCHANGED <<ready, closed, greeted, wire, blocked, handlers, issued,
                     cancelled, future, runs>>
  BY DEF HostRequest
<1>6. TypeOK'
  BY <1>1, <1>2, <1>3, <1>4, <1>5 DEF TypeOK, Verdicts
<1>7. FramesInv'
  <2>1. /\ Requested(queue'["host"]) \cap Requested(wire'["host"]) = {}
        /\ Requested(queue'["host"]) \cup Requested(wire'["host"]) \subseteq HostCalls
        /\ OneRequestEach(queue'["host"]) /\ OneRequestEach(wire'["host"])
    <3>1. /\ Requested(queue["host"]) \cap Requested(wire["host"]) = {}
          /\ Requested(queue["host"]) \cup Requested(wire["host"]) \subseteq HostCalls
          /\ OneRequestEach(wire["host"])
      BY <1>1 DEF LinkInv, FramesInv
    <3>2. wire' = wire /\ c \notin Requested(wire["host"])
      BY <1>3, <1>5
    <3> QED
      BY <1>2, <1>4, <3>1, <3>2
  <2>2. handlers'["host"] \cup Responded(queue'["host"]) \cup Responded(wire'["host"])
          \subseteq ChildCalls
    BY <1>1, <1>2, <1>3, <1>4, <1>5 DEF LinkInv, FramesInv
  <2> QED
    BY <1>1, <1>2, <1>3, <1>4, <1>5, <2>1, <2>2 DEF LinkInv, FramesInv
<1>8. QueuedInv'
  <2> SUFFICES ASSUME NEW e \in Ends, NEW d \in Requested(queue'[e])
               PROVE  /\ runs[d] = 0 /\ d \notin issued
                      /\ outcome'[d] \in {"waiting", "truncated"}
                      /\ outcome'[d] = "waiting" => d \in pending'
                           \/ (e = "host" /\ (d \in cancelled \/ future[d] # "waiting"))
    BY <1>5 DEF QueuedInv
  <2>1. CASE d = c
    BY <1>1, <1>3, <1>5, <2>1 DEF TypeOK
  <2>2. CASE d # c
    <3>1. d \in Requested(queue[e]) /\ d \in Calls
      BY <1>4, <2>2 DEF Requested
    <3> QED
      BY <1>1, <1>5, <2>2, <3>1 DEF TypeOK, LinkInv, QueuedInv
  <2> QED
    BY <2>1, <2>2
<1>9. WireInv'
  BY <1>1, <1>2, <1>3, <1>4, <1>5 DEF LinkInv, FramesInv, WireInv, Sent
<1>10. RunsInv'
  <2>1. \A d \in Calls : Sent(d) => Sent(d)'
    BY <1>1, <1>2, <1>3, <1>4, <1>5 DEF Sent, TypeOK
  <2>2. \A d \in Calls : runs'[d] \in {0, 1} /\ (runs'[d] = 1 => Sent(d)')
    BY <1>1, <1>2, <1>3, <1>4, <1>5, <2>1 DEF LinkInv, RunsInv
  <2>3. \A d \in Calls : outcome'[d] \in {"ok", "error"} => runs'[d] = 1
    BY <1>1, <1>2, <1>3, <1>4, <1>5 DEF LinkInv, RunsInv, TypeOK
  <2>4. \A e \in Ends : \A d \in handlers'[e] : runs'[d] = 1
    BY <1>1, <1>2, <1>3, <1>4, <1>5 DEF LinkInv, RunsInv, TypeOK
  <2>5. \A e \in Ends : \A d \in Responded(queue'[e]) \cup Responded(wire'[e]) : runs'[d] = 1
    BY <1>1, <1>2, <1>3, <1>4, <1>5 DEF LinkInv, RunsInv
  <2> QED
    BY <2>2, <2>3, <2>4, <2>5 DEF RunsInv
<1>11. PendingInv'
  BY <1>1, <1>2, <1>3, <1>4, <1>5 DEF TypeOK, LinkInv, PendingInv
<1>12. FutureInv'
  BY <1>1, <1>2, <1>3, <1>4, <1>5 DEF LinkInv, FutureInv, FramesInv
<1>13. StreamInv'
  BY <1>1, <1>2, <1>3, <1>4, <1>5 DEF TypeOK, LinkInv, StreamInv
<1> QED
  BY <1>6, <1>7, <1>8, <1>9, <1>10, <1>11, <1>12, <1>13 DEF Inv, LinkInv

\* HostWrite preserves the invariant.
LEMMA HostWriteInv ==
  ASSUME Inv, HostWrite PROVE Inv'
<1> USE Constants
<1>1. TypeOK /\ LinkInv
  BY DEF Inv
<1>2. /\ queue["host"] \in Seq(Frames) /\ queue["host"] # <<>> /\ OneRequestEach(queue["host"])
      /\ wire["host"] \in Seq(Frames) /\ OneRequestEach(wire["host"])
      /\ queue \in [Ends -> Seq(Frames)] /\ wire \in [Ends -> Seq(Frames)]
      /\ queue' = [queue EXCEPT !["host"] = Tail(queue["host"])]
  BY <1>1 DEF HostWrite, TypeOK, LinkInv, FramesInv
<1>3. /\ queue' \in [Ends -> Seq(Frames)] /\ queue'["child"] = queue["child"]
      /\ Head(queue["host"]) \in Frames
      /\ OneRequestEach(queue'["host"])
      /\ Requested(queue["host"]) = Requested(queue'["host"])
           \cup (IF Head(queue["host"]).type = "req" THEN {Head(queue["host"]).call} ELSE {})
      /\ Responded(queue["host"]) = Responded(queue'["host"])
           \cup (IF Head(queue["host"]).type = "res" THEN {Head(queue["host"]).call} ELSE {})
      /\ Head(queue["host"]).type = "req" => Head(queue["host"]).call \notin Requested(queue'["host"])
  BY <1>2, HeadTail
<1>4. UNCHANGED <<ready, closed, greeted, blocked, handlers, pending, cancelled, future,
                   outcome, runs>>
  BY DEF HostWrite
<1>5. \/ /\ wire' = wire /\ issued' = issued
         \/ /\ wire' = [wire EXCEPT !["host"] = Append(wire["host"], Head(queue["host"]))]
            /\ issued' = IF Head(queue["host"]).type = "req" /\ Head(queue["host"]).call \in pending
                         THEN issued \cup {Head(queue["host"]).call} ELSE issued
            /\ Head(queue["host"]).type = "req" =>
                 /\ Head(queue["host"]).call \notin cancelled
                 /\ future[Head(queue["host"]).call] = "waiting"
  <2> DEFINE dead == /\ Head(queue["host"]).type = "req"
                     /\ \/ Head(queue["host"]).call \in cancelled
                        \/ future[Head(queue["host"]).call] # "waiting"
  <2>1. CASE dead
    BY <2>1 DEF HostWrite
  <2>2. CASE ~dead
    BY <2>2 DEF HostWrite
  <2> QED
    BY <2>1, <2>2
<1>6. Head(queue["host"]).type = "req" =>
        /\ Head(queue["host"]).call \in HostCalls
        /\ runs[Head(queue["host"]).call] = 0
        /\ outcome[Head(queue["host"]).call] \in {"waiting", "truncated"}
        /\ Head(queue["host"]).call \notin Requested(wire["host"])
        /\ \/ outcome[Head(queue["host"]).call] = "truncated"
           \/ Head(queue["host"]).call \in pending
           \/ Head(queue["host"]).call \in cancelled
           \/ future[Head(queue["host"]).call] # "waiting"
  <2> SUFFICES ASSUME Head(queue["host"]).type = "req"
               PROVE  /\ Head(queue["host"]).call \in HostCalls
                      /\ runs[Head(queue["host"]).call] = 0
                      /\ outcome[Head(queue["host"]).call] \in {"waiting", "truncated"}
                      /\ Head(queue["host"]).call \notin Requested(wire["host"])
                      /\ outcome[Head(queue["host"]).call] = "waiting" =>
                           \/ Head(queue["host"]).call \in pending
                           \/ Head(queue["host"]).call \in cancelled
                           \/ future[Head(queue["host"]).call] # "waiting"
    OBVIOUS
  <2> DEFINE h == Head(queue["host"]).call
  <2>1. h \in Requested(queue["host"])
    BY <1>3
  <2> HIDE DEF h
  <2>2. h \in HostCalls /\ h \notin Requested(wire["host"])
    BY <1>1, <2>1 DEF LinkInv, FramesInv
  <2>3. /\ runs[h] = 0 /\ outcome[h] \in {"waiting", "truncated"}
        /\ outcome[h] = "waiting" => h \in pending \/ h \in cancelled \/ future[h] # "waiting"
    BY <1>1, <2>1 DEF LinkInv, QueuedInv
  <2> QED
    BY <2>2, <2>3 DEF h
<1>7. /\ wire' \in [Ends -> Seq(Frames)] /\ wire'["child"] = wire["child"]
      /\ OneRequestEach(wire'["host"])
      /\ issued \subseteq issued' /\ issued' \subseteq Calls
      /\ \/ /\ Requested(wire'["host"]) = Requested(wire["host"]) /\ issued' = issued
            /\ Responded(wire'["host"]) \subseteq Responded(wire["host"]) \cup Responded(queue["host"])
         \/ /\ Head(queue["host"]).type = "req"
            /\ Requested(wire'["host"]) = Requested(wire["host"]) \cup {Head(queue["host"]).call}
            /\ Responded(wire'["host"]) = Responded(wire["host"])
            /\ issued' \subseteq issued \cup {Head(queue["host"]).call}
            /\ outcome[Head(queue["host"]).call] \notin {"idle", "not_sent"}
            /\ outcome[Head(queue["host"]).call] = "waiting" =>
                 Head(queue["host"]).call \in issued'
            /\ future[Head(queue["host"]).call] = "waiting"
            /\ issued' # issued => outcome[Head(queue["host"]).call] = "waiting"
  <2>1. CASE wire' = wire /\ issued' = issued
    BY <1>1, <1>2, <2>1 DEF TypeOK
  <2>2. CASE /\ wire' = [wire EXCEPT !["host"] = Append(wire["host"], Head(queue["host"]))]
             /\ issued' = IF Head(queue["host"]).type = "req" /\ Head(queue["host"]).call \in pending
                          THEN issued \cup {Head(queue["host"]).call} ELSE issued
             /\ Head(queue["host"]).type = "req" =>
                  /\ Head(queue["host"]).call \notin cancelled
                  /\ future[Head(queue["host"]).call] = "waiting"
    <3> DEFINE s == Append(wire["host"], Head(queue["host"]))
    <3>1. /\ s \in Seq(Frames) /\ OneRequestEach(s)
          /\ Requested(s) = Requested(wire["host"])
               \cup (IF Head(queue["host"]).type = "req" THEN {Head(queue["host"]).call} ELSE {})
          /\ Responded(s) = Responded(wire["host"])
               \cup (IF Head(queue["host"]).type = "res" THEN {Head(queue["host"]).call} ELSE {})
      BY <1>2, <1>3, <1>6, AppendFrame
    <3>2. wire'["host"] = s /\ wire'["child"] = wire["child"]
      BY <1>2, <2>2
    <3>3. wire' \in [Ends -> Seq(Frames)]
      BY <1>2, <2>2, <3>1
    <3> HIDE DEF s
    <3>4. CASE Head(queue["host"]).type = "req"
      <4> DEFINE h == Head(queue["host"]).call
      <4>1. /\ h \in HostCalls /\ h \notin cancelled /\ future[h] = "waiting"
            /\ outcome[h] \in {"waiting", "truncated"}
            /\ outcome[h] = "waiting" => h \in pending
            /\ issued' = IF h \in pending THEN issued \cup {h} ELSE issued
        BY <1>6, <2>2, <3>4
      <4>2. Requested(s) = Requested(wire["host"]) \cup {h} /\ Responded(s) = Responded(wire["host"])
        BY <3>1, <3>4
      <4>3. h \in pending => outcome[h] = "waiting"
        BY <1>1 DEF LinkInv, PendingInv
      <4> HIDE DEF h
      <4>4. outcome' = outcome /\ issued \subseteq Calls
        BY <1>1, <1>4 DEF TypeOK
      <4>5. outcome[h] \notin {"idle", "not_sent"} /\ (outcome[h] = "waiting" => h \in issued')
        BY <4>1
      <4>6. /\ issued \subseteq issued' /\ issued' \subseteq Calls
            /\ issued' \subseteq issued \cup {h}
            /\ issued' # issued => outcome[h] = "waiting"
        BY <4>1, <4>3, <4>4
      <4> QED
        BY <3>1, <3>2, <3>3, <3>4, <4>1, <4>2, <4>5, <4>6 DEF h
    <3>5. CASE Head(queue["host"]).type # "req"
      BY <1>1, <1>3, <2>2, <3>1, <3>2, <3>3, <3>5 DEF TypeOK
    <3> QED
      BY <3>4, <3>5
  <2> QED
    BY <1>5, <2>1, <2>2
<1>8. TypeOK'
  BY <1>1, <1>3, <1>4, <1>7 DEF TypeOK
<1>9. FramesInv'
  <2>1. /\ Requested(queue["host"]) \cap Requested(wire["host"]) = {}
        /\ Requested(queue["host"]) \cup Requested(wire["host"]) \subseteq HostCalls
        /\ handlers["host"] \cup Responded(queue["host"]) \cup Responded(wire["host"])
             \subseteq ChildCalls
    BY <1>1 DEF LinkInv, FramesInv
  <2>2. /\ Requested(queue'["host"]) \cap Requested(wire'["host"]) = {}
        /\ Requested(queue'["host"]) \cup Requested(wire'["host"]) \subseteq HostCalls
    BY <1>3, <1>6, <1>7, <2>1
  <2>3. handlers'["host"] \cup Responded(queue'["host"]) \cup Responded(wire'["host"])
          \subseteq ChildCalls
    BY <1>3, <1>4, <1>7, <2>1
  <2> QED
    BY <1>1, <1>3, <1>4, <1>7, <2>2, <2>3 DEF LinkInv, FramesInv
<1>10. QueuedInv'
  <2> SUFFICES ASSUME NEW e \in Ends, NEW d \in Requested(queue'[e])
               PROVE  /\ runs[d] = 0 /\ d \notin issued'
                      /\ outcome[d] \in {"waiting", "truncated"}
                      /\ outcome[d] = "waiting" => d \in pending
                           \/ (e = "host" /\ (d \in cancelled \/ future[d] # "waiting"))
    BY <1>4 DEF QueuedInv
  <2>1. d \in Requested(queue[e])
    BY <1>3
  <2>2. Head(queue["host"]).type = "req" => d # Head(queue["host"]).call
    BY <1>1, <1>3, <1>6, <2>1 DEF LinkInv, FramesInv
  <2> QED
    BY <1>1, <1>7, <2>1, <2>2 DEF LinkInv, QueuedInv
<1>11. WireInv'
  <2>1. \A c \in Calls : Sent(c) => Sent(c)'
    BY <1>4, <1>7 DEF Sent
  <2> SUFFICES ASSUME NEW e \in Ends, NEW d \in Requested(wire'[e])
               PROVE  runs[d] = 0 /\ Sent(d)'
    BY <1>4 DEF WireInv
  <2>2. CASE d \in Requested(wire[e])
    BY <1>1, <2>1, <2>2 DEF LinkInv, WireInv, Requested
  <2>3. CASE d \notin Requested(wire[e])
    <3>1. e = "host" /\ Head(queue["host"]).type = "req" /\ d = Head(queue["host"]).call
      BY <1>7, <2>3
    <3>2. runs[d] = 0
      BY <1>6, <3>1
    <3>3. Sent(d)'
      BY <1>4, <1>7, <2>3, <3>1 DEF Sent
    <3> QED
      BY <3>2, <3>3
  <2> QED
    BY <2>2, <2>3
<1>12. RunsInv'
  <2>1. \A c \in Calls : Sent(c) => Sent(c)'
    BY <1>4, <1>7 DEF Sent
  <2>2. \A e \in Ends : Responded(queue'[e]) \cup Responded(wire'[e])
          \subseteq Responded(queue[e]) \cup Responded(wire[e])
    BY <1>3, <1>7
  <2> QED
    BY <1>1, <1>4, <2>1, <2>2 DEF LinkInv, RunsInv
<1>13. PendingInv'
  BY <1>1, <1>4, <1>7 DEF LinkInv, PendingInv
<1>14. FutureInv'
  BY <1>1, <1>4, <1>7 DEF LinkInv, FutureInv
<1>15. StreamInv'
  BY <1>1, <1>4, <1>7 DEF LinkInv, StreamInv
<1> QED
  BY <1>8, <1>9, <1>10, <1>11, <1>12, <1>13, <1>14, <1>15 DEF Inv, LinkInv

\* HostResume preserves the invariant.
LEMMA HostResumeInv ==
  ASSUME Inv, NEW c \in Calls, HostResume(c) PROVE Inv'
<1> USE Constants
<1>1. TypeOK /\ LinkInv
  BY DEF Inv
<1>2. /\ queue["host"] \in Seq(Frames) /\ OneRequestEach(queue["host"])
      /\ queue \in [Ends -> Seq(Frames)]
      /\ queue' = [queue EXCEPT !["host"] = WithoutRequest(queue["host"], c)]
  BY <1>1 DEF HostResume, TypeOK, LinkInv, FramesInv
<1>3. /\ queue' \in [Ends -> Seq(Frames)] /\ queue'["child"] = queue["child"]
      /\ Requested(queue'["host"]) = Requested(queue["host"]) \ {c}
      /\ Responded(queue'["host"]) \subseteq Responded(queue["host"])
      /\ OneRequestEach(queue'["host"])
  <2> DEFINE s == WithoutRequest(queue["host"], c)
  <2>1. /\ s \in Seq(Frames) /\ OneRequestEach(s)
        /\ Requested(s) = Requested(queue["host"]) \ {c}
        /\ Responded(s) \subseteq Responded(queue["host"])
    BY <1>2, Without
  <2> HIDE DEF s
  <2>2. queue' = [queue EXCEPT !["host"] = s]
    BY <1>2 DEF s
  <2> QED
    BY <1>2, <2>1, <2>2
<1>4. /\ outcome' = [outcome EXCEPT ![c] = IF c \in cancelled THEN Verdict(c) ELSE future[c]]
      /\ pending' = pending \ {c} /\ issued' = issued \ {c}
      /\ UNCHANGED <<ready, closed, greeted, wire, blocked, handlers, cancelled, future, runs>>
  BY DEF HostResume
<1>5. c \in HostCalls /\ outcome[c] = "waiting" /\ (c \in cancelled \/ future[c] # "waiting")
  BY DEF HostResume
<1>6. \A d \in Calls : Sent(d) => Sent(d)'
           \/ (d = c /\ runs[d] = 0 /\ \A e \in Ends : d \notin Requested(wire[e]))
  <2> SUFFICES ASSUME NEW d \in Calls, Sent(d)
               PROVE  Sent(d)'
                      \/ (d = c /\ runs[d] = 0 /\ \A e \in Ends : d \notin Requested(wire[e]))
    OBVIOUS
  <2>1. CASE d # c
    BY <1>1, <1>4, <2>1 DEF TypeOK, Sent
  <2>2. CASE d = c /\ c \in cancelled
    BY <1>1, <1>4, <1>5, <2>2 DEF TypeOK, Sent, Verdict
  <2>3. CASE d = c /\ c \notin cancelled
    <3>1. outcome'[c] = future[c] /\ future[c] \in Verdicts
      BY <1>1, <1>4, <1>5, <2>3 DEF TypeOK
    <3>2. CASE future[c] = "not_sent"
      <4>1. runs[c] = 0 /\ c \notin Requested(wire["host"])
        BY <1>1, <1>5, <3>2 DEF LinkInv, FutureInv
      <4>2. c \notin Requested(wire["child"])
        BY <1>1, <1>5 DEF LinkInv, FramesInv
      <4> QED
        BY <2>3, <4>1, <4>2
    <3>3. CASE future[c] # "not_sent"
      BY <2>3, <3>1, <3>3 DEF Sent, Verdicts
    <3> QED
      BY <3>2, <3>3
  <2> QED
    BY <2>1, <2>2, <2>3
<1>7. TypeOK'
  BY <1>1, <1>2, <1>3, <1>4, <1>5, <1>6 DEF TypeOK, Verdicts, Verdict
<1>8. FramesInv'
  BY <1>1, <1>3, <1>4 DEF LinkInv, FramesInv
<1>9. QueuedInv'
  <2> SUFFICES ASSUME NEW e \in Ends, NEW d \in Requested(queue'[e])
               PROVE  /\ runs[d] = 0 /\ d \notin issued'
                      /\ outcome'[d] \in {"waiting", "truncated"}
                      /\ outcome'[d] = "waiting" => d \in pending'
                           \/ (e = "host" /\ (d \in cancelled \/ future[d] # "waiting"))
    BY <1>4 DEF QueuedInv
  <2>1. d \in Requested(queue[e]) /\ d # c /\ d \in Calls
    BY <1>1, <1>3, <1>5 DEF LinkInv, FramesInv
  <2> QED
    BY <1>1, <1>4, <2>1 DEF TypeOK, LinkInv, QueuedInv
<1>10. WireInv'
  <2> SUFFICES ASSUME NEW e \in Ends, NEW d \in Requested(wire[e])
               PROVE  runs[d] = 0 /\ Sent(d)'
    BY <1>4 DEF WireInv
  <2>1. runs[d] = 0 /\ Sent(d) /\ d \in Calls
    BY <1>1 DEF LinkInv, WireInv, Requested
  <2> QED
    BY <1>6, <2>1
<1>11. RunsInv'
  <2>1. \A d \in Calls : outcome'[d] \in {"ok", "error"} => runs[d] = 1
    BY <1>1, <1>4, <1>5 DEF TypeOK, LinkInv, RunsInv, FutureInv, Verdict
  <2>2. \A d \in Calls : runs[d] \in {0, 1} /\ (runs[d] = 1 => Sent(d)')
    BY <1>1, <1>6 DEF LinkInv, RunsInv
  <2>3. \A e \in Ends : \A d \in Responded(queue'[e]) \cup Responded(wire'[e]) : runs[d] = 1
    BY <1>1, <1>3, <1>4 DEF LinkInv, RunsInv
  <2> QED
    BY <1>1, <1>4, <2>1, <2>2, <2>3 DEF LinkInv, RunsInv
<1>12. PendingInv'
  BY <1>1, <1>2, <1>3, <1>4, <1>5, <1>6 DEF TypeOK, LinkInv, PendingInv, Verdict
<1>13. FutureInv'
  BY <1>1, <1>2, <1>3, <1>4, <1>5, <1>6 DEF LinkInv, FutureInv, FramesInv, Verdict
<1>14. StreamInv'
  BY <1>1, <1>2, <1>3, <1>4, <1>5, <1>6 DEF TypeOK, LinkInv, StreamInv, Verdict
<1> QED
  BY <1>7, <1>8, <1>9, <1>10, <1>11, <1>12, <1>13, <1>14 DEF Inv, LinkInv

\* ChildCancel preserves the invariant.
LEMMA ChildCancelInv ==
  ASSUME Inv, NEW c \in Calls, ChildCancel(c) PROVE Inv'
<1> USE Constants
<1>1. TypeOK /\ LinkInv
  BY DEF Inv
<1>2. /\ queue["child"] \in Seq(Frames) /\ OneRequestEach(queue["child"])
      /\ queue \in [Ends -> Seq(Frames)]
      /\ queue' = [queue EXCEPT !["child"] = WithoutRequest(queue["child"], c)]
  BY <1>1 DEF ChildCancel, TypeOK, LinkInv, FramesInv
<1>3. /\ queue' \in [Ends -> Seq(Frames)] /\ queue'["host"] = queue["host"]
      /\ Requested(queue'["child"]) = Requested(queue["child"]) \ {c}
      /\ Responded(queue'["child"]) \subseteq Responded(queue["child"])
      /\ OneRequestEach(queue'["child"])
  <2> DEFINE s == WithoutRequest(queue["child"], c)
  <2>1. /\ s \in Seq(Frames) /\ OneRequestEach(s)
        /\ Requested(s) = Requested(queue["child"]) \ {c}
        /\ Responded(s) \subseteq Responded(queue["child"])
    BY <1>2, Without
  <2> HIDE DEF s
  <2>2. queue' = [queue EXCEPT !["child"] = s]
    BY <1>2 DEF s
  <2> QED
    BY <1>2, <2>1, <2>2
<1>4. /\ outcome' = [outcome EXCEPT ![c] = Verdict(c)]
      /\ pending' = pending \ {c} /\ issued' = issued \ {c}
      /\ UNCHANGED <<ready, closed, greeted, wire, blocked, handlers, cancelled, future, runs>>
  BY DEF ChildCancel
<1>5. c \in ChildCalls /\ outcome[c] = "waiting"
  BY <1>1 DEF ChildCancel, LinkInv, PendingInv
<1>6. \A d \in Calls : Sent(d) => Sent(d)'
  BY <1>1, <1>4, <1>5 DEF TypeOK, Sent, Verdict
<1>7. TypeOK'
  BY <1>1, <1>2, <1>3, <1>4, <1>5, <1>6 DEF TypeOK, Verdicts, Verdict
<1>8. FramesInv'
  BY <1>1, <1>3, <1>4 DEF LinkInv, FramesInv
<1>9. QueuedInv'
  <2> SUFFICES ASSUME NEW e \in Ends, NEW d \in Requested(queue'[e])
               PROVE  /\ runs[d] = 0 /\ d \notin issued'
                      /\ outcome'[d] \in {"waiting", "truncated"}
                      /\ outcome'[d] = "waiting" => d \in pending'
                           \/ (e = "host" /\ (d \in cancelled \/ future[d] # "waiting"))
    BY <1>4 DEF QueuedInv
  <2>1. d \in Requested(queue[e]) /\ d # c /\ d \in Calls
    BY <1>1, <1>3, <1>5 DEF LinkInv, FramesInv
  <2> QED
    BY <1>1, <1>4, <2>1 DEF TypeOK, LinkInv, QueuedInv
<1>10. WireInv'
  <2> SUFFICES ASSUME NEW e \in Ends, NEW d \in Requested(wire[e])
               PROVE  runs[d] = 0 /\ Sent(d)'
    BY <1>4 DEF WireInv
  <2>1. runs[d] = 0 /\ Sent(d) /\ d \in Calls
    BY <1>1 DEF LinkInv, WireInv, Requested
  <2> QED
    BY <1>6, <2>1
<1>11. RunsInv'
  <2>1. \A d \in Calls : outcome'[d] \in {"ok", "error"} => runs[d] = 1
    BY <1>1, <1>4, <1>5 DEF TypeOK, LinkInv, RunsInv, FutureInv, Verdict
  <2>2. \A d \in Calls : runs[d] \in {0, 1} /\ (runs[d] = 1 => Sent(d)')
    BY <1>1, <1>6 DEF LinkInv, RunsInv
  <2>3. \A e \in Ends : \A d \in Responded(queue'[e]) \cup Responded(wire'[e]) : runs[d] = 1
    BY <1>1, <1>3, <1>4 DEF LinkInv, RunsInv
  <2> QED
    BY <1>1, <1>4, <2>1, <2>2, <2>3 DEF LinkInv, RunsInv
<1>12. PendingInv'
  BY <1>1, <1>2, <1>3, <1>4, <1>5, <1>6 DEF TypeOK, LinkInv, PendingInv, Verdict
<1>13. FutureInv'
  BY <1>1, <1>2, <1>3, <1>4, <1>5, <1>6 DEF LinkInv, FutureInv, FramesInv, Verdict
<1>14. StreamInv'
  BY <1>1, <1>2, <1>3, <1>4, <1>5, <1>6 DEF TypeOK, LinkInv, StreamInv, Verdict
<1> QED
  BY <1>7, <1>8, <1>9, <1>10, <1>11, <1>12, <1>13, <1>14 DEF Inv, LinkInv
\* A child call whose frame (or marker) is admitted keeps the invariant.
LEMMA ChildSubmitInv ==
  ASSUME Inv, NEW c \in ChildCalls, NEW tag \in {"full", "cut"},
         NEW o \in {"waiting", "truncated"},
         outcome[c] = "idle", ready["child"],
         outcome' = [outcome EXCEPT ![c] = o],
         pending' = IF o = "waiting" THEN pending \cup {c} ELSE pending,
         ChildPump(Append(queue["child"], Request(c, tag)), ~blocked, pending'),
         UNCHANGED <<ready, closed, greeted, handlers, cancelled, future, runs>>
  PROVE  Inv'
<1> USE Constants
<1> DEFINE q == Append(queue["child"], Request(c, tag))
<1>1. TypeOK /\ LinkInv /\ c \in Calls
  BY DEF Inv
<1>2. /\ runs[c] = 0 /\ c \notin issued /\ c \notin pending
      /\ \A e \in Ends : c \notin Requested(queue[e]) \cup Requested(wire[e])
  BY <1>1 DEF TypeOK, LinkInv, QueuedInv, WireInv, RunsInv, PendingInv, Sent
<1>3. /\ queue["child"] \in Seq(Frames) /\ OneRequestEach(queue["child"])
      /\ Requested(queue["child"]) \cap Requested(wire["child"]) = {}
      /\ Requested(queue["child"]) \cup Requested(wire["child"]) \subseteq ChildCalls
      /\ OneRequestEach(wire["child"])
  BY <1>1 DEF TypeOK, LinkInv, FramesInv
<1>4. /\ q \in Seq(Frames) /\ OneRequestEach(q)
      /\ Requested(q) = Requested(queue["child"]) \cup {c}
      /\ Responded(q) = Responded(queue["child"])
  <2>1. /\ Request(c, tag) \in Frames /\ Request(c, tag).type = "req"
        /\ Request(c, tag).call = c
    BY <1>1, MakeFrame
  <2> DEFINE f == Request(c, tag)
  <2> HIDE DEF f
  <2>2. f \in Frames /\ f.type = "req" /\ f.call = c
    BY <2>1 DEF f
  <2>3. q = Append(queue["child"], f)
    BY DEF f
  <2> HIDE DEF q
  <2>4. /\ q \in Seq(Frames)
        /\ Requested(q) = Requested(queue["child"]) \cup {c}
        /\ Responded(q) = Responded(queue["child"]) \cup {}
        /\ c \notin Requested(queue["child"]) => OneRequestEach(q)
    <3>1. queue["child"] \in Seq(Frames) /\ OneRequestEach(queue["child"])
      BY <1>3
    <3> QED
      BY <2>2, <2>3, <3>1, AppendFrame
  <2> QED
    BY <1>2, <2>4
<1>5. ChildPump(q, ~blocked, pending')
  OBVIOUS
<1> HIDE DEF q
<1>6. (~blocked) \in BOOLEAN /\ (~blocked => Len(wire["child"]) < HighWater)
  <2>1. ~closed["child"]
    BY <1>1 DEF LinkInv, StreamInv
  <2>2. ~blocked => Len(wire["child"]) < HighWater
    BY <1>1, <2>1 DEF LinkInv, StreamInv
  <2>3. (~blocked) \in BOOLEAN
    BY Zenon
  <2> QED
    BY <2>2, <2>3
<1>7. /\ queue' \in [Ends -> Seq(Frames)] /\ queue'["host"] = queue["host"]
      /\ wire' \in [Ends -> Seq(Frames)] /\ wire'["host"] = wire["host"]
      /\ blocked' \in BOOLEAN
      /\ ~blocked' => Len(wire'["child"]) < HighWater
      /\ Requested(queue'["child"]) \subseteq Requested(q)
      /\ Requested(wire'["child"]) = Requested(wire["child"])
            \cup (Requested(q) \ Requested(queue'["child"]))
      /\ Responded(queue'["child"]) \cup Responded(wire'["child"]) =
            Responded(q) \cup Responded(wire["child"])
      /\ OneRequestEach(queue'["child"]) /\ OneRequestEach(wire'["child"])
      /\ issued' = issued \cup ((Requested(q) \ Requested(queue'["child"])) \cap pending')
  <2>1. Requested(q) \cap Requested(wire["child"]) = {}
    BY <1>2, <1>3, <1>4
  <2>2. q \in Seq(Frames) /\ OneRequestEach(q) /\ OneRequestEach(wire["child"])
    BY <1>3, <1>4
  <2> DEFINE free == ~blocked
             entries == pending'
  <2>3. /\ free \in BOOLEAN /\ (free => Len(wire["child"]) < HighWater)
        /\ ChildPump(q, free, entries)
    BY <1>5, <1>6
  <2> HIDE DEF free, entries
  <2>4. TypeOK
    BY <1>1
  <2>5. issued' = issued \cup ((Requested(q) \ Requested(queue'["child"])) \cap entries)
    BY <2>1, <2>2, <2>3, <2>4, PumpFacts, SMTT(30)
  <2>6. /\ queue' \in [Ends -> Seq(Frames)] /\ queue'["host"] = queue["host"]
        /\ wire' \in [Ends -> Seq(Frames)] /\ wire'["host"] = wire["host"]
        /\ blocked' \in BOOLEAN
        /\ ~blocked' => Len(wire'["child"]) < HighWater
        /\ Requested(queue'["child"]) \subseteq Requested(q)
        /\ Requested(wire'["child"]) = Requested(wire["child"])
              \cup (Requested(q) \ Requested(queue'["child"]))
        /\ Responded(queue'["child"]) \cup Responded(wire'["child"]) =
              Responded(q) \cup Responded(wire["child"])
        /\ OneRequestEach(queue'["child"]) /\ OneRequestEach(wire'["child"])
    BY <2>1, <2>2, <2>3, <2>4, PumpFacts, SMTT(30)
  <2> QED
    BY <2>5, <2>6 DEF entries
<1>8. /\ \A d \in Calls : outcome'[d] = IF d = c THEN o ELSE outcome[d]
      /\ outcome' \in [Calls -> Verdicts \cup {"idle", "waiting"}]
  BY <1>1 DEF TypeOK, Verdicts
<1>9. TypeOK'
  BY <1>1, <1>7, <1>8 DEF TypeOK
<1>10. FramesInv'
  <2>1. /\ Requested(queue'["child"]) \cap Requested(wire'["child"]) = {}
        /\ Requested(queue'["child"]) \cup Requested(wire'["child"]) \subseteq ChildCalls
    BY <1>2, <1>3, <1>4, <1>7
  <2>2. handlers["child"] \cup Responded(queue'["child"]) \cup Responded(wire'["child"])
          \subseteq HostCalls
    <3>1. handlers["child"] \cup Responded(queue["child"]) \cup Responded(wire["child"])
            \subseteq HostCalls
      BY <1>1 DEF LinkInv, FramesInv
    <3> QED
      BY <1>4, <1>7, <3>1
  <2> QED
    BY <1>1, <1>7, <2>1, <2>2 DEF LinkInv, FramesInv
<1>11. \A d \in Requested(q) :
         /\ runs[d] = 0 /\ d \notin issued /\ d \in ChildCalls
         /\ outcome'[d] \in {"waiting", "truncated"}
         /\ outcome'[d] = "waiting" => d \in pending'
  <2> SUFFICES ASSUME NEW d \in Requested(q)
               PROVE  /\ runs[d] = 0 /\ d \notin issued /\ d \in ChildCalls
                      /\ outcome'[d] \in {"waiting", "truncated"}
                      /\ outcome'[d] = "waiting" => d \in pending'
    OBVIOUS
  <2>1. CASE d = c
    BY <1>2, <1>8, <2>1
  <2>2. CASE d # c
    <3>1. d \in Requested(queue["child"]) /\ d \in ChildCalls /\ d \in Calls
      BY <1>3, <1>4, <2>2
    <3> QED
      BY <1>1, <1>8, <2>2, <3>1 DEF LinkInv, QueuedInv
  <2> QED
    BY <2>1, <2>2
<1>12. QueuedInv'
  <2> SUFFICES ASSUME NEW e \in Ends, NEW d \in Requested(queue'[e])
               PROVE  /\ runs[d] = 0 /\ d \notin issued'
                      /\ outcome'[d] \in {"waiting", "truncated"}
                      /\ outcome'[d] = "waiting" => d \in pending'
                           \/ (e = "host" /\ (d \in cancelled \/ future[d] # "waiting"))
    BY DEF QueuedInv
  <2>1. CASE e = "child"
    BY <1>7, <1>11, <2>1
  <2>2. CASE e = "host"
    <3>1. d \in Requested(queue["host"]) /\ d \in HostCalls /\ d \in Calls
      BY <1>1, <1>7, <2>2 DEF LinkInv, FramesInv
    <3>2. d # c /\ d \notin Requested(q)
      BY <1>11, <3>1
    <3> QED
      BY <1>1, <1>7, <1>8, <2>2, <3>1, <3>2 DEF LinkInv, QueuedInv
  <2> QED
    BY <2>1, <2>2
<1>13. \A d \in Calls : Sent(d) => Sent(d)'
  BY <1>7, <1>8 DEF Sent
<1>14. WireInv'
  <2> SUFFICES ASSUME NEW e \in Ends, NEW d \in Requested(wire'[e])
               PROVE  runs[d] = 0 /\ Sent(d)'
    BY DEF WireInv
  <2>1. CASE d \in Requested(wire[e])
    BY <1>1, <1>13, <2>1 DEF LinkInv, WireInv, Requested
  <2>2. CASE d \notin Requested(wire[e])
    <3>1. d \in Requested(q) \ Requested(queue'["child"])
      BY <1>7, <2>2
    <3> QED
      BY <1>7, <1>11, <3>1 DEF Sent
  <2> QED
    BY <2>1, <2>2
<1>15. RunsInv'
  <2>1. \A d \in Calls : outcome'[d] \in {"ok", "error"} => runs[d] = 1
    BY <1>1, <1>8 DEF LinkInv, RunsInv
  <2>2. \A d \in Calls : runs[d] \in {0, 1} /\ (runs[d] = 1 => Sent(d)')
    BY <1>1, <1>13 DEF LinkInv, RunsInv
  <2>3. \A e \in Ends : \A d \in Responded(queue'[e]) \cup Responded(wire'[e]) : runs[d] = 1
    <3>1. \A e \in Ends : Responded(queue'[e]) \cup Responded(wire'[e]) =
                          Responded(queue[e]) \cup Responded(wire[e])
      BY <1>4, <1>7
    <3> QED
      BY <1>1, <3>1 DEF LinkInv, RunsInv
  <2> QED
    BY <1>1, <2>1, <2>2, <2>3 DEF LinkInv, RunsInv
<1>16. PendingInv'
  <2>1. \A d \in pending' \cup issued' : outcome'[d] = "waiting"
    BY <1>1, <1>2, <1>7, <1>8, <1>11 DEF TypeOK, LinkInv, PendingInv
  <2>2. \A d \in ChildCalls : outcome'[d] = "waiting" => d \in pending'
    BY <1>1, <1>8 DEF LinkInv, PendingInv
  <2> QED
    BY <2>1, <2>2 DEF PendingInv
<1>17. FutureInv'
  BY <1>1, <1>7, <1>11 DEF LinkInv, FutureInv
<1>18. StreamInv'
  BY <1>1, <1>7 DEF LinkInv, StreamInv
<1> QED
  BY <1>9, <1>10, <1>12, <1>14, <1>15, <1>16, <1>17, <1>18 DEF Inv, LinkInv

\* A call the child submits, oversized or not, keeps the invariant.
LEMMA ChildRequestInv ==
  ASSUME Inv, NEW c \in Calls, ChildRequest(c) \/ ChildRequestOversized(c) PROVE Inv'
<1> USE Constants
<1>1. c \in ChildCalls /\ outcome[c] = "idle" /\ ready["child"]
  BY DEF ChildRequest, ChildRequestOversized, Callable
<1>2. CASE ChildRequest(c)
  <2>1. /\ outcome' = [outcome EXCEPT ![c] = "waiting"]
        /\ pending' = IF "waiting" = "waiting" THEN pending \cup {c} ELSE pending
        /\ ChildPump(Append(queue["child"], Request(c, "full")), ~blocked, pending')
        /\ UNCHANGED <<ready, closed, greeted, handlers, cancelled, future, runs>>
    BY <1>2 DEF ChildRequest
  <2> QED
    BY <1>1, <2>1, ChildSubmitInv
<1>3. CASE ChildRequestOversized(c)
  <2>1. /\ outcome' = [outcome EXCEPT ![c] = "truncated"]
        /\ pending' = IF "truncated" = "waiting" THEN pending \cup {c} ELSE pending
        /\ ChildPump(Append(queue["child"], Request(c, "cut")), ~blocked, pending')
        /\ UNCHANGED <<ready, closed, greeted, handlers, cancelled, future, runs>>
    BY <1>3 DEF ChildRequestOversized
  <2> QED
    BY <1>1, <2>1, ChildSubmitInv
<1> QED
  BY <1>2, <1>3
\* A response the child's handler returns keeps the invariant.
LEMMA ChildRespondInv ==
  ASSUME Inv, NEW c \in Calls, NEW tag \in {"ok", "error", "truncated"},
         ChildRespond(c, tag)
  PROVE  Inv'
<1> USE Constants
<1>1. TypeOK /\ LinkInv
  BY DEF Inv
<1>2. CASE Refuses("child") /\ ChildEnd({c})
  BY <1>2, ChildEndInv
<1>3. CASE /\ ChildPump(Append(queue["child"], Response(c, tag)), ~blocked, pending)
           /\ handlers' = [handlers EXCEPT !["child"] = @ \ {c}]
           /\ UNCHANGED <<ready, closed, greeted, pending, cancelled, future, outcome, runs>>
  <2> DEFINE f == Response(c, tag)
             q == Append(queue["child"], f)
  <2>1. f \in Frames /\ f.type = "res" /\ f.call = c
    BY MakeFrame
  <2>2. c \in handlers["child"] /\ ~closed["child"]
    BY DEF ChildRespond
  <2>3. c \in HostCalls /\ runs[c] = 1
    BY <1>1, <2>2 DEF LinkInv, FramesInv, RunsInv
  <2>4. /\ queue["child"] \in Seq(Frames) /\ OneRequestEach(queue["child"])
        /\ Requested(queue["child"]) \cap Requested(wire["child"]) = {}
        /\ Requested(queue["child"]) \cup Requested(wire["child"]) \subseteq ChildCalls
        /\ OneRequestEach(wire["child"])
        /\ handlers["child"] \cup Responded(queue["child"]) \cup Responded(wire["child"])
             \subseteq HostCalls
    BY <1>1 DEF TypeOK, LinkInv, FramesInv
  <2>5. ChildPump(q, ~blocked, pending)
    BY <1>3
  <2> HIDE DEF f
  <2>6. /\ q \in Seq(Frames) /\ OneRequestEach(q)
        /\ Requested(q) = Requested(queue["child"])
        /\ Responded(q) = Responded(queue["child"]) \cup {c}
    <3>1. /\ Append(queue["child"], f) \in Seq(Frames)
          /\ Requested(Append(queue["child"], f)) =
               Requested(queue["child"]) \cup (IF f.type = "req" THEN {f.call} ELSE {})
          /\ Responded(Append(queue["child"], f)) =
               Responded(queue["child"]) \cup (IF f.type = "res" THEN {f.call} ELSE {})
          /\ OneRequestEach(queue["child"]) /\ (f.type = "req" => f.call \notin Requested(queue["child"]))
               => OneRequestEach(Append(queue["child"], f))
      BY <2>1, <2>4, AppendFrame
    <3> QED BY <2>1, <2>4, <3>1
  <2> HIDE DEF q
  <2>7. (~blocked) \in BOOLEAN /\ (~blocked => Len(wire["child"]) < HighWater)
    <3>1. ~blocked => Len(wire["child"]) < HighWater
      BY <1>1, <2>2 DEF LinkInv, StreamInv
    <3>2. (~blocked) \in BOOLEAN
      BY Zenon
    <3> QED
      BY <3>1, <3>2
  <2>8. /\ queue' \in [Ends -> Seq(Frames)] /\ queue'["host"] = queue["host"]
        /\ wire' \in [Ends -> Seq(Frames)] /\ wire'["host"] = wire["host"]
        /\ blocked' \in BOOLEAN
        /\ ~blocked' => Len(wire'["child"]) < HighWater
        /\ Requested(queue'["child"]) \subseteq Requested(q)
        /\ Requested(wire'["child"]) = Requested(wire["child"])
              \cup (Requested(q) \ Requested(queue'["child"]))
        /\ Responded(queue'["child"]) \cup Responded(wire'["child"]) =
              Responded(q) \cup Responded(wire["child"])
        /\ OneRequestEach(queue'["child"]) /\ OneRequestEach(wire'["child"])
        /\ issued' = issued \cup ((Requested(q) \ Requested(queue'["child"])) \cap pending)
    BY <1>1, <2>4, <2>5, <2>6, <2>7, PumpFacts
  <2>9. /\ \A d \in Requested(q) :
              /\ runs[d] = 0 /\ d \notin issued /\ d \in ChildCalls
              /\ outcome[d] \in {"waiting", "truncated"}
              /\ outcome[d] = "waiting" => d \in pending
    BY <1>1, <2>4, <2>6 DEF LinkInv, QueuedInv
  <2>10. TypeOK'
    BY <1>1, <1>3, <2>8 DEF TypeOK
  <2>11. FramesInv'
    <3>1. /\ Requested(queue'["child"]) \cap Requested(wire'["child"]) = {}
          /\ Requested(queue'["child"]) \cup Requested(wire'["child"]) \subseteq ChildCalls
      BY <2>4, <2>6, <2>8
    <3>2. handlers'["child"] \cup Responded(queue'["child"]) \cup Responded(wire'["child"])
            \subseteq HostCalls
      BY <1>1, <1>3, <2>3, <2>4, <2>6, <2>8 DEF TypeOK
    <3> QED
      BY <1>1, <1>3, <2>8, <3>1, <3>2 DEF TypeOK, LinkInv, FramesInv
  <2>12. QueuedInv'
    <3> SUFFICES ASSUME NEW e \in Ends, NEW d \in Requested(queue'[e])
                 PROVE  /\ runs[d] = 0 /\ d \notin issued'
                        /\ outcome[d] \in {"waiting", "truncated"}
                        /\ outcome[d] = "waiting" => d \in pending
                             \/ (e = "host" /\ (d \in cancelled \/ future[d] # "waiting"))
      BY <1>3 DEF QueuedInv
    <3>1. CASE e = "child"
      BY <2>8, <2>9, <3>1
    <3>2. CASE e = "host"
      <4>1. d \in Requested(queue["host"]) /\ d \in HostCalls /\ d \notin Requested(q)
        BY <1>1, <2>8, <2>9, <3>2 DEF LinkInv, FramesInv
      <4> QED
        BY <1>1, <2>8, <3>2, <4>1 DEF LinkInv, QueuedInv
    <3> QED
      BY <3>1, <3>2
  <2>13. \A d \in Calls : Sent(d) => Sent(d)'
    BY <1>3, <2>8 DEF Sent
  <2>14. WireInv'
    <3> SUFFICES ASSUME NEW e \in Ends, NEW d \in Requested(wire'[e])
                 PROVE  runs[d] = 0 /\ Sent(d)'
      BY <1>3 DEF WireInv
    <3>1. CASE d \in Requested(wire[e])
      BY <1>1, <2>13, <3>1 DEF LinkInv, WireInv, Requested
    <3>2. CASE d \notin Requested(wire[e])
      <4>1. d \in Requested(q) \ Requested(queue'["child"])
        BY <2>8, <3>2
      <4> QED
        BY <1>3, <2>8, <2>9, <4>1 DEF Sent
    <3> QED
      BY <3>1, <3>2
  <2>15. RunsInv'
    <3>1. \A e \in Ends : Responded(queue'[e]) \cup Responded(wire'[e]) \subseteq
                          Responded(queue[e]) \cup Responded(wire[e]) \cup {c}
      BY <2>6, <2>8
    <3>2. \A e \in Ends : \A d \in Responded(queue'[e]) \cup Responded(wire'[e]) : runs[d] = 1
      BY <1>1, <2>3, <3>1 DEF LinkInv, RunsInv
    <3> QED
      BY <1>1, <1>3, <2>13, <3>2 DEF TypeOK, LinkInv, RunsInv
  <2>16. PendingInv' /\ FutureInv' /\ StreamInv'
    BY <1>1, <1>3, <2>8, <2>9 DEF LinkInv, PendingInv, FutureInv, StreamInv
  <2> QED
    BY <2>10, <2>11, <2>12, <2>14, <2>15, <2>16 DEF Inv, LinkInv
<1> QED
  BY <1>2, <1>3 DEF ChildRespond

\* A response the host's handler returns keeps the invariant.
LEMMA HostRespondInv ==
  ASSUME Inv, NEW c \in Calls, NEW tag \in {"ok", "error", "truncated"},
         HostRespond(c, tag)
  PROVE  Inv'
<1> USE Constants
<1>1. TypeOK /\ LinkInv
  BY DEF Inv
<1>2. CASE Refuses("host") /\ HostFinish
  BY <1>2, HostFinishInv
<1>3. CASE /\ queue' = [queue EXCEPT !["host"] = Append(@, Response(c, tag))]
           /\ handlers' = [handlers EXCEPT !["host"] = @ \ {c}]
           /\ UNCHANGED <<ready, closed, greeted, wire, blocked, pending, issued,
                          cancelled, future, outcome, runs>>
  <2> DEFINE f == Response(c, tag)
             q == Append(queue["host"], f)
  <2>1. f \in Frames /\ f.type = "res" /\ f.call = c
    BY MakeFrame
  <2>2. c \in ChildCalls /\ runs[c] = 1
    <3>1. c \in handlers["host"]
      BY DEF HostRespond
    <3> QED
      BY <1>1, <3>1 DEF LinkInv, FramesInv, RunsInv
  <2>3. /\ queue["host"] \in Seq(Frames) /\ OneRequestEach(queue["host"])
        /\ queue \in [Ends -> Seq(Frames)]
        /\ handlers["host"] \cup Responded(queue["host"]) \cup Responded(wire["host"])
             \subseteq ChildCalls
    BY <1>1 DEF TypeOK, LinkInv, FramesInv
  <2>4. queue' = [queue EXCEPT !["host"] = q]
    BY <1>3
  <2> HIDE DEF f
  <2>5. /\ q \in Seq(Frames) /\ OneRequestEach(q)
        /\ Requested(q) = Requested(queue["host"])
        /\ Responded(q) = Responded(queue["host"]) \cup {c}
    BY <2>1, <2>3, AppendFrame
  <2> HIDE DEF q
  <2>6. /\ queue' \in [Ends -> Seq(Frames)] /\ queue'["host"] = q
        /\ queue'["child"] = queue["child"]
        /\ \A e \in Ends : Requested(queue'[e]) = Requested(queue[e])
    BY <2>3, <2>4, <2>5
  <2>7. TypeOK'
    BY <1>1, <1>3, <2>6 DEF TypeOK
  <2>8. FramesInv'
    <3>1. /\ handlers'["host"] \subseteq handlers["host"]
          /\ handlers'["child"] = handlers["child"]
      BY <1>1, <1>3 DEF TypeOK
    <3>2. Responded(queue'["host"]) = Responded(queue["host"]) \cup {c}
      BY <2>5, <2>6
    <3>3. c \in CallsOf("child") /\ wire' = wire
      BY <1>3, <2>2
    <3>4. /\ OneRequestEach(queue'["host"])
          /\ handlers'["host"] \cup Responded(queue'["host"]) \cup Responded(wire'["host"])
               \subseteq CallsOf("child")
      BY <2>2, <2>3, <2>5, <2>6, <3>1, <3>2, <3>3
    <3>5. /\ OneRequestEach(queue'["child"])
          /\ handlers'["child"] \cup Responded(queue'["child"]) \cup Responded(wire'["child"])
               \subseteq CallsOf("host")
      BY <1>1, <2>6, <3>1, <3>3 DEF LinkInv, FramesInv
    <3>6. \A e \in Ends :
             /\ OneRequestEach(wire'[e])
             /\ Requested(queue'[e]) \cap Requested(wire'[e]) = {}
             /\ Requested(queue'[e]) \cup Requested(wire'[e]) \subseteq CallsOf(e)
      BY <1>1, <2>6, <3>3 DEF LinkInv, FramesInv
    <3>7. Peer("host") = "child" /\ Peer("child") = "host"
      BY DEF Peer
    <3> QED
      BY <3>4, <3>5, <3>6, <3>7 DEF FramesInv
  <2>9. QueuedInv' /\ WireInv'
    BY <1>1, <1>3, <2>6 DEF LinkInv, QueuedInv, WireInv, Sent
  <2>10. RunsInv'
    <3>1. \A e \in Ends : \A d \in Responded(queue'[e]) \cup Responded(wire[e]) : runs[d] = 1
      BY <1>1, <2>2, <2>5, <2>6 DEF LinkInv, RunsInv
    <3> QED
      BY <1>1, <1>3, <3>1 DEF TypeOK, LinkInv, RunsInv, Sent
  <2>11. PendingInv' /\ FutureInv' /\ StreamInv'
    BY <1>1, <1>3 DEF LinkInv, PendingInv, FutureInv, StreamInv
  <2> QED
    BY <2>7, <2>8, <2>9, <2>10, <2>11 DEF Inv, LinkInv
<1> QED
  BY <1>2, <1>3 DEF HostRespond

\* Starting a call's handler keeps the invariant.
LEMMA ReadRequestInv ==
  ASSUME Inv, NEW e \in Ends, ReadRequest(e) PROVE Inv'
<1> USE Constants
<1> DEFINE p == Peer(e)
           c == Head(wire[p]).call
<1>1. TypeOK /\ LinkInv /\ p \in Ends /\ Peer(p) = e
  BY DEF Inv, Peer
<1>2. CASE Close(e)
  BY <1>2, HostFinishInv, ChildEndInv DEF Close
<1>3. CASE ~Close(e)
  <2>1. /\ wire[p] # <<>> /\ Head(wire[p]).type = "req"
        /\ wire' = [wire EXCEPT ![p] = Tail(wire[p])]
        /\ handlers' = [handlers EXCEPT ![e] = @ \cup {c}]
        /\ runs' = [runs EXCEPT ![c] = @ + 1]
        /\ UNCHANGED <<ready, closed, greeted, queue, blocked, pending, issued,
                       cancelled, future, outcome>>
    BY <1>1, <1>3 DEF ReadRequest, Arrives, Consume, TypeOK
  <2>2. /\ wire[p] \in Seq(Frames) /\ OneRequestEach(wire[p])
        /\ wire \in [Ends -> Seq(Frames)]
    BY <1>1 DEF TypeOK, LinkInv, FramesInv
  <2>3. /\ Tail(wire[p]) \in Seq(Frames) /\ OneRequestEach(Tail(wire[p]))
        /\ Len(Tail(wire[p])) = Len(wire[p]) - 1 /\ Len(wire[p]) \in Nat
        /\ Requested(wire[p]) = Requested(Tail(wire[p])) \cup {c}
        /\ Responded(wire[p]) = Responded(Tail(wire[p]))
        /\ c \notin Requested(Tail(wire[p]))
    <3> DEFINE s == wire[p]
    <3> HIDE DEF s
    <3>1. s \in Seq(Frames) /\ s # <<>> /\ OneRequestEach(s) /\ Head(s).type = "req"
      BY <2>1, <2>2 DEF s
    <3>2. Len(s) \in Nat
      BY <3>1, LenProperties
    <3>3. /\ Tail(s) \in Seq(Frames) /\ OneRequestEach(Tail(s))
          /\ Len(Tail(s)) = Len(s) - 1
          /\ Requested(s) = Requested(Tail(s)) \cup {Head(s).call}
          /\ Responded(s) = Responded(Tail(s)) \cup {}
          /\ Head(s).call \notin Requested(Tail(s))
      BY <3>1, HeadTail
    <3> QED
      BY <3>2, <3>3 DEF s
  <2>4. /\ wire' \in [Ends -> Seq(Frames)] /\ wire'[p] = Tail(wire[p])
        /\ \A x \in Ends : x # p => wire'[x] = wire[x]
    BY <1>1, <2>1, <2>2, <2>3
  <2>5. /\ c \in CallsOf(p) /\ c \in Calls /\ runs[c] = 0 /\ Sent(c)
        /\ c \notin Requested(queue[p])
        /\ c \notin CallsOf(e)
    <3>1. c \in Requested(wire[p])
      BY <2>3
    <3>2. c \in CallsOf(p) /\ c \in Calls
      BY <1>1, <3>1 DEF LinkInv, FramesInv, Requested
    <3>3. c \notin CallsOf(e)
      BY <1>1, <3>2
    <3> QED
      BY <1>1, <3>1, <3>2, <3>3 DEF LinkInv, FramesInv, WireInv
  <2> HIDE DEF c
  <2>6. /\ \A x \in Ends : /\ Requested(wire'[x]) = Requested(wire[x]) \ {c}
                            /\ Responded(wire'[x]) = Responded(wire[x])
                            /\ OneRequestEach(wire'[x])
                            /\ c \notin Requested(queue[x])
    <3> SUFFICES ASSUME NEW x \in Ends
                 PROVE  /\ Requested(wire'[x]) = Requested(wire[x]) \ {c}
                        /\ Responded(wire'[x]) = Responded(wire[x])
                        /\ OneRequestEach(wire'[x])
                        /\ c \notin Requested(queue[x])
      OBVIOUS
    <3>1. CASE x = p
      BY <2>3, <2>4, <2>5, <3>1
    <3>2. CASE x # p
      <4>1. x = e
        BY <1>1, <3>2
      <4>2. c \notin Requested(queue[x]) \cup Requested(wire[x])
        BY <1>1, <2>5, <4>1 DEF LinkInv, FramesInv
      <4> QED
        BY <1>1, <2>4, <3>2, <4>2 DEF LinkInv, FramesInv
    <3> QED
      BY <3>1, <3>2
  <2>7. /\ \A d \in Calls : runs'[d] = IF d = c THEN 1 ELSE runs[d]
        /\ runs' \in [Calls -> Nat]
    BY <1>1, <2>1, <2>5 DEF TypeOK
  <2>8. TypeOK'
    BY <1>1, <2>1, <2>4, <2>5, <2>7 DEF TypeOK
  <2>9. FramesInv'
    <3> SUFFICES ASSUME NEW x \in Ends
                 PROVE  /\ OneRequestEach(queue'[x]) /\ OneRequestEach(wire'[x])
                        /\ Requested(queue'[x]) \cap Requested(wire'[x]) = {}
                        /\ Requested(queue'[x]) \cup Requested(wire'[x]) \subseteq CallsOf(x)
                        /\ handlers'[x] \cup Responded(queue'[x]) \cup Responded(wire'[x])
                             \subseteq CallsOf(Peer(x))
      BY DEF FramesInv
    <3>1. /\ OneRequestEach(queue[x])
          /\ Requested(queue[x]) \cap Requested(wire[x]) = {}
          /\ Requested(queue[x]) \cup Requested(wire[x]) \subseteq CallsOf(x)
          /\ handlers[x] \cup Responded(queue[x]) \cup Responded(wire[x])
               \subseteq CallsOf(Peer(x))
      BY <1>1 DEF LinkInv, FramesInv
    <3>2. handlers'[x] \subseteq handlers[x] \cup (IF x = e THEN {c} ELSE {})
      BY <1>1, <2>1 DEF TypeOK
    <3>3. /\ Requested(wire'[x]) = Requested(wire[x]) \ {c}
          /\ Responded(wire'[x]) = Responded(wire[x])
          /\ OneRequestEach(wire'[x]) /\ queue' = queue
      BY <2>1, <2>6
    <3>4. x = e => c \in CallsOf(Peer(x))
      BY <2>5
    <3> QED
      BY <3>1, <3>2, <3>3, <3>4
  <2>10. QueuedInv'
    <3> SUFFICES ASSUME NEW x \in Ends, NEW d \in Requested(queue[x])
                 PROVE  runs'[d] = 0
      BY <1>1, <2>1 DEF LinkInv, QueuedInv
    <3>1. d \in Calls /\ d # c /\ runs[d] = 0
      BY <1>1, <2>6 DEF LinkInv, QueuedInv, Requested
    <3> QED
      BY <2>7, <3>1
  <2>11. WireInv'
    <3> SUFFICES ASSUME NEW x \in Ends, NEW d \in Requested(wire'[x])
                 PROVE  runs'[d] = 0 /\ Sent(d)
      BY <2>1 DEF WireInv, Sent
    <3>1. d \in Requested(wire[x]) /\ d # c
      BY <2>6
    <3>2. d \in Calls /\ runs[d] = 0 /\ Sent(d)
      BY <1>1, <3>1 DEF LinkInv, WireInv, Requested
    <3> QED
      BY <2>7, <3>1, <3>2
  <2>12. RunsInv'
    <3>1. \A d \in Calls : runs[d] = 1 => runs'[d] = 1
      BY <2>7
    <3>2. \A d \in Calls : runs'[d] \in {0, 1} /\ (runs'[d] = 1 => Sent(d)')
      <4> SUFFICES ASSUME NEW d \in Calls
                   PROVE  runs'[d] \in {0, 1} /\ (runs'[d] = 1 => Sent(d))
        BY <2>1 DEF Sent
      <4> QED
        BY <1>1, <2>5, <2>7 DEF LinkInv, RunsInv
    <3>3. \A d \in Calls : outcome'[d] \in {"ok", "error"} => runs'[d] = 1
      BY <1>1, <2>1, <3>1 DEF LinkInv, RunsInv
    <3>4. \A x \in Ends : \A d \in handlers'[x] : runs'[d] = 1
      <4> SUFFICES ASSUME NEW x \in Ends, NEW d \in handlers'[x] PROVE runs'[d] = 1
        OBVIOUS
      <4>1. d = c \/ d \in handlers[x]
        BY <1>1, <2>1 DEF TypeOK
      <4>2. d \in Calls
        BY <2>8 DEF TypeOK
      <4> QED
        BY <1>1, <2>7, <4>1, <4>2 DEF LinkInv, RunsInv
    <3>5. \A x \in Ends : \A d \in Responded(queue'[x]) \cup Responded(wire'[x]) : runs'[d] = 1
      <4> SUFFICES ASSUME NEW x \in Ends, NEW d \in Responded(queue[x]) \cup Responded(wire[x])
                   PROVE  runs'[d] = 1
        BY <2>1, <2>6
      <4>1. d \in Calls /\ runs[d] = 1
        BY <1>1 DEF LinkInv, RunsInv, Responded
      <4> QED
        BY <2>7, <4>1
    <3> QED
      BY <3>2, <3>3, <3>4, <3>5 DEF RunsInv
  <2>13. PendingInv'
    BY <1>1, <2>1 DEF LinkInv, PendingInv
  <2>14. FutureInv'
    <3> SUFFICES ASSUME NEW d \in HostCalls
                 PROVE  /\ future[d] \in {"ok", "error"} => runs'[d] = 1
                        /\ future[d] = "not_sent" =>
                             /\ runs'[d] = 0 /\ d \notin issued
                             /\ d \notin Requested(wire'["host"])
      BY <2>1 DEF FutureInv
    <3>1. d = c => d \in Requested(wire["host"])
      <4>1. c \in Requested(wire[p])
        BY <2>3
      <4>2. c \in HostCalls => p = "host"
        BY <1>1, <2>5
      <4> QED
        BY <4>1, <4>2
    <3> QED
      BY <1>1, <2>6, <2>7, <3>1 DEF LinkInv, FutureInv
  <2>15. StreamInv'
    <3>1. Len(wire'["child"]) <= Len(wire["child"]) /\ Len(wire["child"]) \in Nat
           /\ Len(wire'["child"]) \in Nat
      BY <1>1, <2>2, <2>3, <2>4, LenProperties
    <3> QED
      BY <1>1, <2>1, <3>1 DEF LinkInv, StreamInv
  <2> QED
    BY <2>8, <2>9, <2>10, <2>11, <2>12, <2>13, <2>14, <2>15 DEF Inv, LinkInv
<1> QED
  BY <1>2, <1>3

-----------------------------------------------------------------------------
(* The theorems. *)

\* Every step keeps the invariant.
LEMMA NextInv == Inv /\ [Next]_vars => Inv'
<1> SUFFICES ASSUME Inv, [Next]_vars PROVE Inv'
  OBVIOUS
<1>1. CASE HostAck \/ HostWrite \/ ChildDrain
  BY <1>1, HostAckInv, HostWriteInv, ChildDrainInv
<1>2. ASSUME NEW e \in Ends, Read(e) \/ Stop(e) \/ PeerGone(e) \/ HandshakeFails(e)
      PROVE  Inv'
  <2>1. CASE Read(e)
    BY <2>1, ReadRequestInv, HostReadHelloInv, HostReadResponseInv, ChildReadAckInv,
       ChildReadResponseInv DEF Read
  <2>2. CASE Close(e)
    BY <2>2, HostFinishInv, ChildEndInv DEF Close
  <2> QED
    BY <1>2, <2>1, <2>2 DEF Stop, PeerGone, HandshakeFails
<1>3. ASSUME NEW e \in Ends, NEW c \in Calls, RefuseCall(e, c) PROVE Inv'
  BY <1>3, RefuseCallInv
<1>4. ASSUME NEW c \in Calls, HostRequest(c) \/ HostRequestOversized(c) PROVE Inv'
  BY <1>4, HostRequestInv, HostRequestOversizedInv
<1>5. ASSUME NEW c \in Calls, ChildRequest(c) \/ ChildRequestOversized(c) PROVE Inv'
  BY <1>5, ChildRequestInv
<1>6. ASSUME NEW c \in Calls, HostCancel(c) \/ HostResume(c) \/ ChildCancel(c) PROVE Inv'
  BY <1>6, HostCancelInv, HostResumeInv, ChildCancelInv
<1>7. ASSUME NEW c \in Calls, Respond(c) \/ ChildHandlerEndsLate(c) PROVE Inv'
  BY <1>7, HostRespondInv, ChildRespondInv, ChildHandlerEndsLateInv DEF Respond
<1>8. CASE UNCHANGED vars
  BY <1>8 DEF vars, Inv, TypeOK, LinkInv, FramesInv, QueuedInv, WireInv, RunsInv,
              PendingInv, FutureInv, StreamInv, Sent
<1> QED
  BY <1>1, <1>2, <1>3, <1>4, <1>5, <1>6, <1>7, <1>8 DEF Next

\* Every variable of the link keeps its type.
THEOREM TypeCorrect == Spec => []TypeOK
<1>1. Inv => TypeOK
  BY DEF Inv
<1> QED
  BY InitInv, NextInv, <1>1, PTL DEF Spec

\* LinkInv holds in every reachable state.
THEOREM InvCorrect == Spec => []LinkInv
<1>1. Inv => LinkInv
  BY DEF Inv
<1> QED
  BY InitInv, NextInv, <1>1, PTL DEF Spec

\* A call reported `not_sent' has not run and no frame can still start it.
THEOREM NotSentCorrect == Spec => []NotSentNeverRuns
<1>1. Inv => NotSentNeverRuns
  <2> SUFFICES ASSUME Inv, NEW c \in Calls, outcome[c] = "not_sent"
               PROVE  /\ runs[c] = 0
                      /\ \A e \in Ends : c \notin Requested(queue[e]) \cup Requested(wire[e])
    BY DEF NotSentNeverRuns
  <2>1. ~Sent(c)
    BY DEF Sent
  <2>2. runs[c] = 0
    BY <2>1 DEF Inv, LinkInv, RunsInv
  <2>3. \A e \in Ends : c \notin Requested(wire[e])
    BY <2>1 DEF Inv, LinkInv, WireInv
  <2>4. \A e \in Ends : c \notin Requested(queue[e])
    BY DEF Inv, LinkInv, QueuedInv
  <2> QED
    BY <2>2, <2>3, <2>4
<1> QED
  BY InitInv, NextInv, <1>1, PTL DEF Spec
-----------------------------------------------------------------------------
(* The link implements its contract. *)

\* What an action other than a submission or a start does to the callers.
Reports ==
  /\ runs' = runs
  /\ \A c \in Calls : \/ outcome'[c] = outcome[c]
                      \/ outcome[c] \in {"idle", "waiting"} /\ outcome'[c] \in Verdicts

\* Such an action settles calls as the contract allows: the invariant, in the
\* state after it, says which calls ran.
LEMMA ReportsSettles ==
  ASSUME Inv, Inv', Reports PROVE Contract!Settle
<1>1. outcome' \in [Calls -> Verdicts \cup {"idle", "waiting"}]
  BY DEF Inv, TypeOK
<1>2. runs' = runs
  BY DEF Reports
<1>3. ASSUME NEW c \in Calls PROVE Contract!Settles(c)
  <2>1. outcome'[c] \in {"ok", "error"} => runs[c] = 1
    BY <1>2 DEF Inv, LinkInv, RunsInv
  <2>2. outcome'[c] = "not_sent" => runs[c] = 0
    BY <1>2 DEF Inv, LinkInv, RunsInv, Sent
  <2> QED
    BY <2>1, <2>2 DEF Reports, Contract!Settles, Verdicts
<1> QED
  BY <1>1, <1>2, <1>3 DEF Contract!Settle, Verdicts

\* Ending the child's side reports only to calls that were pending.
LEMMA ChildEndReports ==
  ASSUME Inv, NEW done, ChildEnd(done) PROVE Reports
<1>1. \A c \in pending : outcome[c] = "waiting"
  BY DEF Inv, LinkInv, PendingInv
<1>2. \A c \in Calls : Verdict(c) \in Verdicts
  BY DEF Verdict, Verdicts
<1>3. /\ runs' = runs
      /\ outcome' = [c \in Calls |->
           IF c \in pending \cap ChildCalls THEN Verdict(c) ELSE outcome[c]]
  BY DEF ChildEnd
<1> QED
  BY <1>1, <1>2, <1>3 DEF Reports

\* Reading a request starts its call, unless it closes the link.
LEMMA ReadRequestStarts ==
  ASSUME Inv, NEW e \in Ends, ReadRequest(e), ~Close(e)
  PROVE  [Contract!Next]_<<outcome, runs>>
<1> USE Constants
<1> DEFINE s == wire[Peer(e)]
<1>1. /\ s \in Seq(Frames) /\ s # <<>> /\ Head(s).type = "req"
      /\ runs' = [runs EXCEPT ![Head(s).call] = @ + 1]
      /\ outcome' = outcome
  BY DEF Inv, TypeOK, ReadRequest, Arrives
<1>2. \A c \in Requested(s) : runs[c] = 0 /\ Sent(c) /\ c \in Calls
  BY DEF Inv, LinkInv, WireInv, Requested
<1> HIDE DEF s
<1>3. Head(s).call \in Requested(s)
  BY <1>1, HeadTail
<1>4. Contract!Start(Head(s).call)
  <2> DEFINE d == Head(s).call
  <2>1. runs[d] = 0 /\ outcome[d] \notin {"idle", "not_sent"} /\ d \in Calls
    BY <1>2, <1>3 DEF Sent
  <2>2. runs' = [runs EXCEPT ![d] = @ + 1] /\ UNCHANGED outcome
    BY <1>1
  <2> HIDE DEF d
  <2>3. runs' = [runs EXCEPT ![d] = 1]
    BY <2>1, <2>2
  <2>4. Contract!Start(d)
    BY <2>1, <2>2, <2>3 DEF Contract!Start
  <2> QED
    BY <2>4 DEF d
<1> QED
  BY <1>2, <1>3, <1>4 DEF Contract!Next

\* Closing an end reports only to calls that were still waiting.
LEMMA CloseReports ==
  ASSUME Inv, NEW e \in Ends, Close(e) PROVE Reports
<1>1. CASE HostFinish
  BY <1>1 DEF HostFinish, Reports
<1>2. ASSUME ChildEnd({}) PROVE Reports
  BY <1>2, ChildEndReports
<1> QED
  BY <1>1, <1>2 DEF Close

\* Initially no call was made.
LEMMA ContractInit == Init => Contract!Init
BY DEF Init, Contract!Init

\* Every step of the link is a step of the contract, or changes nothing it sees.
LEMMA ContractStep ==
  ASSUME Inv, Inv', [Next]_vars PROVE [Contract!Next]_<<outcome, runs>>
<1>1. TypeOK /\ LinkInv
  BY DEF Inv
<1>2. CASE Reports
  BY <1>2, ReportsSettles DEF Contract!Next
<1>3. CASE outcome' = outcome /\ runs' = runs
  BY <1>3
<1>4. CASE HostAck \/ HostWrite \/ ChildDrain
  BY <1>3, <1>4 DEF HostAck, HostWrite, ChildDrain
<1>5. ASSUME NEW e \in Ends, Close(e) PROVE [Contract!Next]_<<outcome, runs>>
  BY <1>2, <1>5, CloseReports
<1>6. ASSUME NEW e \in Ends, ReadRequest(e) PROVE [Contract!Next]_<<outcome, runs>>
  BY <1>5, <1>6, ReadRequestStarts
<1>7. CASE HostReadHello \/ HostReadResponse \/ ChildReadAck
  BY <1>3, <1>7 DEF HostReadHello, HostReadResponse, ChildReadAck
<1>8. CASE ChildReadResponse
  <2> DEFINE f == Head(wire["host"])
  <2>1. f \in Frames /\ f.type = "res"
    <3> DEFINE s == wire["host"]
    <3>1. s \in Seq(Frames) /\ s # <<>> /\ Head(s).type = "res"
      BY <1>1, <1>8, Constants DEF TypeOK, ChildReadResponse, Arrives
    <3> HIDE DEF s
    <3>2. Head(s) \in Frames
      BY <3>1, HeadTail
    <3> QED
      BY <3>1, <3>2 DEF s
  <2>2. f.tag \in Verdicts
    BY <2>1 DEF Frames, Hello, HelloAck, Request, Response, Verdicts
  <2>3. runs' = runs
        /\ outcome' = [c \in Calls |->
             IF c = f.call /\ c \in pending THEN f.tag ELSE outcome[c]]
    BY <1>8 DEF ChildReadResponse
  <2> HIDE DEF f
  <2>4. Reports
    BY <1>1, <2>2, <2>3 DEF LinkInv, PendingInv, Reports
  <2> QED
    BY <1>2, <2>4
<1>9. ASSUME NEW e \in Ends, NEW c \in Calls, RefuseCall(e, c)
      PROVE  [Contract!Next]_<<outcome, runs>>
  BY <1>1, <1>2, <1>9 DEF RefuseCall, Reports, TypeOK, Verdicts
<1>10. ASSUME NEW c \in Calls, HostRequest(c) \/ ChildRequest(c)
       PROVE  [Contract!Next]_<<outcome, runs>>
  <2>1. Contract!Submit(c)
    BY <1>10 DEF HostRequest, ChildRequest, Callable, Contract!Submit
  <2> QED
    BY <2>1 DEF Contract!Next
<1>11. ASSUME NEW c \in Calls, HostRequestOversized(c) \/ ChildRequestOversized(c)
       PROVE  [Contract!Next]_<<outcome, runs>>
  BY <1>1, <1>2, <1>11 DEF HostRequestOversized, ChildRequestOversized, Callable,
     Reports, TypeOK, Verdicts
<1>12. ASSUME NEW c \in Calls, HostCancel(c) \/ Respond(c) \/ ChildHandlerEndsLate(c)
       PROVE  [Contract!Next]_<<outcome, runs>>
  <2>1. CASE HostCancel(c) \/ ChildHandlerEndsLate(c)
    BY <1>3, <2>1 DEF HostCancel, ChildHandlerEndsLate
  <2>2. ASSUME NEW tag \in {"ok", "error", "truncated"},
               HostRespond(c, tag) \/ ChildRespond(c, tag)
        PROVE  [Contract!Next]_<<outcome, runs>>
    <3>1. CASE HostFinish
      BY <1>3, <3>1 DEF HostFinish
    <3>2. CASE ChildEnd({c})
      BY <1>2, <3>2, ChildEndReports
    <3> QED
      BY <1>3, <2>2, <3>1, <3>2 DEF HostRespond, ChildRespond
  <2> QED
    BY <1>12, <2>1, <2>2 DEF Respond
<1>13. ASSUME NEW c \in Calls, HostResume(c) \/ ChildCancel(c)
       PROVE  [Contract!Next]_<<outcome, runs>>
  <2>1. Verdict(c) \in Verdicts
    BY DEF Verdict, Verdicts
  <2>2. CASE HostResume(c)
    <3>1. c \in cancelled \/ future[c] \in Verdicts
      BY <1>1, <2>2 DEF HostResume, TypeOK
    <3>2. Reports
      BY <1>1, <2>1, <2>2, <3>1 DEF HostResume, Reports, TypeOK
    <3> QED
      BY <1>2, <3>2
  <2>3. CASE ChildCancel(c)
    BY <1>1, <1>2, <2>1, <2>3 DEF ChildCancel, Reports, TypeOK, LinkInv, PendingInv
  <2> QED
    BY <1>13, <2>2, <2>3
<1>14. CASE UNCHANGED vars
  BY <1>3, <1>14 DEF vars
<1>15. ASSUME NEW e \in Ends, Read(e) \/ Stop(e) \/ PeerGone(e) \/ HandshakeFails(e)
       PROVE  [Contract!Next]_<<outcome, runs>>
  BY <1>5, <1>6, <1>7, <1>8, <1>15 DEF Read, Stop, PeerGone, HandshakeFails
<1> QED
  BY <1>4, <1>9, <1>10, <1>11, <1>12, <1>13, <1>14, <1>15 DEF Next

\* The link implements CallContract: for any calls and limits, whatever is
\* cancelled, timed out or closed, callers only see what the contract allows.
THEOREM ContractCorrect == Spec => KeepsContract
<1>1. Inv /\ Inv' /\ [Next]_vars => [Contract!Next]_<<outcome, runs>>
  BY ContractStep
<1> QED
  BY InitInv, NextInv, ContractInit, <1>1, PTL DEF Spec, KeepsContract, Contract!Spec
-----------------------------------------------------------------------------
(* No answer is lost while both ends are open, and a closed end is quiet. *)

\* What end e holds of the answers to its peer's calls: handlers that run, and
\* responses queued or on the wire.
Held(e) == handlers[e] \cup Responded(queue[e]) \cup Responded(wire[e])
\* The task of a host call has something to resume with.
Told(c) == c \in cancelled \/ future[c] # "waiting"

HostPending == \A c \in HostCalls : outcome[c] = "waiting" => c \in pending \/ Told(c)
AnswerInv ==
  ~closed["host"] /\ ~closed["child"] =>
    /\ \A c \in HostCalls : outcome[c] = "waiting" /\ runs[c] # 0 => c \in Held("child") \/ Told(c)
    /\ \A c \in ChildCalls : outcome[c] = "waiting" /\ runs[c] # 0 => c \in Held("host")
QuietInv ==
  /\ closed["host"] => handlers["host"] = {}
  /\ \A e \in Ends : closed[e] => queue[e] = <<>> /\ pending \cap CallsOf(e) = {}
HoldInv == HostPending /\ AnswerInv /\ QuietInv

\* What ClosedIsQuiet says of a step.
Quietly ==
  \A e \in Ends : closed[e] =>
    /\ closed'[e]
    /\ queue'[e] = <<>> /\ Len(wire'[e]) <= Len(wire[e])
    /\ handlers'[e] \subseteq handlers[e]
    /\ pending' \cap CallsOf(e) = {}

\* Taking a request out of a queue leaves its responses.
LEMMA WithoutKeeps ==
  ASSUME NEW s \in Seq(Frames), NEW c \in Calls
  PROVE  /\ Responded(s) \subseteq Responded(WithoutRequest(s, c))
         /\ s = <<>> => WithoutRequest(s, c) = <<>>
<1>1. CASE c \notin Requested(s)
  BY <1>1 DEF WithoutRequest
<1>2. CASE c \in Requested(s)
  <2> DEFINE k == CHOOSE i \in DOMAIN s : IsRequest(s[i], c)
             w == DropAt(s, k)
  <2>1. k \in DOMAIN s /\ IsRequest(s[k], c)
    <3>1. \E i \in DOMAIN s : IsRequest(s[i], c)
      BY <1>2 DEF Requested, SeqRange
    <3> QED
      BY <3>1
  <2> HIDE DEF k
  <2>2. DOMAIN s = 1..Len(s) /\ Len(s) \in Nat /\ k \in 1..Len(s)
    BY <2>1, LenProperties
  <2>3. /\ DOMAIN w = 1..(Len(s) - 1)
        /\ \A j \in 1..(Len(s) - 1) : w[j] = IF j < k THEN s[j] ELSE s[j + 1]
    BY DEF DropAt
  <2>4. WithoutRequest(s, c) = w
    BY <1>2 DEF WithoutRequest, k
  <2> HIDE DEF w
  <2>5. ASSUME NEW i \in 1..Len(s), i # k PROVE s[i] \in SeqRange(w)
    <3>1. CASE i < k
      <4>1. i \in 1..(Len(s) - 1) /\ w[i] = s[i]
        BY <2>2, <2>3, <3>1
      <4> QED
        BY <2>3, <4>1 DEF SeqRange
    <3>2. CASE i > k
      <4> DEFINE j == i - 1
      <4>1. j \in 1..(Len(s) - 1) /\ ~(j < k) /\ i = j + 1
        BY <2>2, <3>2
      <4> HIDE DEF j
      <4>2. w[j] = s[i]
        BY <2>3, <4>1
      <4> QED
        BY <2>3, <4>1, <4>2 DEF SeqRange
    <3> QED
      BY <2>2, <2>5, <3>1, <3>2
  <2>6. s[k].type = "req"
    BY <2>1 DEF IsRequest
  <2>7. Responded(s) \subseteq Responded(w)
    BY <2>2, <2>5, <2>6 DEF Responded, SeqRange
  <2>8. s # <<>>
    BY <2>2
  <2> QED
    BY <2>4, <2>7, <2>8
<1> QED
  BY <1>1, <1>2

\* A step that starts and ends no handler, resolves no future and loses no response.
LEMMA CalmStep ==
  ASSUME Inv, HoldInv, UNCHANGED <<closed, handlers, runs, future>>,
         cancelled \subseteq cancelled',
         \A e \in Ends : Responded(queue[e]) \cup Responded(wire[e])
                           \subseteq Responded(queue'[e]) \cup Responded(wire'[e]),
         \A e \in Ends : closed[e] =>
           queue'[e] = <<>> /\ Len(wire'[e]) <= Len(wire[e]) /\ pending' \cap CallsOf(e) = {},
         \A c \in Calls : outcome'[c] = "waiting" =>
           \/ outcome[c] = "waiting" /\ (c \in pending => c \in pending')
           \/ runs[c] = 0 /\ c \in pending'
  PROVE  HoldInv' /\ Quietly
<1> USE Constants
<1>1. HostPending'
  BY DEF HoldInv, HostPending, Told
<1>2. \A e \in Ends : Held(e) \subseteq Held(e)'
  BY DEF Held
<1>3. AnswerInv'
  BY <1>2 DEF HoldInv, AnswerInv, Told
<1>4. QuietInv' /\ Quietly
  BY DEF HoldInv, QuietInv, Quietly
<1> QED
  BY <1>1, <1>3, <1>4 DEF HoldInv

LEMMA NotReady == ASSUME Inv, NEW e \in Ends, ready[e] PROVE ~closed[e]
BY DEF Inv, LinkInv, StreamInv

\* The writers: what leaves a queue is on the wire.
LEMMA HostAckHolds == ASSUME Inv, HoldInv, HostAck PROVE HoldInv' /\ Quietly
<1> USE Constants
<1>1. /\ ~closed["host"] /\ queue' = [queue EXCEPT !["host"] = Append(@, HelloAck)]
      /\ UNCHANGED <<closed, wire, handlers, pending, cancelled, future, outcome, runs>>
  BY DEF HostAck
<1>2. queue \in [Ends -> Seq(Frames)] /\ queue["host"] \in Seq(Frames)
  BY DEF Inv, TypeOK
<1>3. Responded(Append(queue["host"], HelloAck)) = Responded(queue["host"])
  BY <1>2, MakeAck, AppendFrame
<1>4. /\ queue'["host"] = Append(queue["host"], HelloAck) /\ queue'["child"] = queue["child"]
  BY <1>1, <1>2
<1>5. \A e \in Ends : Len(wire[e]) \in Nat
  BY LenProperties DEF Inv, TypeOK
<1> QED
  BY <1>1, <1>3, <1>4, <1>5, CalmStep DEF HoldInv, QuietInv

LEMMA HostWriteHolds == ASSUME Inv, HoldInv, HostWrite PROVE HoldInv' /\ Quietly
<1> USE Constants
<1> DEFINE q == queue["host"]
           w == wire["host"]
           f == Head(q)
<1>1. /\ ~closed["host"] /\ q # <<>> /\ queue' = [queue EXCEPT !["host"] = Tail(@)]
      /\ \/ f.type = "req" /\ wire' = wire
         \/ wire' = [wire EXCEPT !["host"] = Append(@, f)]
      /\ UNCHANGED <<closed, handlers, pending, cancelled, future, outcome, runs>>
  BY DEF HostWrite
<1>2. /\ queue \in [Ends -> Seq(Frames)] /\ wire \in [Ends -> Seq(Frames)]
      /\ q \in Seq(Frames) /\ w \in Seq(Frames)
      /\ \A e \in Ends : Len(wire[e]) \in Nat
  BY LenProperties DEF Inv, TypeOK
<1>3. /\ queue'["host"] = Tail(q) /\ queue'["child"] = queue["child"]
      /\ wire'["child"] = wire["child"] /\ wire'["host"] \in {w, Append(w, f)}
      /\ f.type = "req" \/ wire'["host"] = Append(w, f)
  BY <1>1, <1>2
<1> HIDE DEF q, w
<1>4. /\ f \in Frames
      /\ Responded(q) = Responded(Tail(q)) \cup (IF f.type = "res" THEN {f.call} ELSE {})
  BY <1>1, <1>2, HeadTail
<1>5. Responded(Append(w, f)) = Responded(w) \cup (IF f.type = "res" THEN {f.call} ELSE {})
  BY <1>2, <1>4, AppendFrame
<1>6. Responded(q) \cup Responded(w) \subseteq Responded(Tail(q)) \cup Responded(wire'["host"])
  BY <1>3, <1>4, <1>5
<1>7. \A e \in Ends : Responded(queue[e]) \cup Responded(wire[e])
                        \subseteq Responded(queue'[e]) \cup Responded(wire'[e])
  BY <1>3, <1>6 DEF q, w
<1>8. \A e \in Ends : closed[e] => queue'[e] = <<>> /\ Len(wire'[e]) <= Len(wire[e])
                                   /\ pending' \cap CallsOf(e) = {}
  <2>1. closed["child"] => queue["child"] = <<>> /\ pending \cap CallsOf("child") = {}
    BY DEF HoldInv, QuietInv, Ends
  <2>2. ~closed["host"] /\ pending' = pending
    BY <1>1
  <2>3. /\ queue'["child"] = queue["child"] /\ wire'["child"] = wire["child"]
        /\ Len(wire["child"]) \in Nat
    BY <1>2, <1>3 DEF Ends
  <2> QED BY <2>1, <2>2, <2>3 DEF Ends
<1> QED
  BY <1>1, <1>7, <1>8, CalmStep

\* What the child's pump does to the responses.
LEMMA PumpHolds ==
  ASSUME Inv, HoldInv, ~closed["child"], NEW q \in Seq(Frames), NEW entries,
         ChildPump(q, ~blocked, entries), OneRequestEach(q),
         Requested(q) \cap Requested(wire["child"]) = {},
         Responded(queue["child"]) \subseteq Responded(q)
  PROVE  /\ Responded(q) \cup Responded(wire["child"])
              \subseteq Responded(queue'["child"]) \cup Responded(wire'["child"])
         /\ \A e \in Ends : Responded(queue[e]) \cup Responded(wire[e])
                           \subseteq Responded(queue'[e]) \cup Responded(wire'[e])
         /\ \A e \in Ends : closed[e] => queue'[e] = <<>> /\ Len(wire'[e]) <= Len(wire[e])
<1> USE Constants
<1>1. /\ (~blocked) \in BOOLEAN /\ (~blocked => Len(wire["child"]) < HighWater)
      /\ OneRequestEach(wire["child"]) /\ TypeOK
      /\ \A e \in Ends : Len(wire[e]) \in Nat
  BY LenProperties DEF Inv, TypeOK, LinkInv, StreamInv, FramesInv
<1>2. /\ queue'["host"] = queue["host"] /\ wire'["host"] = wire["host"]
      /\ Responded(queue'["child"]) \cup Responded(wire'["child"]) =
           Responded(q) \cup Responded(wire["child"])
  BY <1>1, PumpFacts
<1> QED
  BY <1>1, <1>2 DEF HoldInv, QuietInv

LEMMA ChildDrainHolds == ASSUME Inv, HoldInv, ChildDrain PROVE HoldInv' /\ Quietly
<1> USE Constants
<1> DEFINE q == queue["child"]
<1>1. /\ ~closed["child"] /\ blocked /\ Len(wire["child"]) < HighWater
      /\ ChildPump(q, TRUE, pending)
      /\ UNCHANGED <<closed, handlers, pending, cancelled, future, outcome, runs>>
  BY DEF ChildDrain
<1>2. /\ q \in Seq(Frames) /\ OneRequestEach(q) /\ OneRequestEach(wire["child"]) /\ TypeOK
      /\ Requested(q) \cap Requested(wire["child"]) = {}
      /\ \A e \in Ends : Len(wire[e]) \in Nat
  BY LenProperties DEF Inv, TypeOK, LinkInv, FramesInv
<1> HIDE DEF q
<1>3. /\ queue'["host"] = queue["host"] /\ wire'["host"] = wire["host"]
      /\ Responded(queue'["child"]) \cup Responded(wire'["child"]) =
           Responded(q) \cup Responded(wire["child"])
  BY <1>1, <1>2, PumpFacts
<1>4. \A e \in Ends : Responded(queue[e]) \cup Responded(wire[e])
                        \subseteq Responded(queue'[e]) \cup Responded(wire'[e])
  BY <1>3 DEF q
<1>5. \A e \in Ends : closed[e] => queue'[e] = <<>> /\ Len(wire'[e]) <= Len(wire[e])
                                   /\ pending' \cap CallsOf(e) = {}
  BY <1>1, <1>2, <1>3 DEF HoldInv, QuietInv
<1> QED
  BY <1>1, <1>4, <1>5, CalmStep

\* The callers.  A call that is submitted has not run.
LEMMA Unheard ==
  ASSUME Inv, NEW c \in Calls, outcome[c] = "idle"
  PROVE  runs[c] = 0 /\ \A e \in Ends : c \notin Requested(queue[e]) \cup Requested(wire[e])
BY DEF Inv, TypeOK, LinkInv, QueuedInv, WireInv, RunsInv, Sent

LEMMA SubmitHolds ==
  ASSUME Inv, HoldInv, NEW c \in Calls, HostRequest(c) PROVE HoldInv' /\ Quietly
<1> USE Constants
<1> DEFINE f == Request(c, "full")
<1>1. /\ c \in HostCalls /\ outcome[c] = "idle" /\ ~closed["host"]
      /\ outcome' = [outcome EXCEPT ![c] = "waiting"] /\ pending' = pending \cup {c}
      /\ queue' = [queue EXCEPT !["host"] = Append(@, f)]
      /\ UNCHANGED <<closed, wire, handlers, cancelled, future, runs>>
  BY NotReady DEF HostRequest, Callable
<1>2. queue \in [Ends -> Seq(Frames)] /\ outcome \in [Calls -> Verdicts \cup {"idle", "waiting"}]
      /\ queue["host"] \in Seq(Frames)
      /\ \A e \in Ends : Len(wire[e]) \in Nat
  BY LenProperties DEF Inv, TypeOK
<1>3. f \in Frames
  BY MakeFrame
<1> HIDE DEF f
<1>4. Responded(queue["host"]) \subseteq Responded(Append(queue["host"], f))
  BY <1>2, <1>3, AppendFrame
<1>5. queue'["host"] = Append(queue["host"], f) /\ queue'["child"] = queue["child"]
  BY <1>1, <1>2
<1>6. \A e \in Ends : closed[e] => queue'[e] = <<>> /\ Len(wire'[e]) <= Len(wire[e])
                                   /\ pending' \cap CallsOf(e) = {}
  BY <1>1, <1>2, <1>5 DEF HoldInv, QuietInv
<1>7. \A d \in Calls : outcome'[d] = "waiting" =>
        \/ outcome[d] = "waiting" /\ (d \in pending => d \in pending')
        \/ runs[d] = 0 /\ d \in pending'
  BY <1>1, <1>2, Unheard
<1> QED
  BY <1>1, <1>4, <1>5, <1>6, <1>7, CalmStep

LEMMA ChildSubmitHolds ==
  ASSUME Inv, HoldInv, NEW c \in Calls, ChildRequest(c) \/ ChildRequestOversized(c)
  PROVE  HoldInv' /\ Quietly
<1> USE Constants
<1>1. /\ c \in ChildCalls /\ outcome[c] = "idle" /\ ~closed["child"]
      /\ UNCHANGED <<closed, handlers, cancelled, future, runs>>
      /\ \/ outcome' = [outcome EXCEPT ![c] = "waiting"] /\ pending' = pending \cup {c}
         \/ outcome' = [outcome EXCEPT ![c] = "truncated"] /\ pending' = pending
  BY NotReady DEF ChildRequest, ChildRequestOversized, Callable
<1>2. PICK tag \in {"full", "cut"}, entries \in {pending, pending'} :
        ChildPump(Append(queue["child"], Request(c, tag)), ~blocked, entries)
  BY DEF ChildRequest, ChildRequestOversized
<1> DEFINE f == Request(c, tag)
           q == Append(queue["child"], f)
<1>3. f \in Frames /\ f.type = "req" /\ f.call = c
  BY MakeFrame
<1>4. ChildPump(q, ~blocked, entries)
  BY <1>2
<1> HIDE DEF f
<1>5. /\ queue["child"] \in Seq(Frames) /\ OneRequestEach(queue["child"])
      /\ Requested(queue["child"]) \cap Requested(wire["child"]) = {}
      /\ outcome \in [Calls -> Verdicts \cup {"idle", "waiting"}]
  BY DEF Inv, TypeOK, LinkInv, FramesInv
<1>6. c \notin Requested(queue["child"]) \cup Requested(wire["child"]) /\ runs[c] = 0
  BY <1>1, Unheard
<1>7. /\ q \in Seq(Frames) /\ OneRequestEach(q)
      /\ Requested(q) = Requested(queue["child"]) \cup {c}
      /\ Responded(queue["child"]) \subseteq Responded(q)
  BY <1>3, <1>5, <1>6, AppendFrame
<1> HIDE DEF q
<1>8. /\ \A e \in Ends : Responded(queue[e]) \cup Responded(wire[e])
                           \subseteq Responded(queue'[e]) \cup Responded(wire'[e])
      /\ \A e \in Ends : closed[e] => queue'[e] = <<>> /\ Len(wire'[e]) <= Len(wire[e])
  <2>1. Requested(q) \cap Requested(wire["child"]) = {}
    BY <1>5, <1>6, <1>7
  <2> QED
    BY <1>1, <1>4, <1>7, <2>1, PumpHolds
<1>9. \A e \in Ends : closed[e] => pending' \cap CallsOf(e) = {}
  BY <1>1 DEF HoldInv, QuietInv
<1>10. \A d \in Calls : outcome'[d] = "waiting" =>
        \/ outcome[d] = "waiting" /\ (d \in pending => d \in pending')
        \/ runs[d] = 0 /\ d \in pending'
  BY <1>1, <1>5, <1>6
<1> QED
  BY <1>1, <1>8, <1>9, <1>10, CalmStep

\* A caller is refused or gives up, or its task is cancelled.
LEMMA GiveUpHolds ==
  ASSUME Inv, HoldInv, NEW c \in Calls,
         \/ \E e \in Ends : RefuseCall(e, c)
         \/ HostRequestOversized(c) \/ HostCancel(c) \/ HostResume(c) \/ ChildCancel(c)
  PROVE  HoldInv' /\ Quietly
<1> USE Constants
<1>1. /\ queue \in [Ends -> Seq(Frames)] /\ \A e \in Ends : queue[e] \in Seq(Frames)
      /\ outcome \in [Calls -> Verdicts \cup {"idle", "waiting"}]
      /\ \A e \in Ends : Len(wire[e]) \in Nat
  BY LenProperties DEF Inv, TypeOK
<1>2. /\ UNCHANGED <<closed, wire, handlers, future, runs>>
      /\ cancelled \subseteq cancelled' /\ pending' \subseteq pending
      /\ \/ UNCHANGED queue
         \/ \E e \in Ends : queue' = [queue EXCEPT ![e] = WithoutRequest(@, c)]
  BY DEF RefuseCall, HostRequestOversized, HostCancel, HostResume, ChildCancel
<1>3. \A e \in Ends : queue'[e] \in {queue[e], WithoutRequest(queue[e], c)}
  BY <1>1, <1>2
<1>4. \A e \in Ends : /\ Responded(queue[e]) \subseteq Responded(queue'[e])
                      /\ queue[e] = <<>> => queue'[e] = <<>>
  BY <1>1, <1>3, WithoutKeeps
<1>5. ASSUME NEW d \in Calls, outcome'[d] = "waiting"
      PROVE  outcome[d] = "waiting" /\ (d \in pending => d \in pending')
  <2>1. CASE UNCHANGED pending
             /\ (outcome' = outcome \/ outcome' = [outcome EXCEPT ![c] = "not_sent"]
                   \/ outcome' = [outcome EXCEPT ![c] = "truncated"])
    BY <1>1, <1>5, <2>1
  <2>2. ASSUME NEW v, v # "waiting", outcome' = [outcome EXCEPT ![c] = v], pending' = pending \ {c}
        PROVE  outcome[d] = "waiting" /\ (d \in pending => d \in pending')
    BY <1>1, <1>5, <2>2
  <2>3. Verdict(c) # "waiting"
    BY DEF Verdict
  <2> QED
    BY <2>1, <2>2, <2>3
    DEF RefuseCall, HostRequestOversized, HostCancel, HostResume, ChildCancel
<1>6. \A e \in Ends : closed[e] => queue'[e] = <<>> /\ Len(wire'[e]) <= Len(wire[e])
                                   /\ pending' \cap CallsOf(e) = {}
  BY <1>1, <1>2, <1>4 DEF HoldInv, QuietInv
<1> QED
  BY <1>2, <1>4, <1>5, <1>6, CalmStep

\* The readers.  What one takes is the head of its peer's wire.
LEMMA ReadFacts ==
  ASSUME Inv, NEW e \in Ends, NEW type, Arrives(e, type), Consume(e)
  PROVE  LET p == Peer(e)
             f == Head(wire[p])
         IN  /\ ~closed[e] /\ p \in Ends /\ f \in Frames /\ f.type = type
             /\ wire'[e] = wire[e] /\ Len(wire'[p]) <= Len(wire[p])
             /\ Responded(wire[p]) =
                  Responded(wire'[p]) \cup (IF type = "res" THEN {f.call} ELSE {})
             /\ Requested(wire[p]) =
                  Requested(wire'[p]) \cup (IF type = "req" THEN {f.call} ELSE {})
<1> USE Constants
<1> DEFINE p == Peer(e)
           s == wire[p]
<1>1. /\ s \in Seq(Frames) /\ wire \in [Ends -> Seq(Frames)] /\ p \in Ends /\ p # e
      /\ s # <<>> /\ Head(s).type = type /\ ~closed[e]
      /\ wire' = [wire EXCEPT ![p] = Tail(s)]
  BY DEF Arrives, Consume, Inv, TypeOK
<1>2. wire'[p] = Tail(s) /\ wire'[e] = wire[e]
  BY <1>1
<1> HIDE DEF s
<1>3. /\ Head(s) \in Frames /\ Len(Tail(s)) <= Len(s)
      /\ Requested(s) =
           Requested(Tail(s)) \cup (IF Head(s).type = "req" THEN {Head(s).call} ELSE {})
      /\ Responded(s) =
           Responded(Tail(s)) \cup (IF Head(s).type = "res" THEN {Head(s).call} ELSE {})
  BY <1>1, HeadTail, LenProperties
<1> QED
  BY <1>1, <1>2, <1>3 DEF s

\* Lengths, for the end that does not move.
LEMMA Lengths == Inv => \A e \in Ends : Len(wire[e]) \in Nat
BY LenProperties DEF Inv, TypeOK

LEMMA GreetHolds ==
  ASSUME Inv, HoldInv, HostReadHello \/ ChildReadAck PROVE HoldInv' /\ Quietly
<1> USE Constants
<1>1. PICK e \in Ends, type \in {"hello", "ack"} : Arrives(e, type) /\ Consume(e)
  BY DEF HostReadHello, ChildReadAck
<1>2. UNCHANGED <<closed, queue, handlers, pending, cancelled, future, outcome, runs>>
  BY DEF HostReadHello, ChildReadAck
<1>3. /\ ~closed[e] /\ wire'[e] = wire[e] /\ Len(wire'[Peer(e)]) <= Len(wire[Peer(e)])
      /\ Responded(wire[Peer(e)]) = Responded(wire'[Peer(e)]) \cup {}
  BY <1>1, ReadFacts
<1>4. \A d \in Ends : d = e \/ d = Peer(e)
  OBVIOUS
<1>5. \A d \in Ends : /\ Responded(wire[d]) \subseteq Responded(wire'[d])
                      /\ Len(wire'[d]) <= Len(wire[d])
  BY <1>3, <1>4, Lengths
<1> QED
  BY <1>2, <1>5, CalmStep DEF HoldInv, QuietInv

LEMMA HostResponseHolds ==
  ASSUME Inv, HoldInv, HostReadResponse PROVE HoldInv' /\ Quietly
<1> USE Constants
<1> DEFINE f == Head(wire["child"])
<1>1. /\ Arrives("host", "res") /\ Consume("host")
      /\ future' = [c \in HostCalls |->
             IF c = f.call /\ c \in pending \ cancelled /\ future[c] = "waiting"
             THEN f.tag ELSE future[c]]
      /\ pending' = pending \ {f.call}
      /\ UNCHANGED <<closed, queue, handlers, cancelled, outcome, runs>>
  BY DEF HostReadResponse
<1>2. /\ ~closed["host"] /\ f \in Frames /\ f.type = "res"
      /\ wire'["host"] = wire["host"] /\ Len(wire'["child"]) <= Len(wire["child"])
      /\ Responded(wire["child"]) = Responded(wire'["child"]) \cup {f.call}
  BY <1>1, ReadFacts
<1>3. f.tag # "waiting"
  BY <1>2, FrameShape
<1>4. f.call \in HostCalls
  BY <1>2 DEF Inv, LinkInv, FramesInv
<1> HIDE DEF f
<1>5. \A c \in HostCalls :
        (c \in cancelled \/ future[c] # "waiting") => (c \in cancelled' \/ future'[c] # "waiting")
  BY <1>1, <1>3
<1>6. outcome[f.call] = "waiting" => f.call \in cancelled' \/ future'[f.call] # "waiting"
  <2>1. outcome[f.call] = "waiting" =>
          f.call \in pending \/ f.call \in cancelled \/ future[f.call] # "waiting"
    BY <1>4 DEF HoldInv, HostPending, Told
  <2>2. f.call \in pending \ cancelled /\ future[f.call] = "waiting" => future'[f.call] = f.tag
    BY <1>1, <1>4
  <2> QED
    BY <1>3, <1>4, <1>5, <2>1, <2>2
<1>7. HostPending'
  BY <1>1, <1>5, <1>6 DEF HoldInv, HostPending, Told
<1>8. Held("host") = Held("host")' /\ Held("child") \subseteq Held("child")' \cup {f.call}
  BY <1>1, <1>2 DEF Held
<1>9. AnswerInv'
  <2>1. /\ closed["host"]' = closed["host"] /\ closed["child"]' = closed["child"]
        /\ \A c : outcome'[c] = outcome[c] /\ runs'[c] = runs[c]
    BY <1>1
  <2>2. \A c \in ChildCalls : c # f.call
    BY <1>4
  <2> QED
    BY <1>5, <1>6, <1>8, <2>1, <2>2 DEF HoldInv, AnswerInv, Told
<1>10. QuietInv' /\ Quietly
  BY <1>1, <1>2, Lengths DEF HoldInv, QuietInv, Quietly
<1> QED
  BY <1>7, <1>9, <1>10 DEF HoldInv

LEMMA ChildResponseHolds ==
  ASSUME Inv, HoldInv, ChildReadResponse PROVE HoldInv' /\ Quietly
<1> USE Constants
<1> DEFINE f == Head(wire["host"])
<1>1. /\ Arrives("child", "res") /\ Consume("child")
      /\ outcome' = [c \in Calls |-> IF c = f.call /\ c \in pending THEN f.tag ELSE outcome[c]]
      /\ pending' = pending \ {f.call}
      /\ UNCHANGED <<closed, queue, handlers, cancelled, future, runs>>
  BY DEF ChildReadResponse
<1>2. /\ ~closed["child"] /\ f \in Frames /\ f.type = "res"
      /\ wire'["child"] = wire["child"] /\ Len(wire'["host"]) <= Len(wire["host"])
      /\ Responded(wire["host"]) = Responded(wire'["host"]) \cup {f.call}
  BY <1>1, ReadFacts
<1>3. f.tag # "waiting"
  BY <1>2, FrameShape
<1>4. f.call \in ChildCalls
  BY <1>2 DEF Inv, LinkInv, FramesInv
<1> HIDE DEF f
<1>5. \A c \in Calls : outcome'[c] = "waiting" => outcome[c] = "waiting" /\ (c = f.call => c \notin pending)
  BY <1>1, <1>3
<1>6. outcome'[f.call] # "waiting"
  BY <1>4, <1>5 DEF Inv, LinkInv, PendingInv
<1>7. HostPending'
  BY <1>1, <1>4, <1>5 DEF HoldInv, HostPending, Told
<1>8. Held("child") = Held("child")' /\ Held("host") \subseteq Held("host")' \cup {f.call}
  BY <1>1, <1>2 DEF Held
<1>9. AnswerInv'
  BY <1>1, <1>5, <1>6, <1>8 DEF HoldInv, AnswerInv, Told
<1>10. QuietInv' /\ Quietly
  BY <1>1, <1>2, Lengths DEF HoldInv, QuietInv, Quietly
<1> QED
  BY <1>7, <1>9, <1>10 DEF HoldInv

\* Closing discards what is queued and fails what is pending.
LEMMA CloseHolds ==
  ASSUME Inv, HoldInv, HostFinish \/ \E done : ChildEnd(done) PROVE HoldInv' /\ Quietly
<1> USE Constants
<1>1. CASE HostFinish
  <2>1. /\ closed' = [closed EXCEPT !["host"] = TRUE]
        /\ queue' = [queue EXCEPT !["host"] = <<>>]
        /\ handlers' = [handlers EXCEPT !["host"] = {}]
        /\ future' = [c \in HostCalls |->
             IF c \in pending \ cancelled /\ future[c] = "waiting" THEN Verdict(c) ELSE future[c]]
        /\ pending' = pending \ HostCalls
        /\ UNCHANGED <<cancelled, outcome, runs>>
    BY <1>1 DEF HostFinish
  <2>2. PICK n \in 0..Len(wire["host"]) :
          wire' = [e \in Ends |-> IF e = "host" THEN SubSeq(wire[e], 1, n) ELSE <<>>]
    BY <1>1 DEF HostFinish
  <2>3. wire["host"] \in Seq(Frames)
    BY DEF Inv, TypeOK
  <2>4. wire'["child"] = <<>> /\ Len(wire'["host"]) <= Len(wire["host"])
    BY <2>2, <2>3, Prefix
  <2>5. /\ closed'["host"] /\ (closed["child"] <=> closed'["child"])
        /\ queue'["host"] = <<>> /\ queue'["child"] = queue["child"]
        /\ handlers'["host"] = {} /\ handlers'["child"] = handlers["child"]
    BY <2>1 DEF Inv, TypeOK
  <2>6. \A c \in HostCalls : (c \in pending => Told(c)') /\ (Told(c) => Told(c)')
    BY <2>1 DEF Told, Verdict
  <2>7. HostPending'
    BY <2>1, <2>6 DEF HoldInv, HostPending
  <2>8. QuietInv' /\ AnswerInv'
    BY <2>1, <2>5 DEF HoldInv, QuietInv, AnswerInv
  <2>9. Quietly
    BY <2>1, <2>4, <2>5, Lengths, NoFrames DEF HoldInv, QuietInv, Quietly
  <2> QED
    BY <2>7, <2>8, <2>9 DEF HoldInv
<1>2. ASSUME NEW done, ChildEnd(done) PROVE HoldInv' /\ Quietly
  <2>1. /\ closed' = [closed EXCEPT !["child"] = TRUE]
        /\ queue' = [queue EXCEPT !["child"] = <<>>]
        /\ handlers' = [handlers EXCEPT !["child"] = @ \ done]
        /\ outcome' = [c \in Calls |->
             IF c \in pending \cap ChildCalls THEN Verdict(c) ELSE outcome[c]]
        /\ pending' = pending \ ChildCalls
        /\ UNCHANGED <<cancelled, future, runs>>
    BY <1>2 DEF ChildEnd
  <2>2. PICK n \in 0..Len(wire["child"]) :
          wire' = [e \in Ends |-> IF e = "child" THEN SubSeq(wire[e], 1, n) ELSE <<>>]
    BY <1>2 DEF ChildEnd
  <2>3. wire["child"] \in Seq(Frames)
    BY DEF Inv, TypeOK
  <2>4. wire'["host"] = <<>> /\ Len(wire'["child"]) <= Len(wire["child"])
    BY <2>2, <2>3, Prefix
  <2>5. /\ closed'["child"] /\ (closed["host"] <=> closed'["host"])
        /\ queue'["child"] = <<>> /\ queue'["host"] = queue["host"]
        /\ handlers'["child"] \subseteq handlers["child"] /\ handlers'["host"] = handlers["host"]
    BY <2>1 DEF Inv, TypeOK
  <2>6. \A c \in HostCalls : outcome'[c] = outcome[c] /\ (c \in pending' <=> c \in pending)
    BY <2>1
  <2>7. HostPending'
    BY <2>1, <2>6 DEF HoldInv, HostPending, Told
  <2>8. QuietInv' /\ AnswerInv'
    BY <2>1, <2>5 DEF HoldInv, QuietInv, AnswerInv
  <2>9. Quietly
    BY <2>1, <2>4, <2>5, Lengths, NoFrames DEF HoldInv, QuietInv, Quietly
  <2> QED
    BY <2>7, <2>8, <2>9 DEF HoldInv
<1> QED
  BY <1>1, <1>2

\* A request that is read is handled.
LEMMA ReadRequestHolds ==
  ASSUME Inv, HoldInv, NEW e \in Ends, ReadRequest(e) PROVE HoldInv' /\ Quietly
<1> USE Constants
<1> DEFINE c == Head(wire[Peer(e)]).call
<1>1. CASE Close(e)
  BY <1>1, CloseHolds DEF Close
<1>2. CASE ~Close(e)
  <2>1. /\ Arrives(e, "req") /\ Consume(e)
        /\ handlers' = [handlers EXCEPT ![e] = @ \cup {c}]
        /\ runs' = [runs EXCEPT ![c] = @ + 1]
        /\ UNCHANGED <<closed, queue, pending, cancelled, future, outcome>>
    BY <1>2 DEF ReadRequest
  <2>2. /\ ~closed[e] /\ wire'[e] = wire[e] /\ Len(wire'[Peer(e)]) <= Len(wire[Peer(e)])
        /\ Responded(wire[Peer(e)]) = Responded(wire'[Peer(e)]) \cup {}
        /\ c \in Requested(wire[Peer(e)])
    BY <2>1, ReadFacts
  <2>3. c \in CallsOf(Peer(e)) /\ c \in Calls
    BY <2>2 DEF Inv, LinkInv, FramesInv
  <2> HIDE DEF c
  <2>4. /\ handlers'[e] = handlers[e] \cup {c} /\ handlers'[Peer(e)] = handlers[Peer(e)]
        /\ \A d \in Calls : d # c => runs'[d] = runs[d]
    <3>1. handlers \in [Ends -> SUBSET Calls] /\ runs \in [Calls -> Nat] /\ Peer(e) \in Ends
          /\ Peer(e) # e
      BY DEF Inv, TypeOK
    <3>2. \A d \in Calls : d # c => runs'[d] = runs[d]
      BY <2>1, <3>1
    <3> QED
      BY <2>1, <3>1, <3>2
  <2>5. \A d \in Ends : d = e \/ d = Peer(e)
    OBVIOUS
  <2>6. \A d \in Ends : Responded(wire[d]) \subseteq Responded(wire'[d])
                        /\ Len(wire'[d]) <= Len(wire[d])
    BY <2>2, <2>5, Lengths
  <2>7. \A d \in Ends : Held(d) \subseteq Held(d)'
    BY <2>1, <2>4, <2>5, <2>6 DEF Held
  <2>8. c \in Held(e)'
    BY <2>4 DEF Held
  <2>9. AnswerInv'
    <3>1. e = "host" => c \in ChildCalls
      BY <2>3
    <3>2. e = "child" => c \in HostCalls
      BY <2>3
    <3> QED
      BY <2>1, <2>3, <2>4, <2>7, <2>8, <3>1, <3>2 DEF HoldInv, AnswerInv, Told
  <2>10. HostPending'
    BY <2>1 DEF HoldInv, HostPending, Told
  <2>11. QuietInv' /\ Quietly
    BY <2>1, <2>2, <2>4, <2>5, <2>6 DEF HoldInv, QuietInv, Quietly
  <2> QED
    BY <2>9, <2>10, <2>11 DEF HoldInv
<1> QED
  BY <1>1, <1>2

\* A handler that returns has its response queued.
LEMMA AnsweredHolds ==
  ASSUME Inv, HoldInv, NEW e \in Ends, ~closed[e], NEW c \in Calls,
         handlers' = [handlers EXCEPT ![e] = @ \ {c}],
         UNCHANGED <<closed, pending, cancelled, future, outcome, runs>>,
         c \in Responded(queue'[e]) \cup Responded(wire'[e]),
         \A d \in Ends : Responded(queue[d]) \cup Responded(wire[d])
                           \subseteq Responded(queue'[d]) \cup Responded(wire'[d]),
         \A d \in Ends : closed[d] => queue'[d] = <<>> /\ Len(wire'[d]) <= Len(wire[d])
  PROVE  HoldInv' /\ Quietly
<1> USE Constants
<1>1. \A d \in Ends : handlers'[d] = IF d = e THEN handlers[d] \ {c} ELSE handlers[d]
  BY DEF Inv, TypeOK
<1>2. \A d \in Ends : Held(d) \subseteq Held(d)'
  BY <1>1 DEF Held
<1>3. AnswerInv'
  BY <1>2 DEF HoldInv, AnswerInv, Told
<1>4. HostPending'
  BY DEF HoldInv, HostPending, Told
<1>5. QuietInv' /\ Quietly
  BY <1>1 DEF HoldInv, QuietInv, Quietly
<1> QED
  BY <1>3, <1>4, <1>5 DEF HoldInv

LEMMA HostRespondHolds ==
  ASSUME Inv, HoldInv, NEW c \in Calls, NEW tag \in {"ok", "error", "truncated"},
         HostRespond(c, tag)
  PROVE  HoldInv' /\ Quietly
<1> USE Constants
<1> DEFINE f == Response(c, tag)
<1>1. CASE HostFinish
  BY <1>1, CloseHolds
<1>2. CASE ~HostFinish
  <2>1. /\ c \in handlers["host"] /\ queue' = [queue EXCEPT !["host"] = Append(@, f)]
        /\ handlers' = [handlers EXCEPT !["host"] = @ \ {c}]
        /\ UNCHANGED <<closed, wire, pending, cancelled, future, outcome, runs>>
    BY <1>2 DEF HostRespond
  <2>2. ~closed["host"]
    BY <2>1 DEF HoldInv, QuietInv
  <2>3. f \in Frames /\ f.type = "res" /\ f.call = c
    BY MakeFrame
  <2> HIDE DEF f
  <2>4. queue \in [Ends -> Seq(Frames)] /\ queue["host"] \in Seq(Frames)
    BY DEF Inv, TypeOK
  <2>5. Responded(Append(queue["host"], f)) = Responded(queue["host"]) \cup {c}
    BY <2>3, <2>4, AppendFrame
  <2>6. queue'["host"] = Append(queue["host"], f) /\ queue'["child"] = queue["child"]
    BY <2>1, <2>4
  <2>7. \A d \in Ends : Responded(queue[d]) \cup Responded(wire[d])
                          \subseteq Responded(queue'[d]) \cup Responded(wire'[d])
    BY <2>1, <2>5, <2>6
  <2>8. \A d \in Ends : closed[d] => queue'[d] = <<>> /\ Len(wire'[d]) <= Len(wire[d])
    BY <2>1, <2>2, <2>6, Lengths DEF HoldInv, QuietInv
  <2> QED
    BY <2>1, <2>2, <2>5, <2>6, <2>7, <2>8, AnsweredHolds
<1> QED
  BY <1>1, <1>2

LEMMA ChildRespondHolds ==
  ASSUME Inv, HoldInv, NEW c \in Calls, NEW tag \in {"ok", "error", "truncated"},
         ChildRespond(c, tag)
  PROVE  HoldInv' /\ Quietly
<1> USE Constants
<1> DEFINE f == Response(c, tag)
           q == Append(queue["child"], f)
<1>1. CASE ChildEnd({c})
  BY <1>1, CloseHolds
<1>2. CASE ~ChildEnd({c})
  <2>1. /\ ~closed["child"] /\ ChildPump(q, ~blocked, pending)
        /\ handlers' = [handlers EXCEPT !["child"] = @ \ {c}]
        /\ UNCHANGED <<closed, pending, cancelled, future, outcome, runs>>
    BY <1>2 DEF ChildRespond
  <2>2. f \in Frames /\ f.type = "res" /\ f.call = c
    BY MakeFrame
  <2> HIDE DEF f
  <2>3. /\ queue["child"] \in Seq(Frames) /\ OneRequestEach(queue["child"])
        /\ Requested(queue["child"]) \cap Requested(wire["child"]) = {}
    BY DEF Inv, TypeOK, LinkInv, FramesInv
  <2>4. /\ q \in Seq(Frames) /\ OneRequestEach(q)
        /\ Requested(q) = Requested(queue["child"]) \cup {}
        /\ Responded(q) = Responded(queue["child"]) \cup {c}
    BY <2>2, <2>3, AppendFrame
  <2> HIDE DEF q
  <2>5. /\ Responded(q) \subseteq Responded(queue'["child"]) \cup Responded(wire'["child"])
        /\ \A d \in Ends : Responded(queue[d]) \cup Responded(wire[d])
                             \subseteq Responded(queue'[d]) \cup Responded(wire'[d])
        /\ \A d \in Ends : closed[d] => queue'[d] = <<>> /\ Len(wire'[d]) <= Len(wire[d])
    <3>1. Requested(q) \cap Requested(wire["child"]) = {}
          /\ Responded(queue["child"]) \subseteq Responded(q)
      BY <2>3, <2>4
    <3> QED
      BY <2>1, <2>4, <3>1, PumpHolds
  <2>6. c \in Responded(queue'["child"]) \cup Responded(wire'["child"])
    BY <2>4, <2>5
  <2> QED
    BY <2>1, <2>5, <2>6, AnsweredHolds
<1> QED
  BY <1>1, <1>2

LEMMA LateHolds ==
  ASSUME Inv, HoldInv, NEW c \in Calls, ChildHandlerEndsLate(c) PROVE HoldInv' /\ Quietly
<1> USE Constants
<1>1. /\ closed["child"] /\ handlers' = [handlers EXCEPT !["child"] = @ \ {c}]
      /\ UNCHANGED <<closed, queue, wire, pending, cancelled, future, outcome, runs>>
  BY DEF ChildHandlerEndsLate
<1>2. handlers'["host"] = handlers["host"] /\ handlers'["child"] \subseteq handlers["child"]
  BY <1>1 DEF Inv, TypeOK
<1>3. HostPending' /\ AnswerInv'
  BY <1>1 DEF HoldInv, HostPending, AnswerInv, Told
<1>4. QuietInv' /\ Quietly
  BY <1>1, <1>2, Lengths DEF HoldInv, QuietInv, Quietly
<1> QED
  BY <1>3, <1>4 DEF HoldInv

LEMMA StayHolds == ASSUME Inv, HoldInv, UNCHANGED vars PROVE HoldInv' /\ Quietly
<1>1. UNCHANGED <<closed, queue, wire, handlers, pending, cancelled, future, outcome, runs>>
  BY DEF vars
<1> QED
  BY <1>1, CalmStep, Lengths DEF HoldInv, QuietInv

LEMMA NextHolds == Inv /\ HoldInv /\ [Next]_vars => HoldInv' /\ Quietly
<1> SUFFICES ASSUME Inv, HoldInv, [Next]_vars PROVE HoldInv' /\ Quietly
  OBVIOUS
<1>1. CASE HostAck \/ HostWrite \/ ChildDrain
  BY <1>1, HostAckHolds, HostWriteHolds, ChildDrainHolds
<1>2. ASSUME NEW e \in Ends, Read(e) \/ Stop(e) \/ PeerGone(e) \/ HandshakeFails(e)
      PROVE  HoldInv' /\ Quietly
  <2>1. CASE Read(e)
    BY <2>1, ReadRequestHolds, GreetHolds, HostResponseHolds, ChildResponseHolds DEF Read
  <2>2. CASE Close(e)
    BY <2>2, CloseHolds DEF Close
  <2> QED
    BY <1>2, <2>1, <2>2 DEF Stop, PeerGone, HandshakeFails
<1>3. ASSUME NEW c \in Calls,
             \/ \E e \in Ends : RefuseCall(e, c)
             \/ HostRequestOversized(c) \/ HostCancel(c) \/ HostResume(c) \/ ChildCancel(c)
      PROVE  HoldInv' /\ Quietly
  BY <1>3, GiveUpHolds
<1>4. ASSUME NEW c \in Calls, HostRequest(c) \/ ChildRequest(c) \/ ChildRequestOversized(c)
      PROVE  HoldInv' /\ Quietly
  BY <1>4, SubmitHolds, ChildSubmitHolds
<1>5. ASSUME NEW c \in Calls, Respond(c) \/ ChildHandlerEndsLate(c) PROVE HoldInv' /\ Quietly
  BY <1>5, HostRespondHolds, ChildRespondHolds, LateHolds DEF Respond
<1>6. CASE UNCHANGED vars
  BY <1>6, StayHolds
<1> QED
  BY <1>1, <1>2, <1>3, <1>4, <1>5, <1>6 DEF Next

LEMMA InitHolds == Init => HoldInv
<1> SUFFICES ASSUME Init PROVE HoldInv
  OBVIOUS
<1>1. \A e \in Ends : closed[e] = FALSE
  BY DEF Init
<1>2. \A c \in Calls : outcome[c] = "idle"
  BY DEF Init
<1> QED
  BY <1>1, <1>2, Constants DEF HoldInv, HostPending, AnswerInv, QuietInv

LEMMA HoldCorrect == Spec => []HoldInv
<1>1. Spec => []Inv
  BY InitInv, NextInv, PTL DEF Spec
<1> QED
  BY <1>1, InitHolds, NextHolds, PTL DEF Spec

\* While both ends are open the answer to a call that ran is with its handler, queued, on
\* the wire, or with the caller's task (control_link.py and hermes-control-link.cjs, the
\* responding paths): "responses are never silently dropped", for any limits.
THEOREM AnswersCorrect == Spec => []AnswerIsNotLost
<1>1. Inv /\ HoldInv => AnswerIsNotLost
  <2> SUFFICES ASSUME Inv, HoldInv PROVE AnswerIsNotLost
    OBVIOUS
  <2>1. \A e \in Ends : \A c \in CallsOf(e) : runs[c] > 0 => runs[c] # 0
    OBVIOUS
  <2>2. \A e \in Ends : \A c \in Held(e) :
          \/ c \in handlers[e]
          \/ \E f \in SeqRange(queue[e]) \cup SeqRange(wire[e]) : f.type = "res" /\ f.call = c
    BY DEF Held, Responded
  <2> QED
    BY <2>1, <2>2, Constants DEF HoldInv, AnswerInv, AnswerIsNotLost, Told
<1>2. Spec => []Inv
  BY InitInv, NextInv, PTL DEF Spec
<1> QED
  BY <1>1, <1>2, HoldCorrect, PTL

\* An end that has closed writes nothing more, starts no handler and leaves no call of its
\* own pending, whatever wakes afterwards (control_link.py, _finish; onEnd).
THEOREM QuietCorrect == Spec => ClosedIsQuiet
<1>1. Inv /\ HoldInv /\ [Next]_vars =>
        [\A e \in Ends : closed[e] =>
           /\ closed'[e]
           /\ queue'[e] = <<>> /\ Len(wire'[e]) <= Len(wire[e])
           /\ handlers'[e] \subseteq handlers[e]
           /\ pending' \cap CallsOf(e) = {}]_vars
  BY NextHolds DEF Quietly
<1>2. Spec => []Inv
  BY InitInv, NextInv, PTL DEF Spec
<1> QED
  BY <1>1, <1>2, HoldCorrect, PTL DEF Spec, ClosedIsQuiet
=============================================================================
