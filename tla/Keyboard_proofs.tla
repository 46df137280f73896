---------------------------- MODULE Keyboard_proofs ----------------------------
(***************************************************************************)
(* Keyboard for any keys, any queue and any number of reports: the types,  *)
(* the repeat, and what the guest gets as long as no code is lost in a way *)
(* the code provides for.                                                  *)
(***************************************************************************)
EXTENDS Keyboard, SequenceTheorems, TLAPS

ExtMakes == {Make(k) : k \in Extended}

RepeatInv == repeat_code # "none" =>
               repeat_code \in prev_report /\ repeat_code \notin Modifiers

(* A code the guest was told of is in the port, its interrupt or its       *)
(* handler on the way; the chord and the menu find the guest at rest.      *)
TurnInv ==
  ~excuse =>
    /\ unread => current_scancode # None /\ ~active /\ ~osd_requested
    /\ irr1 \/ guest = "read" => unread
    /\ guest # "program" => ~irr1
    /\ guest = "ack" => current_scancode # None /\ ~unread
    /\ active \/ osd_requested => guest = "program"

(* In the queue every extended key stands behind its prefix.               *)
Paired(q) == \A i \in 2 .. Len(q) : q[i] \in ExtMakes => q[i-1] = Prefix
Headed(q) == q # <<>> /\ q[1] \in ExtMakes

(* Its prefix went before it to the port, and from there to the guest.     *)
PrefixInv ==
  ~excuse =>
    /\ Paired(keyboard_queue)
    /\ Headed(keyboard_queue) =>
         /\ current_scancode \in {None, Prefix}
         /\ ~active /\ current_scancode = None => prefixed
    /\ guest = "ack" => (prefixed <=> current_scancode = Prefix)
    /\ unread /\ current_scancode \in ExtMakes => prefixed

(* The queue ends with m up; nothing in the queue takes m down.            *)
EndsUp(q, m) == \E i \in 1 .. Len(q) :
                  q[i] = Break(m) /\ \A j \in i + 1 .. Len(q) : q[j] # Make(m)
NeverDown(q, m) == \A i \in 1 .. Len(q) : q[i] # Make(m)

(* A modifier that is up is up for the guest when all is handed over.      *)
ModifierInv ==
  ~excuse /\ ~active =>
    \A m \in Modifiers \ prev_report :
      \/ EndsUp(keyboard_queue, m)
      \/ /\ NeverDown(keyboard_queue, m)
         /\ IF unread THEN \/ current_scancode = Break(m)
                           \/ current_scancode # Make(m) /\ m \notin belief
                      ELSE m \notin belief

IInv == TypeOK /\ RepeatInv /\ TurnInv /\ PrefixInv /\ ModifierInv

-----------------------------------------------------------------------------
USE DEF hid, guestVars, vars, active

(* The codes of the keys differ from the codes that mean something else.   *)
LEMMA KeyCodes ==
  /\ \A k \in Keys : Make(k) \in Code /\ Break(k) \in Code
                       /\ Make(k) # Prefix /\ Make(k) # None
                       /\ Break(k) # None /\ Break(k) \notin ExtMakes
  /\ Prefix \in Code /\ SelfTest \in Code
  /\ Prefix \notin ExtMakes /\ Prefix # None /\ None \notin Code
  /\ Make("f1") \notin ExtMakes /\ Make("esc") \notin ExtMakes
  /\ Extended \subseteq Keys /\ Modifiers \subseteq Keys
  /\ "E0" \notin Keys /\ "none" \notin Keys /\ "AA" \notin Keys
<1>1. /\ Extended \subseteq Keys /\ Modifiers \subseteq Keys
      /\ "E0" \notin Keys /\ "none" \notin Keys /\ "AA" \notin Keys
      /\ "f1" \in Keys \ Extended /\ "esc" \in Keys \ Extended
  BY KeyboardAssumption DEF Modifiers
<1>2. \A k \in Keys : /\ Make(k) \in Code /\ Break(k) \in Code
                      /\ Make(k).key = k /\ Break(k).key = k
                      /\ ~Make(k).up /\ Break(k).up
  BY DEF Make, Break, Code
<1>3. /\ Prefix \in Code /\ SelfTest \in Code /\ Prefix.key = "E0"
      /\ None.key = "none" /\ None \notin Code
  BY <1>1 DEF Prefix, SelfTest, None, Code
<1>4. \A c \in ExtMakes : c.key \in Extended /\ ~c.up
  BY DEF ExtMakes, Make
<1>5. \A k \in Keys : Break(k) \notin ExtMakes
  BY <1>2, <1>4
<1>6. Prefix \notin ExtMakes /\ Make("f1") \notin ExtMakes
        /\ Make("esc") \notin ExtMakes
  BY <1>1, <1>2, <1>3, <1>4
<1>7. ASSUME NEW k \in Keys
      PROVE  Make(k) # Prefix /\ Make(k) # None /\ Break(k) # None
  <2>1. k # "E0" /\ k # "none" /\ Make(k).key = k /\ Break(k).key = k
    BY <1>1, <1>2
  <2> QED
    BY <1>3, <2>1
<1> QED
  BY <1>1, <1>2, <1>3, <1>5, <1>6, <1>7

(* The queue takes all of a sequence, or what there is room for.           *)
LEMMA Added ==
  ASSUME NEW q \in Seq(Code), NEW s \in Seq(Code), Len(q) <= QueueSize
  PROVE  /\ AddSequence(q, s) \in Seq(Code)
         /\ Len(AddSequence(q, s)) <= QueueSize
         /\ ~Dropped(q, s) => AddSequence(q, s) = q \o s
<1> DEFINE room == QueueSize - Len(q)
           n == IF Len(s) < room THEN Len(s) ELSE room
           t == SubSeq(s, 1, n)
<1>1. room \in Nat /\ n \in 0 .. Len(s) /\ n <= room
  BY KeyboardAssumption
<1>2. t \in Seq(Code) /\ Len(t) = n
  BY <1>1, SubSeqProperties
<1>3. AddSequence(q, s) = q \o t
  BY DEF AddSequence
<1>4. ~Dropped(q, s) => t = s
  <2> SUFFICES ASSUME ~Dropped(q, s) PROVE t = s
    OBVIOUS
  <2>1. n = Len(s)
    BY KeyboardAssumption DEF Dropped
  <2> QED
    BY <2>1, <1>2, SubSeqProperties
<1>5. Len(q) + n <= QueueSize
  BY <1>1, KeyboardAssumption
<1> HIDE DEF t, n
<1>6. q \o t \in Seq(Code) /\ Len(q \o t) = Len(q) + n
  BY <1>2, ConcatProperties
<1> QED
  BY <1>3, <1>4, <1>5, <1>6

(* Sequences that follow one another.                                      *)
LEMMA Joined ==
  ASSUME NEW q \in Seq(Code), NEW s \in Seq(Code)
  PROVE  /\ q \o s \in Seq(Code) /\ Len(q \o s) = Len(q) + Len(s)
         /\ \A i \in 1 .. Len(q) : (q \o s)[i] = q[i]
         /\ \A i \in 1 .. Len(s) : (q \o s)[Len(q) + i] = s[i]
  BY ConcatProperties

(* Prefixes stay with their codes when sequences are joined.               *)
LEMMA JoinedPaired ==
  ASSUME NEW q \in Seq(Code), NEW s \in Seq(Code), Paired(q), Paired(s),
         ~Headed(s)
  PROVE  /\ Paired(q \o s)
         /\ Headed(q \o s) => Headed(q)
<1>1. /\ q \o s \in Seq(Code) /\ Len(q \o s) = Len(q) + Len(s)
      /\ \A i \in 1 .. Len(q) : (q \o s)[i] = q[i]
      /\ \A i \in 1 .. Len(s) : (q \o s)[Len(q) + i] = s[i]
      /\ Len(q) \in Nat /\ Len(s) \in Nat
  BY Joined
<1>2. ASSUME NEW i \in 2 .. Len(q \o s), (q \o s)[i] \in ExtMakes
      PROVE  (q \o s)[i-1] = Prefix
  <2>1. CASE i <= Len(q)
    <3>1. i \in 2 .. Len(q) /\ i \in 1 .. Len(q) /\ i - 1 \in 1 .. Len(q)
      BY <1>1, <2>1
    <3> QED
      BY <1>1, <1>2, <3>1 DEF Paired
  <2>2. CASE i = Len(q) + 1
    <3>1. 1 \in 1 .. Len(s)
      BY <1>1, <2>2
    <3>2. s[1] \in ExtMakes
      BY <1>1, <1>2, <2>2, <3>1
    <3> QED
      BY <1>1, <3>1, <3>2 DEF Headed
  <2>3. CASE i > Len(q) + 1
    <3> DEFINE j == i - Len(q)
    <3>1. j \in 2 .. Len(s) /\ j \in 1 .. Len(s) /\ j - 1 \in 1 .. Len(s)
          /\ i = Len(q) + j /\ i - 1 = Len(q) + (j - 1)
      BY <1>1, <2>3
    <3> HIDE DEF j
    <3>2. (q \o s)[i] = s[j] /\ (q \o s)[i-1] = s[j-1]
      BY <1>1, <3>1
    <3> QED
      BY <1>2, <3>1, <3>2 DEF Paired
  <2> QED
    BY <1>1, <2>1, <2>2, <2>3
<1>3. ASSUME Headed(q \o s) PROVE Headed(q)
  <2>1. CASE q = <<>>
    <3>1. Len(q) = 0 /\ q \o s = s
      BY <2>1, ConcatEmptySeq
    <3> QED
      BY <1>3, <3>1
  <2>2. CASE q # <<>>
    <3>1. 1 \in 1 .. Len(q)
      BY <1>1, <2>2, EmptySeq
    <3> QED
      BY <1>1, <1>3, <2>2, <3>1 DEF Headed
  <2> QED
    BY <2>1, <2>2
<1> QED
  BY <1>2, <1>3 DEF Paired

(* The oldest code leaves.                                                 *)
LEMMA Left ==
  ASSUME NEW q \in Seq(Code), q # <<>>
  PROVE  /\ Head(q) = q[1] /\ Head(q) \in Code
         /\ Tail(q) \in Seq(Code) /\ Len(Tail(q)) = Len(q) - 1
         /\ Len(q) \in Nat \ {0}
         /\ \A i \in 1 .. Len(q) - 1 : Tail(q)[i] = q[i+1]
  BY HeadTailProperties

(* And when the oldest code leaves.                                        *)
LEMMA LeftPaired ==
  ASSUME NEW q \in Seq(Code), q # <<>>, Paired(q)
  PROVE  /\ Paired(Tail(q))
         /\ Headed(Tail(q)) => Head(q) = Prefix
<1>1. /\ Head(q) = q[1] /\ Tail(q) \in Seq(Code)
      /\ Len(Tail(q)) = Len(q) - 1 /\ Len(q) \in Nat \ {0}
      /\ \A i \in 1 .. Len(q) - 1 : Tail(q)[i] = q[i+1]
  BY Left
<1>2. ASSUME NEW i \in 2 .. Len(Tail(q)), Tail(q)[i] \in ExtMakes
      PROVE  Tail(q)[i-1] = Prefix
  <2>1. i + 1 \in 2 .. Len(q) /\ i \in 1 .. Len(q) - 1
        /\ i - 1 \in 1 .. Len(q) - 1 /\ (i - 1) + 1 = (i + 1) - 1
    BY <1>1
  <2> QED
    BY <1>1, <1>2, <2>1 DEF Paired
<1>3. ASSUME Headed(Tail(q)) PROVE Head(q) = Prefix
  <2>1. Len(Tail(q)) # 0
    BY <1>1, <1>3, EmptySeq DEF Headed
  <2>2. 1 \in 1 .. Len(q) - 1 /\ 2 \in 2 .. Len(q) /\ 1 + 1 = 2 /\ 2 - 1 = 1
    BY <1>1, <2>1
  <2>3. q[2] \in ExtMakes
    BY <1>1, <1>3, <2>2 DEF Headed
  <2> QED
    BY <1>1, <2>2, <2>3 DEF Paired
<1> QED
  BY <1>2, <1>3 DEF Paired

(* What a joined sequence does to a modifier.                              *)
LEMMA JoinedUp ==
  ASSUME NEW q \in Seq(Code), NEW s \in Seq(Code), NEW m
  PROVE  /\ EndsUp(s, m) => EndsUp(q \o s, m)
         /\ EndsUp(q, m) /\ NeverDown(s, m) => EndsUp(q \o s, m)
         /\ NeverDown(q, m) /\ NeverDown(s, m) => NeverDown(q \o s, m)
<1>1. /\ q \o s \in Seq(Code) /\ Len(q \o s) = Len(q) + Len(s)
      /\ \A i \in 1 .. Len(q) : (q \o s)[i] = q[i]
      /\ \A i \in 1 .. Len(s) : (q \o s)[Len(q) + i] = s[i]
      /\ Len(q) \in Nat /\ Len(s) \in Nat
  BY Joined
<1>2. \A j \in Len(q) + 1 .. Len(q) + Len(s) :
        j - Len(q) \in 1 .. Len(s) /\ (q \o s)[j] = s[j - Len(q)]
  <2> SUFFICES ASSUME NEW j \in Len(q) + 1 .. Len(q) + Len(s)
               PROVE  j - Len(q) \in 1 .. Len(s)
                        /\ (q \o s)[j] = s[j - Len(q)]
    OBVIOUS
  <2>1. j - Len(q) \in 1 .. Len(s) /\ Len(q) + (j - Len(q)) = j
    BY <1>1
  <2> QED
    BY <1>1, <2>1
<1>3. ASSUME EndsUp(s, m) PROVE EndsUp(q \o s, m)
  <2>1. PICK i \in 1 .. Len(s) :
          s[i] = Break(m) /\ \A j \in i + 1 .. Len(s) : s[j] # Make(m)
    BY <1>3 DEF EndsUp
  <2>2. Len(q) + i \in 1 .. Len(q \o s) /\ (q \o s)[Len(q) + i] = Break(m)
    BY <1>1, <2>1
  <2>3. ASSUME NEW j \in Len(q) + i + 1 .. Len(q \o s)
        PROVE  (q \o s)[j] # Make(m)
    <3>1. j \in Len(q) + 1 .. Len(q) + Len(s)
          /\ j - Len(q) \in i + 1 .. Len(s)
      BY <1>1, <2>1
    <3> QED
      BY <1>2, <2>1, <3>1
  <2> QED
    BY <2>2, <2>3 DEF EndsUp
<1>4. ASSUME EndsUp(q, m), NeverDown(s, m) PROVE EndsUp(q \o s, m)
  <2>1. PICK i \in 1 .. Len(q) :
          q[i] = Break(m) /\ \A j \in i + 1 .. Len(q) : q[j] # Make(m)
    BY <1>4 DEF EndsUp
  <2>2. i \in 1 .. Len(q \o s) /\ (q \o s)[i] = Break(m)
    BY <1>1, <2>1
  <2>3. ASSUME NEW j \in i + 1 .. Len(q \o s) PROVE (q \o s)[j] # Make(m)
    <3>1. CASE j <= Len(q)
      <4>1. j \in 1 .. Len(q) /\ j \in i + 1 .. Len(q)
        BY <1>1, <2>1, <3>1
      <4> QED
        BY <1>1, <2>1, <4>1
    <3>2. CASE j > Len(q)
      <4>1. j \in Len(q) + 1 .. Len(q) + Len(s)
        BY <1>1, <2>1, <3>2
      <4> QED
        BY <1>2, <1>4, <4>1 DEF NeverDown
    <3> QED
      BY <1>1, <3>1, <3>2
  <2> QED
    BY <2>2, <2>3 DEF EndsUp
<1>5. ASSUME NeverDown(q, m), NeverDown(s, m) PROVE NeverDown(q \o s, m)
  <2> SUFFICES ASSUME NEW j \in 1 .. Len(q \o s) PROVE (q \o s)[j] # Make(m)
    BY DEF NeverDown
  <2>1. CASE j <= Len(q)
    <3>1. j \in 1 .. Len(q)
      BY <1>1, <2>1
    <3> QED
      BY <1>1, <1>5, <3>1 DEF NeverDown
  <2>2. CASE j > Len(q)
    <3>1. j \in Len(q) + 1 .. Len(q) + Len(s)
      BY <1>1, <2>2
    <3> QED
      BY <1>2, <1>5, <3>1 DEF NeverDown
  <2> QED
    BY <1>1, <2>1, <2>2
<1> QED
  BY <1>3, <1>4, <1>5

(* What is left of it when the oldest code has gone.                       *)
LEMMA LeftUp ==
  ASSUME NEW q \in Seq(Code), q # <<>>, NEW m
  PROVE  /\ EndsUp(q, m) =>
              \/ EndsUp(Tail(q), m)
              \/ Head(q) = Break(m) /\ NeverDown(Tail(q), m)
         /\ NeverDown(q, m) => Head(q) # Make(m) /\ NeverDown(Tail(q), m)
<1>1. /\ Head(q) = q[1] /\ Tail(q) \in Seq(Code)
      /\ Len(Tail(q)) = Len(q) - 1 /\ Len(q) \in Nat \ {0}
      /\ \A i \in 1 .. Len(q) - 1 : Tail(q)[i] = q[i+1]
  BY Left
<1>2. ASSUME EndsUp(q, m)
      PROVE  \/ EndsUp(Tail(q), m)
             \/ Head(q) = Break(m) /\ NeverDown(Tail(q), m)
  <2>1. PICK i \in 1 .. Len(q) :
          q[i] = Break(m) /\ \A j \in i + 1 .. Len(q) : q[j] # Make(m)
    BY <1>2 DEF EndsUp
  <2>2. ASSUME NEW j \in i .. Len(Tail(q)) PROVE Tail(q)[j] # Make(m)
    <3>1. j \in 1 .. Len(q) - 1 /\ j + 1 \in i + 1 .. Len(q)
      BY <1>1, <2>1
    <3> QED
      BY <1>1, <2>1, <3>1
  <2>3. CASE i = 1
    BY <1>1, <2>1, <2>2, <2>3 DEF NeverDown
  <2>4. CASE i # 1
    <3>1. i - 1 \in 1 .. Len(q) - 1 /\ (i - 1) + 1 = i
      BY <1>1, <2>4
    <3>2. Tail(q)[i - 1] = Break(m)
      BY <1>1, <2>1, <3>1
    <3>3. i - 1 \in 1 .. Len(Tail(q))
      BY <1>1, <3>1
    <3> QED
      BY <2>2, <3>1, <3>2, <3>3 DEF EndsUp
  <2> QED
    BY <2>3, <2>4
<1>3. ASSUME NeverDown(q, m)
      PROVE  Head(q) # Make(m) /\ NeverDown(Tail(q), m)
  <2>1. 1 \in 1 .. Len(q) /\ \A i \in 1 .. Len(q) - 1 : i + 1 \in 1 .. Len(q)
    BY <1>1
  <2> QED
    BY <1>1, <1>3, <2>1 DEF NeverDown
<1> QED
  BY <1>2, <1>3

(* What a tick queues.                                                     *)
LEMMA RawKeyIs ==
  ASSUME NEW k \in Keys, NEW up \in BOOLEAN
  PROVE  /\ RawKey(k, up) \in Seq(Code)
         /\ Paired(RawKey(k, up)) /\ ~Headed(RawKey(k, up))
         /\ \A m \in Modifiers : ~(k = m /\ ~up) => NeverDown(RawKey(k, up), m)
         /\ up => EndsUp(RawKey(k, up), k)
<1> DEFINE c == [key |-> k, up |-> up]
<1>1. c \in Code /\ c.key = k /\ (c.up <=> up)
  BY DEF Code
<1>2. c \in ExtMakes => k \in Extended
  BY <1>1 DEF ExtMakes, Make
<1>3. \A m \in Modifiers : ~(k = m /\ ~up) => c # Make(m)
  <2> SUFFICES ASSUME NEW m \in Modifiers, c = Make(m) PROVE k = m /\ ~up
    OBVIOUS
  <2>1. Make(m).key = m /\ ~Make(m).up
    BY DEF Make
  <2> QED
    BY <1>1, <2>1
<1>4. up => c = Break(k)
  BY Zenon DEF Break
<1>5. \A m \in Modifiers : Prefix # Make(m)
  BY KeyCodes
<1> HIDE DEF c
<1>6. CASE k \in Extended
  <2>1. RawKey(k, up) = <<Prefix, c>>
    BY <1>6 DEF RawKey, c
  <2> DEFINE s == <<Prefix, c>>
  <2>2. s \in Seq(Code) /\ Len(s) = 2 /\ s[1] = Prefix /\ s[2] = c
    BY <1>1, KeyCodes
  <2> HIDE DEF s
  <2>3. Paired(s) /\ ~Headed(s)
    BY <2>2, KeyCodes DEF Paired, Headed
  <2>4. \A m \in Modifiers : ~(k = m /\ ~up) => NeverDown(s, m)
    BY <1>3, <1>5, <2>2 DEF NeverDown
  <2>5. up => EndsUp(s, k)
    BY <1>4, <2>2 DEF EndsUp
  <2> QED
    BY <2>1, <2>2, <2>3, <2>4, <2>5 DEF s
<1>7. CASE k \notin Extended
  <2>1. RawKey(k, up) = <<c>>
    BY <1>7 DEF RawKey, c
  <2> DEFINE s == <<c>>
  <2>2. s \in Seq(Code) /\ Len(s) = 1 /\ s[1] = c
    BY <1>1
  <2> HIDE DEF s
  <2>3. Paired(s) /\ ~Headed(s)
    BY <1>2, <1>7, <2>2 DEF Paired, Headed
  <2>4. \A m \in Modifiers : ~(k = m /\ ~up) => NeverDown(s, m)
    BY <1>3, <2>2 DEF NeverDown
  <2>5. up => EndsUp(s, k)
    BY <1>4, <2>2 DEF EndsUp
  <2> QED
    BY <2>1, <2>2, <2>3, <2>4, <2>5 DEF s
<1> QED
  BY <1>6, <1>7

(* The empty sequence.                                                     *)
LEMMA Nothing ==
  /\ <<>> \in Seq(Code) /\ Len(<<>>) = 0 /\ Paired(<<>>) /\ ~Headed(<<>>)
  /\ \A m \in Modifiers : NeverDown(<<>>, m)
  BY EmptySeq DEF Paired, Headed, NeverDown

(* What a tick queues, by the change that it found.                        *)
LEMMA QueuedIs ==
  ASSUME NEW c \in Changes \cup {None}, NEW due \in BOOLEAN,
         due => repeat_code \in Keys \ Modifiers
  PROVE  /\ Queued(c, due) \in Seq(Code)
         /\ Paired(Queued(c, due)) /\ ~Headed(Queued(c, due))
         /\ \A m \in Modifiers :
              /\ ~(c # None /\ c.key = m /\ ~c.up) =>
                   NeverDown(Queued(c, due), m)
              /\ c # None /\ c.key = m /\ c.up => EndsUp(Queued(c, due), m)
<1> DEFINE a == ReportSequence(c)
           b == IF due THEN RawKey(repeat_code, FALSE) ELSE <<>>
<1>1. /\ a \in Seq(Code) /\ Paired(a) /\ ~Headed(a)
      /\ \A m \in Modifiers :
           /\ ~(c # None /\ c.key = m /\ ~c.up) => NeverDown(a, m)
           /\ c # None /\ c.key = m /\ c.up => EndsUp(a, m)
  <2>1. CASE c = None
    BY <2>1, Nothing DEF ReportSequence
  <2>2. CASE c # None
    <3>1. PICK k \in Keys : c = [key |-> k, up |-> k \in prev_report]
      BY <2>2 DEF Changes
    <3> DEFINE up == k \in prev_report
    <3>2. up \in BOOLEAN
      <4>1. CASE k \in prev_report
        BY <4>1, Zenon
      <4>2. CASE k \notin prev_report
        BY <4>2, SMT
      <4> QED
        BY <4>1, <4>2
    <3>3. c = [key |-> k, up |-> up]
      BY <3>1
    <3> HIDE DEF up
    <3>4. c.key = k /\ c.up = up
      BY <3>3
    <3>5. a = RawKey(k, up)
      BY <2>2, <3>4, Zenon DEF ReportSequence
    <3>6. /\ RawKey(k, up) \in Seq(Code)
          /\ Paired(RawKey(k, up)) /\ ~Headed(RawKey(k, up))
          /\ \A m \in Modifiers :
               ~(k = m /\ ~up) => NeverDown(RawKey(k, up), m)
          /\ up => EndsUp(RawKey(k, up), k)
      BY <3>2, RawKeyIs
    <3>7. \A m \in Modifiers :
            /\ ~(c # None /\ c.key = m /\ ~c.up) => NeverDown(a, m)
            /\ c # None /\ c.key = m /\ c.up => EndsUp(a, m)
      BY <2>2, <3>4, <3>5, <3>6
    <3> QED
      BY <3>5, <3>6, <3>7
  <2> QED
    BY <2>1, <2>2
<1>2. /\ b \in Seq(Code) /\ Paired(b) /\ ~Headed(b)
      /\ \A m \in Modifiers : NeverDown(b, m)
  <2>1. CASE due
    BY <2>1, RawKeyIs
  <2>2. CASE ~due
    BY <2>2, Nothing
  <2> QED
    BY <2>1, <2>2
<1>3. Queued(c, due) = a \o b
  BY DEF Queued
<1> HIDE DEF a, b
<1>4. a \o b \in Seq(Code)
  BY <1>1, <1>2, Joined
<1>5. Paired(a \o b) /\ ~Headed(a \o b)
  BY <1>1, <1>2, JoinedPaired
<1>6. \A m \in Modifiers :
        /\ ~(c # None /\ c.key = m /\ ~c.up) => NeverDown(a \o b, m)
        /\ c # None /\ c.key = m /\ c.up => EndsUp(a \o b, m)
  BY <1>1, <1>2, JoinedUp
<1> QED
  BY <1>3, <1>4, <1>5, <1>6

(* The two breaks that the menu leaves behind.                             *)
LEMMA ClosingIs ==
  /\ ClosingBreaks \in Seq(Code)
  /\ Paired(ClosingBreaks) /\ ~Headed(ClosingBreaks)
  /\ \A m \in Modifiers : EndsUp(ClosingBreaks, m)
<1> DEFINE s == ClosingBreaks
<1>1. /\ s \in Seq(Code) /\ Len(s) = 2
      /\ s[1] = Break("ctrl") /\ s[2] = Break("alt")
  BY KeyCodes, KeyboardAssumption DEF ClosingBreaks
<1>2. Break("ctrl") \notin ExtMakes /\ Break("alt") \notin ExtMakes
  BY KeyCodes, KeyboardAssumption
<1>3. Break("alt") # Make("ctrl") /\ Modifiers = {"ctrl", "alt"}
  BY DEF Break, Make, Modifiers
<1> HIDE DEF s
<1>4. Paired(s) /\ ~Headed(s)
  BY <1>1, <1>2 DEF Paired, Headed
<1>5. EndsUp(s, "ctrl")
  BY <1>1, <1>3 DEF EndsUp
<1>6. EndsUp(s, "alt")
  BY <1>1 DEF EndsUp
<1> QED
  BY <1>1, <1>3, <1>4, <1>5, <1>6 DEF s

(* What a tick leaves of the keyboard's report.                            *)
LEMMA CollectIs ==
  ASSUME TypeOK, RepeatInv, NEW c \in Changes \cup {None},
         NEW due \in BOOLEAN, Collect(c, due)
  PROVE  /\ prev_report' \subseteq Keys /\ reports' \in 0 .. MaxReports
         /\ repeat_code' \in Keys \cup {"none"} /\ RepeatInv'
         /\ due => repeat_code \in Keys \ Modifiers
         /\ \A m \in Modifiers \ prev_report' :
              \/ c # None /\ c.key = m /\ c.up
              \/ m \notin prev_report /\ ~(c # None /\ c.key = m /\ ~c.up)
<1>1. /\ c = None \/ (c.key \in Keys /\ c.up \in BOOLEAN)
      /\ prev_report \subseteq Keys /\ reports \in 0 .. MaxReports
      /\ repeat_code \in Keys \cup {"none"} /\ MaxReports \in Nat
  <2>1. ASSUME NEW k \in Keys, c = [key |-> k, up |-> k \in prev_report]
        PROVE  c.key \in Keys /\ c.up \in BOOLEAN
    <3>1. c.key = k /\ c.up = (k \in prev_report)
      BY <2>1, Zenon
    <3>2. (k \in prev_report) \in BOOLEAN
      <4>1. CASE k \in prev_report
        BY <4>1, Zenon
      <4>2. CASE k \notin prev_report
        BY <4>2, SMT
      <4> QED
        BY <4>1, <4>2
    <3> QED
      BY <3>1, <3>2
  <2> QED
    BY <2>1, KeyboardAssumption DEF Changes, TypeOK
<1>2. reports' \in 0 .. MaxReports
  <2>1. CASE c # None \/ due
    BY <1>1, <2>1 DEF Collect
  <2>2. CASE ~(c # None \/ due)
    BY <1>1, <2>2 DEF Collect
  <2> QED
    BY <2>1, <2>2
<1>3. due => repeat_code \in Keys \ Modifiers
  <2> SUFFICES ASSUME due PROVE repeat_code \in Keys \ Modifiers
    OBVIOUS
  <2>1. repeat_code # "none"
    BY DEF Collect, MayRepeat
  <2> QED
    BY <1>1, <2>1 DEF RepeatInv
<1>4. CASE c = None
  <2>1. prev_report' = prev_report /\ RepeatAfter(c) = repeat_code
    BY <1>4 DEF Collect, RepeatAfter
  <2>2. repeat_code' = repeat_code
    BY <2>1 DEF Collect
  <2> QED
    BY <1>1, <1>2, <1>3, <1>4, <2>1, <2>2 DEF RepeatInv
<1>5. CASE c # None /\ c.up
  <2>1. prev_report' = prev_report \ {c.key}
    BY <1>5 DEF Collect
  <2>2. repeat_code' = IF c.key = repeat_code THEN "none" ELSE repeat_code
    BY <1>5 DEF Collect, RepeatAfter
  <2> QED
    BY <1>1, <1>2, <1>3, <1>5, <2>1, <2>2 DEF RepeatInv
<1>6. CASE c # None /\ ~c.up
  <2>1. prev_report' = prev_report \cup {c.key}
    BY <1>6 DEF Collect
  <2>2. repeat_code' = IF c.key \in Modifiers THEN repeat_code ELSE c.key
    BY <1>6 DEF Collect, RepeatAfter
  <2> QED
    BY <1>1, <1>2, <1>3, <1>6, <2>1, <2>2 DEF RepeatInv
<1> QED
  BY <1>1, <1>4, <1>5, <1>6

(* A tick hands over the oldest code or none.                              *)
LEMMA TickKeepsType ==
  ASSUME TypeOK, RepeatInv, NEW c \in Changes \cup {None},
         NEW due \in BOOLEAN, keyboard_tick(c, due), UNCHANGED guestVars,
         menu' \in {"closed", "tick", "take"}
  PROVE  TypeOK'
<1> DEFINE q == AddSequence(keyboard_queue, Queued(c, due))
<1>1. /\ prev_report' \subseteq Keys /\ reports' \in 0 .. MaxReports
      /\ repeat_code' \in Keys \cup {"none"}
      /\ due => repeat_code \in Keys \ Modifiers
  BY CollectIs DEF keyboard_tick
<1>2. q \in Seq(Code) /\ Len(q) <= QueueSize
  BY <1>1, QueuedIs, Added DEF TypeOK
<1>3. excuse' \in BOOLEAN
  BY Zenon DEF keyboard_tick
<1>4. /\ keyboard_queue' \in Seq(Code) /\ Len(keyboard_queue') <= QueueSize
      /\ expired' \in BOOLEAN /\ current_scancode' \in Code \cup {None}
      /\ irr1' \in BOOLEAN /\ ctrl_down' \in BOOLEAN /\ alt_down' \in BOOLEAN
      /\ osd_requested' \in BOOLEAN /\ unread' \in BOOLEAN
  <2>1. CASE HandOver(q)
    <3> HIDE DEF q
    <3>1. /\ Head(q) \in Code /\ Tail(q) \in Seq(Code)
          /\ Len(Tail(q)) <= QueueSize
      BY <1>2, <2>1, Left, KeyboardAssumption DEF HandOver
    <3>2. keyboard_queue' = Tail(q) /\ expired' = FALSE
          /\ handleScancode(Head(q))
      BY <2>1 DEF HandOver
    <3>3. Head(q).up \in BOOLEAN
      BY <3>1 DEF Code
    <3>4. ctrl_down' \in BOOLEAN /\ alt_down' \in BOOLEAN
      BY <3>2, <3>3 DEF handleScancode, Tracks, TypeOK
    <3>5. (irr1 \/ ~active) \in BOOLEAN /\ (~active) \in BOOLEAN
      BY Zenon
    <3>6. /\ current_scancode' \in Code \cup {None} /\ irr1' \in BOOLEAN
          /\ osd_requested' \in BOOLEAN /\ unread' \in BOOLEAN
      <4>1. CASE ctrl_down' /\ alt_down' /\ Head(q) = Make("f1")
        BY <3>2, <4>1 DEF handleScancode, TypeOK
      <4>2. CASE ~(ctrl_down' /\ alt_down' /\ Head(q) = Make("f1"))
        <5>1. /\ current_scancode' = Head(q) /\ irr1' = (irr1 \/ ~active)
              /\ unread' = ~active /\ osd_requested' = osd_requested
          BY <3>2, <4>2, Zenon DEF handleScancode
        <5>2. irr1' \in BOOLEAN /\ unread' \in BOOLEAN
          BY <3>5, <5>1, Zenon
        <5> QED
          BY <3>1, <5>1, <5>2 DEF TypeOK
      <4> QED
        BY <4>1, <4>2
    <3> QED
      BY <3>1, <3>2, <3>4, <3>6
  <2>2. CASE Stay(q)
    BY <1>2, <2>2 DEF Stay, TypeOK
  <2> QED
    BY <2>1, <2>2 DEF keyboard_tick
<1>5. guest' = guest /\ belief' = belief /\ prefixed' = prefixed
  OBVIOUS
<1> QED
  BY <1>1, <1>3, <1>4, <1>5 DEF TypeOK

(* The queue of a tick that loses nothing.                                 *)
LEMMA TickQueue ==
  ASSUME TypeOK, RepeatInv, PrefixInv, ModifierInv, ~excuse,
         NEW c \in Changes \cup {None}, NEW due \in BOOLEAN,
         Collect(c, due), ~Dropped(keyboard_queue, Queued(c, due)),
         NEW q, q = AddSequence(keyboard_queue, Queued(c, due))
  PROVE  /\ q \in Seq(Code) /\ Paired(q)
         /\ Headed(q) => Headed(keyboard_queue)
         /\ ~active => \A m \in Modifiers \ prev_report' :
              \/ EndsUp(q, m)
              \/ /\ NeverDown(q, m)
                 /\ IF unread THEN \/ current_scancode = Break(m)
                                   \/ /\ current_scancode # Make(m)
                                      /\ m \notin belief
                              ELSE m \notin belief
<1> DEFINE s == Queued(c, due)
           k == keyboard_queue
<1>1. /\ due => repeat_code \in Keys \ Modifiers
      /\ \A m \in Modifiers \ prev_report' :
           \/ c # None /\ c.key = m /\ c.up
           \/ m \notin prev_report /\ ~(c # None /\ c.key = m /\ ~c.up)
  BY CollectIs
<1>2. /\ s \in Seq(Code) /\ Paired(s) /\ ~Headed(s)
      /\ \A m \in Modifiers :
           /\ ~(c # None /\ c.key = m /\ ~c.up) => NeverDown(s, m)
           /\ c # None /\ c.key = m /\ c.up => EndsUp(s, m)
  BY <1>1, QueuedIs
<1>3. k \in Seq(Code) /\ Paired(k) /\ Len(k) <= QueueSize
  BY DEF PrefixInv, TypeOK
<1>4. q = k \o s
  BY <1>2, <1>3, Added
<1>5. ASSUME ~active, NEW m \in Modifiers \ prev_report'
      PROVE  \/ EndsUp(q, m)
             \/ /\ NeverDown(q, m)
                /\ IF unread THEN \/ current_scancode = Break(m)
                                  \/ /\ current_scancode # Make(m)
                                     /\ m \notin belief
                             ELSE m \notin belief
  <2> HIDE DEF s
  <2>0. /\ EndsUp(s, m) => EndsUp(k \o s, m)
        /\ EndsUp(k, m) /\ NeverDown(s, m) => EndsUp(k \o s, m)
        /\ NeverDown(k, m) /\ NeverDown(s, m) => NeverDown(k \o s, m)
    BY <1>2, <1>3, JoinedUp
  <2>1. CASE c # None /\ c.key = m /\ c.up
    BY <1>2, <1>4, <2>0, <2>1
  <2>2. CASE m \notin prev_report /\ ~(c # None /\ c.key = m /\ ~c.up)
    <3>1. NeverDown(s, m)
      BY <1>2, <2>2
    <3>2. \/ EndsUp(k, m)
          \/ /\ NeverDown(k, m)
             /\ IF unread THEN \/ current_scancode = Break(m)
                               \/ /\ current_scancode # Make(m)
                                  /\ m \notin belief
                          ELSE m \notin belief
      BY <1>5, <2>2 DEF ModifierInv
    <3> QED
      BY <1>4, <2>0, <3>1, <3>2
  <2> QED
    BY <1>1, <2>1, <2>2
<1>6. q \in Seq(Code) /\ Paired(q) /\ (Headed(q) => Headed(k))
  <2> HIDE DEF s, k
  <2> QED
    BY <1>2, <1>3, <1>4, Joined, JoinedPaired
<1> QED
  BY <1>5, <1>6

(* A tick keeps the invariant.                                             *)
LEMMA TickKeeps ==
  ASSUME IInv, NEW c \in Changes \cup {None}, NEW due \in BOOLEAN,
         keyboard_tick(c, due), UNCHANGED guestVars,
         menu' \in {"closed", "tick", "take"}, active' = active,
         active \/ ~osd_requested
  PROVE  IInv'
<1> DEFINE q == AddSequence(keyboard_queue, Queued(c, due))
<1>0. TypeOK /\ RepeatInv /\ TurnInv /\ PrefixInv /\ ModifierInv
  BY DEF IInv
<1>1. TypeOK'
  BY <1>0, TickKeepsType
<1>2. RepeatInv'
  BY <1>0, CollectIs DEF keyboard_tick
<1>3. ASSUME ~excuse' PROVE TurnInv' /\ PrefixInv' /\ ModifierInv'
  <2>1. ~excuse /\ ~Dropped(keyboard_queue, Queued(c, due))
        /\ ~(expired /\ current_scancode # None /\ q # <<>>)
    BY <1>3 DEF keyboard_tick
  <2>2. /\ q \in Seq(Code) /\ Paired(q)
        /\ Headed(q) => Headed(keyboard_queue)
        /\ ~active => \A m \in Modifiers \ prev_report' :
             \/ EndsUp(q, m)
             \/ /\ NeverDown(q, m)
                /\ IF unread THEN \/ current_scancode = Break(m)
                                  \/ /\ current_scancode # Make(m)
                                     /\ m \notin belief
                             ELSE m \notin belief
    BY <1>0, <2>1, TickQueue DEF keyboard_tick
  <2>3. guest' = guest /\ belief' = belief /\ prefixed' = prefixed
    OBVIOUS
  <2>4. CASE Stay(q)
    <3>1. keyboard_queue' = q /\ osd_requested' = osd_requested
          /\ current_scancode' = current_scancode
          /\ irr1' = irr1 /\ unread' = unread
      BY <2>4 DEF Stay
    <3> HIDE DEF q
    <3>2. TurnInv'
      BY <1>0, <2>1, <2>3, <3>1 DEF TurnInv
    <3>3. PrefixInv'
      BY <1>0, <2>1, <2>2, <2>3, <3>1 DEF PrefixInv
    <3>4. ModifierInv'
      BY <2>2, <2>3, <3>1 DEF ModifierInv
    <3> QED
      BY <3>2, <3>3, <3>4
  <2>5. CASE HandOver(q)
    <3>1. /\ MayHandOver /\ q # <<>> /\ handleScancode(Head(q))
          /\ keyboard_queue' = Tail(q)
      BY <2>5 DEF HandOver
    <3> HIDE DEF q
    <3>2. current_scancode = None
      BY <2>1, <3>1 DEF MayHandOver
    <3>3. ~unread /\ guest = "program" /\ ~irr1
      BY <1>0, <2>1, <3>2 DEF TurnInv, TypeOK
    <3>4. Head(q) \in Code /\ Head(q) = q[1] /\ Tail(q) \in Seq(Code)
      BY <2>2, <3>1, Left
    <3>5. /\ Paired(Tail(q))
          /\ Headed(Tail(q)) => Head(q) = Prefix
      BY <2>2, <3>1, LeftPaired
    <3>6. \A m : /\ EndsUp(q, m) =>
                      \/ EndsUp(Tail(q), m)
                      \/ Head(q) = Break(m) /\ NeverDown(Tail(q), m)
                 /\ NeverDown(q, m) =>
                      Head(q) # Make(m) /\ NeverDown(Tail(q), m)
      BY <2>2, <3>1, LeftUp
    <3>7. Head(q) # None
      BY <3>4, KeyCodes
    <3>8. CASE ctrl_down' /\ alt_down' /\ Head(q) = Make("f1")
      <4>1. osd_requested' = TRUE /\ current_scancode' = current_scancode
            /\ irr1' = irr1 /\ unread' = unread
        BY <3>1, <3>8 DEF handleScancode
      <4>2. \A m \in Modifiers : Head(q) # Break(m)
        BY <3>8 DEF Make, Break
      <4>3. ~Headed(Tail(q))
        BY <3>5, <3>8, KeyCodes, KeyboardAssumption
      <4>4. TurnInv'
        BY <2>3, <3>2, <3>3, <4>1 DEF TurnInv
      <4>5. PrefixInv'
        BY <2>3, <3>1, <3>2, <3>3, <3>5, <4>1, <4>3 DEF PrefixInv
      <4>6. ModifierInv'
        <5> SUFFICES ASSUME ~active', NEW m \in Modifiers \ prev_report'
                     PROVE  \/ EndsUp(Tail(q), m)
                            \/ NeverDown(Tail(q), m) /\ m \notin belief
          BY <2>3, <3>1, <3>3, <4>1 DEF ModifierInv
        <5>1. EndsUp(q, m) \/ (NeverDown(q, m) /\ m \notin belief)
          BY <2>2, <3>3
        <5> QED
          BY <3>6, <4>2, <5>1
      <4> QED
        BY <4>4, <4>5, <4>6
    <3>9. CASE ~(ctrl_down' /\ alt_down' /\ Head(q) = Make("f1"))
      <4>1. /\ current_scancode' = Head(q) /\ irr1' = (irr1 \/ ~active)
            /\ unread' = ~active /\ osd_requested' = osd_requested
        BY <3>1, <3>9, Zenon DEF handleScancode
      <4>2. TurnInv'
        <5>1. unread' => ~active' /\ ~osd_requested'
          BY <4>1, Zenon
        <5>2. irr1' => unread'
          BY <3>3, <4>1, Zenon
        <5> QED
          BY <2>3, <3>3, <3>7, <4>1, <5>1, <5>2 DEF TurnInv
      <4>3. PrefixInv'
        <5>1. unread' /\ current_scancode' \in ExtMakes => prefixed
          <6> SUFFICES ASSUME unread', Head(q) \in ExtMakes PROVE prefixed
            BY <4>1
          <6>1. Headed(keyboard_queue) /\ ~active
            BY <2>2, <3>1, <3>4, <4>1 DEF Headed
          <6> QED
            BY <1>0, <2>1, <3>2, <6>1 DEF PrefixInv
        <5> QED
          BY <2>3, <3>1, <3>3, <3>5, <3>7, <4>1, <5>1 DEF PrefixInv
      <4>4. ModifierInv'
        <5> SUFFICES ASSUME ~active', NEW m \in Modifiers \ prev_report'
                     PROVE  \/ EndsUp(Tail(q), m)
                            \/ /\ NeverDown(Tail(q), m)
                               /\ \/ Head(q) = Break(m)
                                  \/ Head(q) # Make(m) /\ m \notin belief
          BY <2>3, <3>1, <4>1 DEF ModifierInv
        <5>1. EndsUp(q, m) \/ (NeverDown(q, m) /\ m \notin belief)
          BY <2>2, <3>3
        <5> QED
          BY <3>6, <5>1
      <4> QED
        BY <4>2, <4>3, <4>4
    <3> QED
      BY <3>8, <3>9
  <2> QED
    BY <2>4, <2>5 DEF keyboard_tick
<1>4. ASSUME excuse' PROVE TurnInv' /\ PrefixInv' /\ ModifierInv'
  BY <1>4 DEF TurnInv, PrefixInv, ModifierInv
<1> QED
  BY <1>1, <1>2, <1>3, <1>4 DEF IInv

(* The invariant holds at power-on.                                        *)
LEMMA InitKeeps == Init => IInv
<1> SUFFICES ASSUME Init PROVE IInv
  OBVIOUS
<1>1. TypeOK
  <2>1. keyboard_queue \in Seq(Code) /\ Len(keyboard_queue) <= QueueSize
    <3>1. keyboard_queue = <<>>
      BY DEF Init
    <3>2. 0 <= QueueSize
      BY KeyboardAssumption
    <3> QED
      BY <3>1, <3>2, Nothing
  <2>2. reports \in 0 .. MaxReports
    BY KeyboardAssumption DEF Init
  <2> QED
    BY <2>1, <2>2 DEF Init, TypeOK
<1>2. RepeatInv
  BY DEF Init, RepeatInv
<1>3. TurnInv
  BY DEF Init, TurnInv
<1>4. PrefixInv
  BY Nothing DEF Init, PrefixInv
<1>5. ModifierInv
  BY Nothing DEF Init, ModifierInv
<1> QED
  BY <1>1, <1>2, <1>3, <1>4, <1>5 DEF IInv

(* Time, the opening of the menu, and the guest on its way to INT 9.       *)
LEMMA QuietKeeps ==
  ASSUME IInv, Expire \/ OpenMenu \/ TakeIrq
  PROVE  IInv'
<1>0. TypeOK /\ RepeatInv /\ TurnInv /\ PrefixInv /\ ModifierInv
  BY DEF IInv
<1>1. /\ prev_report' = prev_report /\ repeat_code' = repeat_code
      /\ reports' = reports /\ keyboard_queue' = keyboard_queue
      /\ current_scancode' = current_scancode
      /\ ctrl_down' = ctrl_down /\ alt_down' = alt_down
      /\ belief' = belief /\ prefixed' = prefixed
      /\ unread' = unread /\ excuse' = excuse
  BY DEF Expire, OpenMenu, TakeIrq
<1>2. /\ expired' \in BOOLEAN /\ irr1' \in BOOLEAN
      /\ osd_requested' \in BOOLEAN /\ menu' \in {"closed", "tick", "take"}
      /\ guest' \in {"program", "read", "ack"}
  BY <1>0 DEF Expire, OpenMenu, TakeIrq, TypeOK
<1>3. TypeOK' /\ RepeatInv'
  BY <1>0, <1>1, <1>2 DEF TypeOK, RepeatInv
<1>4. TurnInv'
  <2>1. CASE Expire
    BY <1>0, <2>1 DEF Expire, TurnInv
  <2>2. CASE OpenMenu
    BY <1>0, <2>2 DEF OpenMenu, TurnInv
  <2>3. CASE TakeIrq
    BY <1>0, <2>3 DEF TakeIrq, TurnInv
  <2> QED
    BY <2>1, <2>2, <2>3
<1>5. PrefixInv' /\ ModifierInv'
  <2>1. CASE Expire
    BY <1>0, <2>1 DEF Expire, PrefixInv, ModifierInv
  <2>2. CASE OpenMenu
    BY <1>0, <2>2 DEF OpenMenu, PrefixInv, ModifierInv
  <2>3. CASE TakeIrq
    BY <1>0, <2>3 DEF TakeIrq, PrefixInv, ModifierInv
  <2> QED
    BY <2>1, <2>2, <2>3
<1> QED
  BY <1>3, <1>4, <1>5 DEF IInv

(* The menu takes the code; when it closes, the breaks follow the queue.   *)
LEMMA MenuTakeKeeps ==
  ASSUME IInv, MenuTake
  PROVE  IInv'
<1>0. TypeOK /\ RepeatInv /\ TurnInv /\ PrefixInv /\ ModifierInv
  BY DEF IInv
<1>1. /\ prev_report' = prev_report /\ repeat_code' = repeat_code
      /\ reports' = reports /\ irr1' = irr1 /\ osd_requested' = osd_requested
      /\ ctrl_down' = ctrl_down /\ alt_down' = alt_down /\ guest' = guest
      /\ belief' = belief /\ prefixed' = prefixed /\ menu = "take"
      /\ current_scancode' = None /\ expired' = FALSE /\ unread' = FALSE
  BY DEF MenuTake
<1>2. RepeatInv'
  BY <1>0, <1>1 DEF RepeatInv
<1>3. CASE current_scancode = Make("esc")
  <2>1. /\ menu' = "closed"
        /\ keyboard_queue' = AddSequence(keyboard_queue, ClosingBreaks)
        /\ excuse' = (excuse \/ Dropped(keyboard_queue, ClosingBreaks))
    BY <1>3 DEF MenuTake
  <2>2. /\ keyboard_queue \in Seq(Code) /\ Len(keyboard_queue) <= QueueSize
        /\ ClosingBreaks \in Seq(Code)
    BY <1>0, ClosingIs DEF TypeOK
  <2>3. /\ keyboard_queue' \in Seq(Code) /\ Len(keyboard_queue') <= QueueSize
        /\ ~Dropped(keyboard_queue, ClosingBreaks) =>
             keyboard_queue' = keyboard_queue \o ClosingBreaks
    BY <2>1, <2>2, Added
  <2>4. excuse' \in BOOLEAN
    BY <2>1, Zenon
  <2>5. TypeOK'
    BY <1>0, <1>1, <2>1, <2>3, <2>4 DEF TypeOK
  <2>6. ASSUME ~excuse' PROVE TurnInv' /\ PrefixInv' /\ ModifierInv'
    <3>1. ~excuse /\ keyboard_queue' = keyboard_queue \o ClosingBreaks
      BY <2>1, <2>3, <2>6
    <3>2. ~irr1 /\ guest = "program"
      BY <1>0, <1>1, <3>1 DEF TurnInv
    <3>3. Paired(keyboard_queue) /\ ~Headed(keyboard_queue)
      <4>1. Make("esc") # None /\ Make("esc") # Prefix
        BY KeyCodes, KeyboardAssumption
      <4> QED
        BY <1>0, <1>3, <3>1, <4>1 DEF PrefixInv
    <3>4. Paired(keyboard_queue') /\ ~Headed(keyboard_queue')
      BY <2>2, <3>1, <3>3, ClosingIs, JoinedPaired
    <3>5. \A m \in Modifiers : EndsUp(keyboard_queue', m)
      BY <2>2, <3>1, ClosingIs, JoinedUp
    <3>6. TurnInv'
      BY <1>1, <3>2 DEF TurnInv
    <3>7. PrefixInv'
      BY <1>1, <3>2, <3>4 DEF PrefixInv
    <3>8. ModifierInv'
      BY <3>5 DEF ModifierInv
    <3> QED
      BY <3>6, <3>7, <3>8
  <2>7. ASSUME excuse' PROVE TurnInv' /\ PrefixInv' /\ ModifierInv'
    BY <2>7 DEF TurnInv, PrefixInv, ModifierInv
  <2> QED
    BY <1>2, <2>5, <2>6, <2>7 DEF IInv
<1>4. CASE current_scancode # Make("esc")
  <2>1. /\ menu' = "tick" /\ keyboard_queue' = keyboard_queue
        /\ excuse' = excuse
    BY <1>4 DEF MenuTake
  <2>2. TypeOK'
    BY <1>0, <1>1, <2>1 DEF TypeOK
  <2>3. TurnInv'
    BY <1>0, <1>1, <2>1 DEF TurnInv
  <2>4. PrefixInv'
    BY <1>0, <1>1, <2>1 DEF PrefixInv, TurnInv
  <2>5. ModifierInv'
    BY <2>1 DEF ModifierInv
  <2> QED
    BY <1>2, <2>2, <2>3, <2>4, <2>5 DEF IInv
<1> QED
  BY <1>3, <1>4

(* INT 9 reads the code and believes it.                                   *)
LEMMA ReadKeeps ==
  ASSUME IInv, ReadPort60
  PROVE  IInv'
<1>0. TypeOK /\ RepeatInv /\ TurnInv /\ PrefixInv /\ ModifierInv
  BY DEF IInv
<1>1. /\ prev_report' = prev_report /\ repeat_code' = repeat_code
      /\ reports' = reports /\ keyboard_queue' = keyboard_queue
      /\ expired' = expired /\ current_scancode' = current_scancode
      /\ irr1' = irr1 /\ ctrl_down' = ctrl_down /\ alt_down' = alt_down
      /\ osd_requested' = osd_requested /\ menu' = menu /\ excuse' = excuse
      /\ menu = "closed" /\ guest = "read" /\ guest' = "ack" /\ ~unread'
      /\ unread' = FALSE
      /\ prefixed' = (current_scancode = Prefix)
      /\ belief' = Believes(current_scancode)
  BY DEF ReadPort60
<1>2. belief' \subseteq belief \cup {current_scancode.key}
      /\ belief' \subseteq Modifiers
  BY <1>0, <1>1 DEF Believes, TypeOK
<1>3. prefixed' \in BOOLEAN
  BY <1>1, Zenon
<1>4. TypeOK' /\ RepeatInv'
  BY <1>0, <1>1, <1>2, <1>3 DEF TypeOK, RepeatInv
<1>5. ASSUME ~excuse PROVE TurnInv' /\ PrefixInv' /\ ModifierInv'
  <2>1. unread /\ ~irr1 /\ current_scancode # None /\ ~osd_requested
    BY <1>0, <1>1, <1>5 DEF TurnInv
  <2>2. TurnInv'
    BY <1>1, <2>1 DEF TurnInv
  <2>3. prefixed' <=> current_scancode = Prefix
    BY <1>1, Zenon
  <2>4. PrefixInv'
    BY <1>0, <1>1, <1>5, <2>1, <2>3 DEF PrefixInv
  <2>5. current_scancode \in Code
    BY <1>0, <2>1 DEF TypeOK
  <2>6. ASSUME NEW m \in Modifiers,
               \/ current_scancode = Break(m)
               \/ current_scancode # Make(m) /\ m \notin belief
        PROVE  m \notin belief'
    <3>1. CASE current_scancode = Break(m)
      <4>1. current_scancode.key = m /\ current_scancode.up
        BY <3>1 DEF Break
      <4> QED
        BY <1>1, <2>6, <4>1 DEF Believes
    <3>2. CASE current_scancode # Make(m) /\ m \notin belief
      <4>1. ~(current_scancode.key = m /\ ~current_scancode.up)
        BY <2>5, <3>2 DEF Code, Make
      <4> QED
        BY <1>1, <3>2, <4>1 DEF Believes
    <3> QED
      BY <2>6, <3>1, <3>2
  <2>7. ModifierInv'
    BY <1>0, <1>1, <1>5, <2>1, <2>6 DEF ModifierInv
  <2> QED
    BY <2>2, <2>4, <2>7
<1>6. ASSUME excuse PROVE TurnInv' /\ PrefixInv' /\ ModifierInv'
  BY <1>1, <1>6 DEF TurnInv, PrefixInv, ModifierInv
<1> QED
  BY <1>4, <1>5, <1>6 DEF IInv

(* It acknowledges, which empties port 60h.                                *)
LEMMA AcknowledgeKeeps ==
  ASSUME IInv, Acknowledge
  PROVE  IInv'
<1>0. TypeOK /\ RepeatInv /\ TurnInv /\ PrefixInv /\ ModifierInv
  BY DEF IInv
<1>1. /\ prev_report' = prev_report /\ repeat_code' = repeat_code
      /\ reports' = reports /\ keyboard_queue' = keyboard_queue
      /\ irr1' = irr1 /\ ctrl_down' = ctrl_down /\ alt_down' = alt_down
      /\ osd_requested' = osd_requested /\ menu' = menu
      /\ unread' = unread /\ excuse' = excuse /\ belief' = belief
      /\ prefixed' = prefixed /\ menu = "closed"
      /\ guest = "ack" /\ guest' = "program"
      /\ current_scancode' = None /\ expired' = FALSE
  BY DEF Acknowledge
<1>2. TypeOK' /\ RepeatInv'
  BY <1>0, <1>1 DEF TypeOK, RepeatInv
<1>3. TurnInv'
  BY <1>0, <1>1 DEF TurnInv
<1>4. PrefixInv'
  BY <1>0, <1>1 DEF PrefixInv, TurnInv
<1>5. ModifierInv'
  BY <1>0, <1>1 DEF ModifierInv, TurnInv
<1> QED
  BY <1>2, <1>3, <1>4, <1>5 DEF IInv

(* A reset of the keyboard loses what was on its way: an excuse.           *)
LEMMA ResetKeeps ==
  ASSUME IInv, ResetKeyboard
  PROVE  IInv'
<1>1. TypeOK /\ RepeatInv
  BY DEF IInv
<1>2. TypeOK'
  BY <1>1, KeyCodes DEF TypeOK, ResetKeyboard
<1>3. RepeatInv'
  BY <1>1 DEF RepeatInv, ResetKeyboard
<1>4. TurnInv' /\ PrefixInv' /\ ModifierInv'
  BY DEF ResetKeyboard, TurnInv, PrefixInv, ModifierInv
<1> QED
  BY <1>2, <1>3, <1>4 DEF IInv

(* It holds as long as nothing happens.                                    *)
LEMMA StutterKeeps == IInv /\ UNCHANGED vars => IInv'
<1> SUFFICES ASSUME IInv, UNCHANGED vars PROVE IInv'
  OBVIOUS
<1>1. TypeOK' /\ RepeatInv'
  BY DEF IInv, TypeOK, RepeatInv
<1>2. TurnInv' /\ PrefixInv' /\ ModifierInv'
  BY DEF IInv, TurnInv, PrefixInv, ModifierInv
<1> QED
  BY <1>1, <1>2 DEF IInv

(* Every step keeps the invariant.                                         *)
LEMMA NextKeeps == IInv /\ [Next]_vars => IInv'
<1> SUFFICES ASSUME IInv, [Next]_vars PROVE IInv'
  OBVIOUS
<1>1. ASSUME NEW c \in Changes \cup {None}, NEW due \in BOOLEAN,
             MainTick(c, due)
      PROVE  IInv'
  <2>1. /\ ~active /\ ~osd_requested /\ keyboard_tick(c, due)
        /\ UNCHANGED guestVars /\ menu' = menu
    BY <1>1 DEF MainTick
  <2>2. menu \in {"closed", "tick", "take"} /\ active' = active
    BY <2>1 DEF IInv, TypeOK
  <2> QED
    BY <2>1, <2>2, TickKeeps
<1>2. ASSUME NEW c \in Changes \cup {None}, NEW due \in BOOLEAN,
             MenuTick(c, due)
      PROVE  IInv'
  <2>1. /\ menu = "tick" /\ menu' = "take" /\ keyboard_tick(c, due)
        /\ UNCHANGED guestVars
    BY <1>2 DEF MenuTick
  <2>2. active /\ active' = active
    BY <2>1
  <2> QED
    BY <2>1, <2>2, TickKeeps
<1>3. CASE Expire \/ OpenMenu \/ TakeIrq
  BY <1>3, QuietKeeps
<1>4. CASE MenuTake
  BY <1>4, MenuTakeKeeps
<1>5. CASE ReadPort60
  BY <1>5, ReadKeeps
<1>6. CASE Acknowledge
  BY <1>6, AcknowledgeKeeps
<1>7. CASE ResetKeyboard
  BY <1>7, ResetKeeps
<1>8. CASE UNCHANGED vars
  BY <1>8, StutterKeeps
<1> QED
  BY <1>1, <1>2, <1>3, <1>4, <1>5, <1>6, <1>7, <1>8 DEF Next, ATick

(* It holds for good.                                                      *)
LEMMA Invariance == Spec => []IInv
<1>1. Init => IInv
  BY InitKeeps
<1>2. IInv /\ [Next]_vars => IInv'
  BY NextKeeps
<1> QED
  BY <1>1, <1>2, PTL DEF Spec

-----------------------------------------------------------------------------
(* Every variable keeps to its type; the queue never grows past its size   *)
(* (keyboard_add_scancode, hid_app.c 57-64).                               *)
THEOREM TypeCorrect == Spec => []TypeOK
<1>1. IInv => TypeOK
  BY DEF IInv
<1> QED
  BY <1>1, Invariance, PTL

(* The key that repeats is held down: the repeat of typematic_start() is   *)
(* withdrawn with its key (hid_app.c 91-114).                              *)
THEOREM RepeatsWhatIsHeld == Spec => []RepeatOnlyHeld
<1>1. IInv => RepeatOnlyHeld
  BY DEF IInv, RepeatInv, RepeatOnlyHeld
<1> QED
  BY <1>1, Invariance, PTL

(* With all handed over and read, the guest holds no modifier down that is *)
(* up, not after the menu either (osd.c 223-240).                          *)
THEOREM GuestAgrees == Spec => []GuestModifiersAgree
<1>1. IInv => GuestModifiersAgree
  <2> SUFFICES ASSUME IInv, ~active, keyboard_queue = <<>>, ~unread, ~excuse
               PROVE  belief \subseteq prev_report
    BY DEF GuestModifiersAgree
  <2>1. \A m \in Modifiers : ~EndsUp(keyboard_queue, m)
    <3>1. Len(keyboard_queue) = 0
      BY EmptySeq
    <3> QED
      BY <3>1 DEF EndsUp
  <2>2. \A m \in Modifiers \ prev_report : m \notin belief
    BY <2>1 DEF IInv, ModifierInv
  <2> QED
    BY <2>2 DEF IInv, TypeOK
<1> QED
  BY <1>1, Invariance, PTL

(* A code the guest was told of waits for it in port 60h                   *)
(* (hid_app.c 333-370).                                                    *)
THEOREM CodesKept == Spec => CodesReachGuest
<1>1. IInv /\ [Next]_vars =>
        [unread /\ ~excuse' => current_scancode' = current_scancode]_vars
  <2> SUFFICES ASSUME IInv, Next, unread, ~excuse'
               PROVE  current_scancode' = current_scancode
    OBVIOUS
  <2>1. TurnInv
    BY DEF IInv
  <2>2. ASSUME NEW c \in Changes \cup {None}, NEW due \in BOOLEAN,
               keyboard_tick(c, due)
        PROVE  current_scancode' = current_scancode
    <3> DEFINE q == AddSequence(keyboard_queue, Queued(c, due))
    <3>1. ~excuse /\ ~(expired /\ current_scancode # None /\ q # <<>>)
      BY <2>2 DEF keyboard_tick
    <3>2. HandOver(q) \/ Stay(q)
      BY <2>2 DEF keyboard_tick
    <3> HIDE DEF q
    <3>3. current_scancode # None
      BY <2>1, <3>1 DEF TurnInv
    <3>4. ~HandOver(q)
      BY <3>1, <3>3 DEF HandOver, MayHandOver
    <3> QED
      BY <3>2, <3>4 DEF Stay
  <2>3. ASSUME NEW c \in Changes \cup {None}, NEW due \in BOOLEAN,
               ATick(c, due)
        PROVE  current_scancode' = current_scancode
    BY <2>2, <2>3 DEF ATick, MainTick, MenuTick
  <2>4. CASE Expire \/ OpenMenu \/ TakeIrq \/ ReadPort60
    BY <2>4 DEF Expire, OpenMenu, TakeIrq, ReadPort60
  <2>5. ~MenuTake
    <3> SUFFICES ASSUME MenuTake PROVE FALSE
      OBVIOUS
    <3>1. active /\ (excuse => excuse')
      BY DEF MenuTake
    <3> QED
      BY <2>1, <3>1 DEF TurnInv
  <2>6. ~Acknowledge
    <3> SUFFICES ASSUME Acknowledge PROVE FALSE
      OBVIOUS
    <3>1. guest = "ack" /\ excuse' = excuse
      BY DEF Acknowledge
    <3> QED
      BY <2>1, <3>1 DEF TurnInv
  <2>7. ~ResetKeyboard
    BY DEF ResetKeyboard
  <2> QED
    BY <2>3, <2>4, <2>5, <2>6, <2>7 DEF Next
<1> QED
  BY <1>1, Invariance, PTL DEF Spec, CodesReachGuest

(* An extended key reaches the guest behind its prefix                     *)
(* (hid_app.c 340-347).                                                    *)
THEOREM PrefixesKept == Spec => PrefixKept
<1> DEFINE P == guest = "read" /\ guest' = "ack" /\ ~excuse
                /\ current_scancode \in {Make(k) : k \in Extended} => prefixed
<1>1. IInv => [P]_vars
  <2> SUFFICES ASSUME IInv, guest = "read", ~excuse,
                      current_scancode \in ExtMakes
               PROVE  prefixed
    BY DEF ExtMakes
  <2> QED
    BY DEF IInv, TurnInv, PrefixInv
<1> QED
  BY <1>1, Invariance, PTL DEF PrefixKept
=============================================================================
