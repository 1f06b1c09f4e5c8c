--------------------------- MODULE Keyboard_proofs ---------------------------
(* Theorems about Keyboard for every keyboard, every typist and however    *)
(* many codes wait in the controller.                                      *)
EXTENDS Keyboard, SequenceTheorems, TLAPS

-----------------------------------------------------------------------------
(* The codes that keys send.                                               *)

LEMMA Short ==
  ASSUME NEW S
  PROVE  /\ <<>> \in Seq(S)
         /\ \A x \in S : <<x>> \in Seq(S)
         /\ \A x, y \in S : <<x, y>> \in Seq(S)
  OBVIOUS

LEMMA Pairs ==
  ASSUME NEW S, NEW x \in S, NEW y \in S
  PROVE  <<x>> \o <<y>> = <<x, y>>
<1>1. <<x>> \in Seq(S) /\ <<y>> \in Seq(S) /\ <<x, y>> \in Seq(S)
  OBVIOUS
<1>2. /\ Len(<<x>> \o <<y>>) = 2 /\ (<<x>> \o <<y>>)[1] = x
      /\ (<<x>> \o <<y>>)[2] = y /\ <<x>> \o <<y>> \in Seq(S)
  BY <1>1, ConcatProperties
<1> PICK s \in Seq(S) : s = <<x>> \o <<y>>
  BY <1>2
<1> PICK t \in Seq(S) : t = <<x, y>>
  BY <1>1
<1>3. Len(t) = 2 /\ t[1] = x /\ t[2] = y
  OBVIOUS
<1>4. Len(s) = 2 /\ s[1] = x /\ s[2] = y
  BY <1>2
<1>5. \A i \in 1 .. 2 : s[i] = t[i]
  <2>1. \A i \in 1 .. 2 : i = 1 \/ i = 2
    OBVIOUS
  <2> QED BY <1>3, <1>4, <2>1
<1> QED BY <1>3, <1>4, <1>5, SeqEqual

LEMMA CodeTypes ==
  ASSUME NEW c \in Codes \cup {E0}, NEW up \in BOOLEAN
  PROVE  Code(c, up, Nothing) \in Sent
  BY DEF Code, Sent, Scancode

LEMMA KeyCodes ==
  ASSUME NEW k \in Keys
  PROVE  CodeOf[k] \in Codes /\ CodeOf[k] # E0
  BY KeyboardAssumption DEF Codes

LEMMA PrefixTypes ==
  ASSUME NEW k \in Keys, NEW up \in BOOLEAN
  PROVE  Prefix(k) \in Seq(Sent) /\ FakeShift(up) \in Seq(Sent)
<1>1. LSHIFT \in Codes
  BY KeyboardAssumption
<1>2. Code(E0, TRUE, Nothing) \in Sent /\ Code(LSHIFT, up, Nothing) \in Sent
  BY <1>1, CodeTypes
<1> QED BY <1>2, Short, Zenon DEF Prefix, FakeShift

LEMMA FakeTypes ==
  ASSUME NEW k \in Keys
  PROVE  Fakes(k) \subseteq Seq(Sent) /\ Undoes(k) \subseteq Seq(Sent)
<1>1. <<>> \in Seq(Sent)
  OBVIOUS
<1>2. FakeShift(TRUE) \in Seq(Sent) /\ FakeShift(FALSE) \in Seq(Sent)
  BY PrefixTypes, Zenon
<1> QED BY <1>1, <1>2, Zenon DEF Fakes, Undoes

(* The code of a press, with what was meant by it.                         *)
Made(k) == Code(CodeOf[k], FALSE, MeantBy(k))

LEMMA MadeIs ==
  ASSUME NEW k \in Keys
  PROVE  /\ Made(k) \in Sent
         /\ Made(k).scan = [code |-> CodeOf[k], up |-> FALSE]
         /\ Made(k).meant = MeantBy(k)
<1>1. Made(k) = [scan |-> [code |-> CodeOf[k], up |-> FALSE],
                 meant |-> MeantBy(k)]
  BY DEF Made, Code
<1>2. MeantBy(k) \in {Nothing} \cup {<<m>> : m \in Meaning}
  <2>1. CASE k \in CharKeys \ Fakers
    <3>1. [code |-> CodeOf[k], shifted |-> ShiftDown] \in Meaning
      BY <2>1 DEF CharKeys, Meaning, ShiftDown
    <3> QED BY <2>1, <3>1 DEF MeantBy
  <2>2. CASE k \notin CharKeys \ Fakers
    BY <2>2 DEF MeantBy
  <2> QED BY <2>1, <2>2
<1>3. [code |-> CodeOf[k], up |-> FALSE] \in Scancode
  BY KeyCodes DEF Scancode
<1> QED BY <1>1, <1>2, <1>3 DEF Sent

LEMMA SendTypes ==
  ASSUME TypeOK, NEW codes \in Seq(Sent), Send(codes)
  PROVE  queue' = queue \o codes /\ queue' \in Seq(Sent) /\ Len(queue') <= QUEUE
  BY ConcatProperties DEF Send, TypeOK

LEMMA PressSends ==
  ASSUME TypeOK, NEW k \in Keys, Press(k)
  PROVE  \E fake \in Fakes(k) :
           /\ fake \o Prefix(k) \o <<Made(k)>> \in Seq(Sent)
           /\ Send(fake \o Prefix(k) \o <<Made(k)>>)
<1>1. PICK fake \in Fakes(k) : Send(fake \o Prefix(k) \o <<Made(k)>>)
  BY DEF Press, Made
<1>2. fake \in Seq(Sent) /\ Prefix(k) \in Seq(Sent) /\ <<Made(k)>> \in Seq(Sent)
  <2>1. fake \in Seq(Sent)
    BY FakeTypes, Zenon
  <2>2. Prefix(k) \in Seq(Sent)
    BY PrefixTypes, Zenon
  <2>3. Made(k) \in Sent
    BY MadeIs
  <2> QED BY <2>1, <2>2, <2>3, Short, Zenon
<1>3. fake \o Prefix(k) \in Seq(Sent)
  BY <1>2, ConcatProperties
<1>4. fake \o Prefix(k) \o <<Made(k)>> \in Seq(Sent)
  BY <1>2, <1>3, ConcatProperties
<1> QED BY <1>1, <1>4

LEMMA ReleaseSends ==
  ASSUME TypeOK, NEW k \in Keys, Release(k)
  PROVE  \E undo \in Undoes(k) :
           /\ Prefix(k) \o <<Code(CodeOf[k], TRUE, Nothing)>> \o undo \in Seq(Sent)
           /\ Send(Prefix(k) \o <<Code(CodeOf[k], TRUE, Nothing)>> \o undo)
<1>1. PICK undo \in Undoes(k) : Send(Prefix(k) \o <<Code(CodeOf[k], TRUE, Nothing)>> \o undo)
  BY DEF Release
<1>2. /\ undo \in Seq(Sent) /\ Prefix(k) \in Seq(Sent)
      /\ <<Code(CodeOf[k], TRUE, Nothing)>> \in Seq(Sent)
  <2>1. Code(CodeOf[k], TRUE, Nothing) \in Sent
    BY CodeTypes, KeyCodes
  <2>2. undo \in Seq(Sent) /\ Prefix(k) \in Seq(Sent)
    BY FakeTypes, PrefixTypes, Zenon
  <2> QED BY <2>1, <2>2, Short, Zenon
<1>3. Prefix(k) \o <<Code(CodeOf[k], TRUE, Nothing)>> \in Seq(Sent)
  BY <1>2, ConcatProperties
<1>4. Prefix(k) \o <<Code(CodeOf[k], TRUE, Nothing)>> \o undo \in Seq(Sent)
  BY <1>2, <1>3, ConcatProperties
<1> QED BY <1>1, <1>4

LEMMA RepeatSends ==
  ASSUME TypeOK, Repeat
  PROVE  \E k \in latest :
           /\ k \in Keys
           /\ Prefix(k) \o <<Code(CodeOf[k], FALSE, Nothing)>> \in Seq(Sent)
           /\ Send(Prefix(k) \o <<Code(CodeOf[k], FALSE, Nothing)>>)
<1>1. PICK k \in latest : Send(Prefix(k) \o <<Code(CodeOf[k], FALSE, Nothing)>>)
  BY DEF Repeat
<1>2. k \in Keys
  BY DEF TypeOK
<1>3. Code(CodeOf[k], FALSE, Nothing) \in Sent
  BY <1>2, CodeTypes, KeyCodes
<1>4. Prefix(k) \in Seq(Sent) /\ <<Code(CodeOf[k], FALSE, Nothing)>> \in Seq(Sent)
  <2>1. Prefix(k) \in Seq(Sent)
    BY <1>2, PrefixTypes, Zenon
  <2> QED BY <1>3, <2>1, Short, Zenon
<1> QED BY <1>1, <1>2, <1>4, ConcatProperties

-----------------------------------------------------------------------------
(* Types.                                                                  *)

LEMMA GetcharTypes ==
  ASSUME TypeOK, Getchar
  PROVE  TypeOK'
<1> PICK e : e = Head(queue)
  OBVIOUS
<1>1. /\ e \in Sent /\ queue' = Tail(queue) /\ queue' \in Seq(Sent)
      /\ Len(queue') <= QUEUE
  <2>1. queue \in Seq(Sent) /\ queue # <<>> /\ Len(queue) <= QUEUE
    BY DEF Getchar, TypeOK
  <2>2. /\ Tail(queue) \in Seq(Sent) /\ Head(queue) \in Sent
        /\ Len(Tail(queue)) = Len(queue) - 1 /\ Len(queue) \in Nat
    BY <2>1, HeadTailProperties, LenProperties
  <2> QED BY <2>1, <2>2, KeyboardAssumption DEF Getchar
<1>2. e.scan \in Scancode /\ e.meant \in {Nothing} \cup {<<m>> : m \in Meaning}
  BY <1>1 DEF Sent
<1>3. /\ shift_pressed' \in BOOLEAN
      /\ last_scancode' \in {{}} \cup {{scan} : scan \in Scancode}
  BY <1>2 DEF Getchar, ShiftAfter, Scancode, TypeOK
<1>4. answer'.meant \in {Nothing} \cup {<<m>> : m \in Meaning}
  BY <1>2 DEF Getchar
<1>5. answer'.got \in {Nothing} \cup {<<c>> : c \in Char}
  <2>1. CASE GivesChar(e.scan)
    <3>1. e.scan.code \in PlainChars /\ HasEntry(e.scan.code, shift_pressed)
      BY <2>1, KeyboardAssumption DEF GivesChar, HasEntry
    <3>2. [code |-> e.scan.code, shifted |-> shift_pressed] \in Char
      BY <3>1 DEF Char, Meaning, TypeOK
    <3> QED BY <3>2 DEF Getchar
  <2>2. CASE ~GivesChar(e.scan)
    BY <2>2 DEF Getchar
  <2> QED BY <2>1, <2>2
<1> QED BY <1>1, <1>3, <1>4, <1>5 DEF Getchar, TypeOK

LEMMA TypeStep == TypeOK /\ [Next]_vars => TypeOK'
<1> SUFFICES ASSUME TypeOK, [Next]_vars PROVE TypeOK'
  OBVIOUS
<1>1. CASE keyboard_init
  <2>1. <<>> \in Seq(Sent) /\ Len(<<>>) <= QUEUE
    BY KeyboardAssumption
  <2> QED BY <1>1, <2>1 DEF keyboard_init, TypeOK
<1>2. CASE Getchar
  BY <1>2, GetcharTypes
<1>3. CASE Repeat
  BY <1>3, RepeatSends, SendTypes DEF Repeat, TypeOK
<1>4. ASSUME NEW k \in Keys, Press(k) PROVE TypeOK'
  BY <1>4, PressSends, SendTypes DEF Press, TypeOK
<1>5. ASSUME NEW k \in Keys, Release(k) PROVE TypeOK'
  BY <1>5, ReleaseSends, SendTypes DEF Release, TypeOK
<1>6. CASE UNCHANGED vars
  BY <1>6 DEF vars, TypeOK
<1> QED BY <1>1, <1>2, <1>3, <1>4, <1>5, <1>6 DEF Next

LEMMA InitTypes == Init => TypeOK
<1> SUFFICES ASSUME Init PROVE TypeOK
  OBVIOUS
<1>1. <<>> \in Seq(Sent) /\ Len(<<>>) <= QUEUE
  BY KeyboardAssumption
<1>2. answer.got = Nothing /\ answer.meant = Nothing
  BY DEF Init
<1>3. last_scancode \in {{}} \cup {{scan} : scan \in Scancode}
  BY DEF Init
<1>4. /\ habits \in Typists /\ held \subseteq Keys /\ latest \subseteq held
      /\ queue = <<>> /\ ready \in BOOLEAN /\ shift_pressed \in BOOLEAN
  BY DEF Init
<1> QED BY <1>1, <1>2, <1>3, <1>4 DEF TypeOK

(* Every variable keeps its type: what is returned is a character of the   *)
(* map it was looked up in, never a zero.                                  *)
THEOREM TypeCorrect == Spec => []TypeOK
<1> QED BY InitTypes, TypeStep, PTL DEF Spec

-----------------------------------------------------------------------------
(* What the codes that wait will do.  A state of keyboard_getchar is the   *)
(* shift flag and the last code; a code that waits leads from one to the   *)
(* next and gives a character or none.                                     *)

State == [shift : BOOLEAN, last : {{}} \cup {{scan} : scan \in Scancode}]
Now   == [shift |-> shift_pressed, last |-> last_scancode]

After(a, e) ==
  [shift |-> IF e.scan \notin a.last /\ e.scan.code \in ShiftCodes
             THEN ~e.scan.up ELSE a.shift,
   last  |-> {e.scan}]
Gives(a, e) ==
  IF e.scan \notin a.last /\ ~e.scan.up /\ HasEntry(e.scan.code, a.shift)
  THEN <<[code |-> e.scan.code, shifted |-> a.shift]>> ELSE Nothing

(* A careful typist gets what was meant by a code; anyone's press is not   *)
(* taken for the code before it.                                           *)
Heeded(typist, a, e) ==
  /\ Careful(typist) => Gives(a, e) = InMaps(e.meant)
  /\ "twins" \notin typist /\ e.meant # Nothing =>
       /\ e.scan \notin a.last /\ ~e.scan.up /\ e.scan.code \in PlainChars
       /\ e.meant[1].code = e.scan.code

(* The codes of q lead from a to b, and all of them are heeded.            *)
Path(typist, q, a, b, f) ==
  /\ f \in [1 .. Len(q) + 1 -> State]
  /\ f[1] = a /\ f[Len(q) + 1] = b
  /\ \A i \in 1 .. Len(q) :
       f[i + 1] = After(f[i], q[i]) /\ Heeded(typist, f[i], q[i])
Runs(typist, q, a, b) == \E f : Path(typist, q, a, b, f)

LEMMA AfterType ==
  ASSUME NEW a \in State, NEW e \in Sent
  PROVE  After(a, e) \in State
<1>1. e.scan \in Scancode /\ e.scan.up \in BOOLEAN
  BY DEF Sent, Scancode
<1> QED BY <1>1 DEF After, State

LEMMA RunsNothing ==
  ASSUME NEW typist, NEW a \in State
  PROVE  Runs(typist, <<>>, a, a)
<1> PICK f : f = [i \in 1 .. 1 |-> a]
  OBVIOUS
<1>1. Path(typist, <<>>, a, a, f)
  BY DEF Path
<1> QED BY <1>1 DEF Runs

LEMMA RunsOne ==
  ASSUME NEW typist, NEW a \in State, NEW e \in Sent, Heeded(typist, a, e)
  PROVE  Runs(typist, <<e>>, a, After(a, e))
<1> PICK b \in State : b = After(a, e)
  BY AfterType
<1> PICK f : f = [i \in 1 .. 2 |-> IF i = 1 THEN a ELSE b]
  OBVIOUS
<1>1. f \in [1 .. 2 -> State] /\ f[1] = a /\ f[2] = b
  OBVIOUS
<1>2. Len(<<e>>) = 1 /\ <<e>>[1] = e
  OBVIOUS
<1>3. \A i \in 1 .. 1 : f[i + 1] = After(f[i], <<e>>[i])
                        /\ Heeded(typist, f[i], <<e>>[i])
  BY <1>1, <1>2
<1>4. Path(typist, <<e>>, a, b, f)
  BY <1>1, <1>2, <1>3 DEF Path
<1> QED BY <1>4 DEF Runs

LEMMA RunsOn ==
  ASSUME NEW typist, NEW q \in Seq(Sent), NEW r \in Seq(Sent),
         NEW a, NEW b, NEW c, Runs(typist, q, a, b), Runs(typist, r, b, c)
  PROVE  Runs(typist, q \o r, a, c)
<1> PICK f : Path(typist, q, a, b, f)
  BY DEF Runs
<1> PICK g : Path(typist, r, b, c, g)
  BY DEF Runs
<1> PICK m \in Nat : m = Len(q)
  BY LenProperties
<1> PICK n \in Nat : n = Len(r)
  BY LenProperties
<1>1. /\ f \in [1 .. m + 1 -> State] /\ f[1] = a /\ f[m + 1] = b
      /\ \A i \in 1 .. m : f[i + 1] = After(f[i], q[i])
                           /\ Heeded(typist, f[i], q[i])
  BY DEF Path
<1>2. /\ g \in [1 .. n + 1 -> State] /\ g[1] = b /\ g[n + 1] = c
      /\ \A i \in 1 .. n : g[i + 1] = After(g[i], r[i])
                           /\ Heeded(typist, g[i], r[i])
  BY DEF Path
<1>3. /\ Len(q \o r) = m + n
      /\ \A i \in 1 .. m + n : (q \o r)[i] = IF i <= m THEN q[i] ELSE r[i - m]
  BY ConcatProperties
<1> PICK p : p = q \o r
  OBVIOUS
<1> PICK h : h = [i \in 1 .. m + n + 1 |-> IF i <= m THEN f[i] ELSE g[i - m]]
  OBVIOUS
<1>4. h \in [1 .. m + n + 1 -> State]
  BY <1>1, <1>2
<1>5. h[1] = a /\ h[m + n + 1] = c
  BY <1>1, <1>2
<1>6. ASSUME NEW i \in 1 .. m + n
      PROVE  h[i + 1] = After(h[i], p[i]) /\ Heeded(typist, h[i], p[i])
  <2>1. CASE i \in 1 .. m
    <3>1. h[i] = f[i] /\ p[i] = q[i] /\ h[i + 1] = f[i + 1]
      BY <1>1, <1>2, <1>3, <2>1
    <3> QED BY <1>1, <2>1, <3>1
  <2>2. CASE i \notin 1 .. m
    <3>1. /\ i - m \in 1 .. n /\ i - m + 1 = i + 1 - m
          /\ h[i] = g[i - m] /\ p[i] = r[i - m] /\ h[i + 1] = g[i + 1 - m]
      BY <1>3, <2>2
    <3> QED BY <1>2, <3>1
  <2> QED BY <2>1, <2>2
<1>7. Path(typist, p, a, c, h)
  BY <1>3, <1>4, <1>5, <1>6 DEF Path
<1> QED BY <1>7 DEF Runs

LEMMA RunsTaken ==
  ASSUME NEW typist, NEW q \in Seq(Sent), q # <<>>, NEW a, NEW b,
         Runs(typist, q, a, b)
  PROVE  /\ Runs(typist, Tail(q), After(a, Head(q)), b)
         /\ Heeded(typist, a, Head(q))
<1> PICK f : Path(typist, q, a, b, f)
  BY DEF Runs
<1> PICK n \in Nat : Len(q) = n + 1
  <2>1. Len(q) \in Nat /\ Len(q) # 0
    BY LenProperties, EmptySeq
  <2> QED BY <2>1
<1> PICK r : r = Tail(q)
  OBVIOUS
<1>1. /\ Len(r) = n /\ \A i \in 1 .. n : r[i] = q[i + 1]
      /\ Head(q) = q[1]
  BY HeadTailProperties
<1>2. /\ f \in [1 .. n + 2 -> State] /\ f[1] = a /\ f[n + 2] = b
      /\ \A i \in 1 .. n + 1 : f[i + 1] = After(f[i], q[i])
                               /\ Heeded(typist, f[i], q[i])
  BY DEF Path
<1> PICK g : g = [i \in 1 .. n + 1 |-> f[i + 1]]
  OBVIOUS
<1>3. 1 \in 1 .. n + 1 /\ f[2] = After(a, Head(q)) /\ Heeded(typist, a, Head(q))
  BY <1>1, <1>2
<1>4. g \in [1 .. n + 1 -> State] /\ g[1] = f[2] /\ g[n + 1] = b
  BY <1>2
<1>5. \A i \in 1 .. n : g[i + 1] = After(g[i], r[i]) /\ Heeded(typist, g[i], r[i])
  BY <1>1, <1>2
<1>6. Path(typist, r, After(a, Head(q)), b, g)
  BY <1>1, <1>3, <1>4, <1>5 DEF Path
<1> QED BY <1>3, <1>6 DEF Runs

LEMMA RunsEmpty ==
  ASSUME NEW typist, NEW a, NEW b, Runs(typist, <<>>, a, b)
  PROVE  a = b
  BY DEF Runs, Path

-----------------------------------------------------------------------------
(* What one move of a key leads to.                                        *)

LEMMA Quiet ==
  ASSUME NEW typist, NEW a \in State, NEW e \in Sent, e.meant = Nothing,
         e.scan.up \/ e.scan.code \notin PlainChars
  PROVE  Heeded(typist, a, e)
<1>1. Gives(a, e) = Nothing
  BY KeyboardAssumption DEF Gives, HasEntry
<1>2. InMaps(Nothing) = Nothing
  BY DEF InMaps, Nothing
<1> QED BY <1>1, <1>2 DEF Heeded

(* A shift's code that is skipped would have changed nothing.              *)
Coherent(a) == \A last \in a.last : last.code \in ShiftCodes => a.shift = ~last.up

Scan(c, up) == [code |-> c, up |-> up]

LEMMA ScanIs ==
  ASSUME NEW c, NEW up
  PROVE  Scan(c, up).code = c /\ Scan(c, up).up = up
  BY DEF Scan

LEMMA PrefixScan ==
  /\ Scan(E0, TRUE).code = E0 /\ Scan(E0, TRUE).up
  /\ E0 \notin ShiftCodes /\ E0 # LSHIFT
<1>1. Scan(E0, TRUE).code = E0 /\ Scan(E0, TRUE).up = TRUE
  BY ScanIs, Zenon
<1> QED BY <1>1, KeyboardAssumption

Behind(k, a) ==
  [shift |-> a.shift,
   last  |-> IF k \in Prefixed THEN {Scan(E0, TRUE)} ELSE a.last]

LEMMA PrefixRuns ==
  ASSUME NEW typist, NEW k \in Keys, NEW a \in State
  PROVE  Behind(k, a) \in State /\ Runs(typist, Prefix(k), a, Behind(k, a))
<1> PICK e : e = Code(E0, TRUE, Nothing)
  OBVIOUS
<1>1. e \in Sent /\ e.scan = Scan(E0, TRUE) /\ e.meant = Nothing
  <2>1. e \in Sent
    BY CodeTypes
  <2> QED BY <2>1 DEF Code, Scan
<1>2. CASE k \in Prefixed
  <2>1. Prefix(k) = <<e>>
    BY <1>2, Zenon DEF Prefix
  <2>2. Heeded(typist, a, e)
    <3>1. e.scan.up
      BY <1>1, PrefixScan
    <3> QED BY <1>1, <3>1, Quiet
  <2>3. After(a, e) = Behind(k, a)
    BY <1>1, <1>2, PrefixScan DEF After, Behind
  <2>4. After(a, e) \in State
    BY <1>1, AfterType
  <2> QED BY <1>1, <2>1, <2>2, <2>3, <2>4, RunsOne
<1>3. CASE k \notin Prefixed
  <2>1. Prefix(k) = <<>> /\ Behind(k, a) = a
    BY <1>3 DEF Prefix, Behind, State
  <2> QED BY <2>1, RunsNothing
<1> QED BY <1>2, <1>3

Faked(up) == [shift |-> ~up, last |-> {Scan(LSHIFT, up)}]

LEMMA FakeRuns ==
  ASSUME NEW typist, NEW up \in BOOLEAN, NEW a \in State
  PROVE  Faked(up) \in State /\ Runs(typist, FakeShift(up), a, Faked(up))
<1> PICK e : e = Code(E0, TRUE, Nothing)
  OBVIOUS
<1> PICK f : f = Code(LSHIFT, up, Nothing)
  OBVIOUS
<1>1. e \in Sent /\ e.scan = Scan(E0, TRUE) /\ e.meant = Nothing
  <2>1. e \in Sent
    BY CodeTypes
  <2> QED BY <2>1 DEF Code, Scan
<1>2. f \in Sent /\ f.scan = Scan(LSHIFT, up) /\ f.meant = Nothing
  <2>1. f \in Sent
    BY CodeTypes, KeyboardAssumption
  <2> QED BY <2>1 DEF Code, Scan
<1> PICK b \in State : b = After(a, e)
  BY <1>1, AfterType
<1>3. Runs(typist, <<e>>, a, b)
  <2>1. e.scan.up
    BY <1>1, PrefixScan
  <2>2. Heeded(typist, a, e)
    BY <1>1, <2>1, Quiet
  <2> QED BY <1>1, <2>2, RunsOne
<1>4. Heeded(typist, b, f)
  <2>1. f.scan.code \notin PlainChars
    BY <1>2, KeyboardAssumption DEF Scan
  <2> QED BY <1>2, <2>1, Quiet
<1>5. After(b, f) = Faked(up)
  <2>1. f.scan \notin b.last
    <3>1. b.last = {e.scan} /\ e.scan.code = E0
      BY <1>1, PrefixScan DEF After
    <3>2. f.scan.code = LSHIFT
      BY <1>2, ScanIs
    <3> QED BY <3>1, <3>2, PrefixScan
  <2>2. f.scan.code = LSHIFT /\ f.scan.up = up
    BY <1>2, ScanIs
  <2> QED BY <1>2, <2>1, <2>2, KeyboardAssumption DEF After, Faked
<1>6. Runs(typist, <<f>>, b, Faked(up)) /\ Faked(up) \in State
  BY <1>2, <1>4, <1>5, RunsOne, AfterType
<1>7. FakeShift(up) = <<e>> \o <<f>>
  <2>1. FakeShift(up) = <<e, f>>
    BY Zenon DEF FakeShift
  <2>2. <<e>> \o <<f>> = <<e, f>>
    BY <1>1, <1>2, Pairs
  <2> QED BY <2>1, <2>2
<1>8. <<e>> \in Seq(Sent) /\ <<f>> \in Seq(Sent)
  BY <1>1, <1>2, Short, Zenon
<1> QED BY <1>3, <1>6, <1>7, <1>8, RunsOn, Zenon

Reached(k, up, a) ==
  [shift |-> IF k \in ShiftKeys THEN ~up ELSE a.shift,
   last  |-> {Scan(CodeOf[k], up)}]

LEMMA KeyRuns ==
  ASSUME NEW typist, NEW k \in Keys, NEW up \in BOOLEAN, NEW a \in State,
         Coherent(a), NEW e \in Sent, e.scan = Scan(CodeOf[k], up),
         Heeded(typist, Behind(k, a), e)
  PROVE  /\ Reached(k, up, a) \in State
         /\ Runs(typist, Prefix(k) \o <<e>>, a, Reached(k, up, a))
<1> PICK b \in State : b = Behind(k, a)
  BY PrefixRuns
<1>1. Runs(typist, Prefix(k), a, b)
  BY PrefixRuns
<1>2. After(b, e) = Reached(k, up, a)
  <2>1. e.scan.code = CodeOf[k] /\ e.scan.up = up
    BY DEF Scan
  <2>2. b.shift = a.shift
    BY DEF Behind
  <2>3. CASE k \in ShiftKeys
    <3>1. CodeOf[k] \in ShiftCodes /\ b.last = a.last
      BY <2>3, KeyboardAssumption DEF ShiftKeys, Behind
    <3>2. e.scan \in b.last => a.shift = ~up
      BY <2>1, <3>1 DEF Coherent
    <3> QED BY <2>1, <2>2, <2>3, <3>1, <3>2 DEF After, Reached
  <2>4. CASE k \notin ShiftKeys
    <3>1. CodeOf[k] \notin ShiftCodes
      BY <2>4 DEF ShiftKeys
    <3> QED BY <2>1, <2>2, <2>4, <3>1 DEF After, Reached
  <2> QED BY <2>3, <2>4
<1>3. Runs(typist, <<e>>, b, Reached(k, up, a)) /\ Reached(k, up, a) \in State
  BY <1>2, RunsOne, AfterType
<1>4. Prefix(k) \in Seq(Sent) /\ <<e>> \in Seq(Sent)
  <2>1. Prefix(k) \in Seq(Sent)
    BY PrefixTypes, Zenon
  <2> QED BY <2>1, Short, Zenon
<1> QED BY <1>1, <1>3, <1>4, RunsOn, Zenon

-----------------------------------------------------------------------------
(* The inductive invariant: what a typist's habits keep him from, and what *)
(* the codes that wait lead to, which the keys that are down then agree    *)
(* with.                                                                   *)

HabitsInv ==
  /\ ~ready => answer.meant = Nothing
  /\ ~ready /\ "early" \notin habits => held = {}
  /\ "fakes" \notin habits => held \cap Fakers = {}
  /\ "keypad" \notin habits => held \cap CharKeys \cap Prefixed = {}
  /\ "shifts" \notin habits =>
       \A j, k \in held \cap ShiftKeys : j = k
  /\ \A j, k \in latest : j = k

MakesHeld(e) ==
  \A last \in e.last :
    ~last.up /\ last.code \notin ShiftCodes
      => \E k \in held : CodeOf[k] = last.code
ShiftHeld(e) ==
  /\ e.shift => ShiftDown \/ held \cap Fakers # {}
  /\ Careful(habits) => (e.shift <=> ShiftDown)
RepeatSeen(e) ==
  Careful(habits) /\ "repeat" \in habits =>
    \A k \in latest \cap CharKeys : Scan(CodeOf[k], FALSE) \in e.last

EndOK(e) ==
  e \in State /\ Coherent(e) /\ MakesHeld(e) /\ ShiftHeld(e) /\ RepeatSeen(e)

WaitingOK == \E e : Runs(habits, queue, Now, e) /\ EndOK(e)

KInv == TypeOK /\ HabitsInv /\ WaitingOK /\ AnswersMeant /\ NothingLost

LEMMA HabitsStep ==
  ASSUME TypeOK, HabitsInv, [Next]_vars
  PROVE  HabitsInv'
<1>1. CASE keyboard_init
  BY <1>1 DEF keyboard_init, HabitsInv
<1>2. CASE Getchar
  BY <1>2 DEF Getchar, HabitsInv
<1>3. CASE Repeat
  BY <1>3 DEF Repeat, HabitsInv
<1>4. ASSUME NEW k \in Keys, Press(k) PROVE HabitsInv'
  <2>1. /\ held' = held \cup {k} /\ latest' = {k}
        /\ habits' = habits /\ ready' = ready /\ answer' = answer
        /\ ready \/ "early" \in habits
        /\ k \in Fakers => "fakes" \in habits
        /\ k \in CharKeys \cap Prefixed => "keypad" \in habits
        /\ k \in ShiftKeys /\ ShiftDown => "shifts" \in habits
    BY <1>4 DEF Press, Typing
  <2> QED BY <2>1 DEF HabitsInv, ShiftDown
<1>5. ASSUME NEW k \in Keys, Release(k) PROVE HabitsInv'
  <2>1. /\ held' = held \ {k} /\ latest' = latest \ {k}
        /\ habits' = habits /\ ready' = ready /\ answer' = answer
    BY <1>5 DEF Release
  <2> QED BY <2>1 DEF HabitsInv
<1>6. CASE UNCHANGED vars
  BY <1>6 DEF vars, HabitsInv
<1> QED BY <1>1, <1>2, <1>3, <1>4, <1>5, <1>6 DEF Next

(* A key's own code is new to the kernel when no key with it is down.      *)
LEMMA PressIsNew ==
  ASSUME TypeOK, NEW k \in Keys, k \notin ShiftKeys, NEW a \in State,
         MakesHeld(a), \A l \in held : CodeOf[l] # CodeOf[k]
  PROVE  Scan(CodeOf[k], FALSE) \notin Behind(k, a).last
<1> PICK s : s = Scan(CodeOf[k], FALSE)
  OBVIOUS
<1>1. s.code = CodeOf[k] /\ ~s.up
  <2>1. s.code = CodeOf[k] /\ s.up = FALSE
    BY ScanIs, Zenon
  <2> QED BY <2>1
<1>2. s.code \notin ShiftCodes /\ s.code # E0
  BY <1>1, KeyCodes DEF ShiftKeys
<1>3. s \notin a.last
  BY <1>1, <1>2 DEF MakesHeld
<1> QED BY <1>1, <1>2, <1>3, PrefixScan DEF Behind

(* A press is heeded.                                                      *)
LEMMA PressHeeded ==
  ASSUME TypeOK, HabitsInv, NEW k \in Keys, Press(k), NEW a \in State,
         MakesHeld(a), Careful(habits) => (a.shift <=> ShiftDown)
  PROVE  Heeded(habits, Behind(k, a), Made(k))
<1> PICK b \in State : b = Behind(k, a)
  BY PrefixRuns
<1> PICK e \in Sent : e = Made(k)
  BY MadeIs
<1>1. /\ e.scan.code = CodeOf[k] /\ ~e.scan.up /\ e.meant = MeantBy(k)
      /\ e.scan = Scan(CodeOf[k], FALSE)
  <2>1. e.scan = Scan(CodeOf[k], FALSE) /\ e.meant = MeantBy(k)
    BY MadeIs, Zenon DEF Scan
  <2>2. Scan(CodeOf[k], FALSE).code = CodeOf[k] /\ Scan(CodeOf[k], FALSE).up = FALSE
    BY ScanIs, Zenon
  <2> QED BY <2>1, <2>2
<1>2. CASE k \in CharKeys
  <2>1. k \notin ShiftKeys /\ CodeOf[k] \in PlainChars
    BY <1>2, KeyboardAssumption DEF CharKeys, ShiftKeys
  <2>2. "twins" \notin habits => e.scan \notin b.last
    <3> SUFFICES ASSUME "twins" \notin habits PROVE e.scan \notin b.last
      OBVIOUS
    <3>1. \A l \in held : CodeOf[l] # CodeOf[k]
      BY DEF Press
    <3> QED BY <1>1, <2>1, <3>1, PressIsNew
  <2>7. [code |-> CodeOf[k], shifted |-> ShiftDown] \in Meaning
    BY <2>1 DEF Meaning, ShiftDown
  <2> PICK m \in Meaning : m = [code |-> CodeOf[k], shifted |-> ShiftDown]
    BY <2>7, Zenon
  <2>3. m.code = CodeOf[k] /\ (m.shifted <=> ShiftDown)
    OBVIOUS
  <2>4. e.meant # Nothing => e.meant = <<m>>
    BY <1>1 DEF MeantBy
  <2>5. Careful(habits) => Gives(b, e) = InMaps(e.meant)
    <3> SUFFICES ASSUME Careful(habits) PROVE Gives(b, e) = InMaps(e.meant)
      OBVIOUS
    <3>1. "twins" \notin habits /\ k \notin Fakers
      BY DEF Press, Careful
    <3>2. e.meant = <<m>>
      BY <1>1, <1>2, <3>1 DEF MeantBy
    <3>3. b.shift = a.shift /\ a.shift = m.shifted
      <4>1. a.shift \in BOOLEAN /\ m.shifted \in BOOLEAN
        BY DEF State, Meaning
      <4> QED BY <2>3, <4>1 DEF Behind
    <3>4. [code |-> CodeOf[k], shifted |-> b.shift] = m
      BY <3>3, <2>3 DEF Meaning
    <3>5. CASE HasEntry(m.code, m.shifted)
      <4>1. m \in Char
        BY <3>5 DEF Char
      <4>2. InMaps(e.meant) = <<m>>
        BY <3>2, <4>1 DEF InMaps
      <4>3. Gives(b, e) = <<m>>
        BY <1>1, <2>2, <2>3, <3>1, <3>3, <3>4, <3>5 DEF Gives
      <4> QED BY <4>2, <4>3
    <3>6. CASE ~HasEntry(m.code, m.shifted)
      <4>1. m \notin Char
        BY <3>6 DEF Char
      <4>2. InMaps(e.meant) = Nothing
        <5>1. \A n : <<m>> = <<n>> => m = n
          OBVIOUS
        <5> QED BY <3>2, <4>1, <5>1 DEF InMaps
      <4>3. Gives(b, e) = Nothing
        BY <1>1, <2>3, <3>3, <3>6 DEF Gives
      <4> QED BY <4>2, <4>3
    <3> QED BY <3>5, <3>6
  <2>6. e.meant # Nothing => e.meant[1].code = e.scan.code
    BY <1>1, <2>3, <2>4
  <2> QED BY <1>1, <2>1, <2>2, <2>5, <2>6 DEF Heeded
<1>3. CASE k \notin CharKeys
  <2>1. e.meant = Nothing /\ e.scan.code \notin PlainChars
    BY <1>1, <1>3 DEF MeantBy, CharKeys
  <2> QED BY <2>1, Quiet
<1> QED BY <1>2, <1>3

(* What Press, Release and Repeat lead to.                                 *)
Leads(q, a, b) ==
  /\ q \in Seq(Sent) /\ queue' = queue \o q
  /\ Runs(habits, q, a, b)

LEMMA PressLeads ==
  ASSUME TypeOK, HabitsInv, NEW k \in Keys, Press(k), NEW a, EndOK(a)
  PROVE  \E q, b : Leads(q, a, b) /\ EndOK(b)'
<1> a \in State
  BY DEF EndOK
<1> PICK fake \in Fakes(k) :
      /\ fake \o Prefix(k) \o <<Made(k)>> \in Seq(Sent)
      /\ Send(fake \o Prefix(k) \o <<Made(k)>>)
  BY PressSends
<1> PICK e \in Sent : e = Made(k) /\ e.scan = Scan(CodeOf[k], FALSE)
  BY MadeIs, Zenon DEF Scan
<1>1. /\ held' = held \cup {k} /\ latest' = {k} /\ habits' = habits
      /\ k \in Fakers => "fakes" \in habits
  BY DEF Press
<1>2. \E b \in State :
        /\ Runs(habits, fake, a, b)
        /\ Coherent(b) /\ MakesHeld(b)
        /\ k \notin Fakers => b = a
  <2>1. CASE fake = <<>>
    BY <2>1, RunsNothing DEF EndOK
  <2>2. CASE k \in Fakers /\ \E up \in BOOLEAN : fake = FakeShift(up)
    <3> PICK up \in BOOLEAN : fake = FakeShift(up)
      BY <2>2
    <3>1. Faked(up) \in State /\ Runs(habits, fake, a, Faked(up))
      BY FakeRuns
    <3>2. Scan(LSHIFT, up).code = LSHIFT /\ Scan(LSHIFT, up).up = up
      BY ScanIs
    <3>3. Coherent(Faked(up)) /\ MakesHeld(Faked(up))
      BY <3>2, KeyboardAssumption DEF Coherent, MakesHeld, Faked
    <3> QED BY <2>2, <3>1, <3>3
  <2>3. fake # <<>> => k \in Fakers /\ (fake = FakeShift(TRUE) \/ fake = FakeShift(FALSE))
    BY Zenon DEF Fakes
  <2>4. TRUE \in BOOLEAN /\ FALSE \in BOOLEAN
    OBVIOUS
  <2>5. fake # <<>> => k \in Fakers /\ \E up \in BOOLEAN : fake = FakeShift(up)
    BY <2>3, <2>4, Zenon
  <2> QED BY <2>1, <2>2, <2>5
<1> PICK b \in State :
      /\ Runs(habits, fake, a, b)
      /\ Coherent(b) /\ MakesHeld(b)
      /\ k \notin Fakers => b = a
  BY <1>2
<1>3. Careful(habits) => b = a
  BY <1>1 DEF Careful
<1>4. Heeded(habits, Behind(k, b), e)
  <2>1. Careful(habits) => (b.shift <=> ShiftDown)
    BY <1>3 DEF EndOK, ShiftHeld
  <2> QED BY <2>1, PressHeeded
<1> PICK up \in BOOLEAN : up = FALSE
  OBVIOUS
<1> PICK c \in State : c = Reached(k, up, b)
  BY <1>4, KeyRuns
<1>5. Runs(habits, Prefix(k) \o <<e>>, b, c)
  BY <1>4, KeyRuns
<1>6. /\ fake \in Seq(Sent) /\ Prefix(k) \in Seq(Sent) /\ <<e>> \in Seq(Sent)
      /\ Prefix(k) \o <<e>> \in Seq(Sent)
  <2>1. fake \in Seq(Sent)
    BY FakeTypes, Zenon
  <2>2. Prefix(k) \in Seq(Sent)
    BY PrefixTypes, Zenon
  <2>3. <<e>> \in Seq(Sent)
    BY Short, Zenon
  <2> QED BY <2>1, <2>2, <2>3, ConcatProperties
<1>7. Leads(fake \o (Prefix(k) \o <<e>>), a, c)
  <2>1. Runs(habits, fake \o (Prefix(k) \o <<e>>), a, c)
    BY <1>5, <1>6, RunsOn
  <2>2. fake \o Prefix(k) \o <<e>> = fake \o (Prefix(k) \o <<e>>)
    BY <1>6, ConcatAssociative
  <2> QED BY <2>1, <2>2, SendTypes DEF Leads
<1>8. /\ c.last = {Scan(CodeOf[k], FALSE)}
      /\ c.shift = IF k \in ShiftKeys THEN TRUE ELSE b.shift
  BY DEF Reached
<1>9. Scan(CodeOf[k], FALSE).code = CodeOf[k] /\ ~Scan(CodeOf[k], FALSE).up
  <2>1. Scan(CodeOf[k], FALSE).code = CodeOf[k] /\ Scan(CodeOf[k], FALSE).up = FALSE
    BY ScanIs, Zenon
  <2> QED BY <2>1
<1>10. EndOK(c)'
  <2>1. Coherent(c)
    <3>1. CodeOf[k] \in ShiftCodes => k \in ShiftKeys
      BY DEF ShiftKeys
    <3> QED BY <1>8, <1>9, <3>1 DEF Coherent
  <2>2. MakesHeld(c)'
    BY <1>1, <1>8, <1>9 DEF MakesHeld
  <2>3. ShiftHeld(c)'
    <3>1. k \in ShiftKeys => c.shift /\ ShiftDown'
      BY <1>1, <1>8 DEF ShiftDown
    <3>2. k \notin ShiftKeys => c.shift = b.shift /\ (ShiftDown' <=> ShiftDown)
      BY <1>1, <1>8 DEF ShiftDown
    <3>3. k \in Fakers => held' \cap Fakers # {}
      BY <1>1
    <3>4. k \notin Fakers => b = a
      OBVIOUS
    <3>5. held \cap Fakers # {} => held' \cap Fakers # {}
      BY <1>1
    <3> QED BY <1>1, <1>3, <3>1, <3>2, <3>3, <3>4, <3>5 DEF EndOK, ShiftHeld
  <2>4. RepeatSeen(c)'
    BY <1>1, <1>8 DEF RepeatSeen
  <2> QED BY <2>1, <2>2, <2>3, <2>4 DEF EndOK
<1> QED BY <1>7, <1>10

LEMMA ReleaseLeads ==
  ASSUME TypeOK, HabitsInv, NEW k \in Keys, Release(k), NEW a, EndOK(a)
  PROVE  \E q, b : Leads(q, a, b) /\ EndOK(b)'
<1> a \in State
  BY DEF EndOK
<1> PICK e : e = Code(CodeOf[k], TRUE, Nothing)
  OBVIOUS
<1>1. e \in Sent /\ e.scan = Scan(CodeOf[k], TRUE) /\ e.meant = Nothing
  <2>1. e \in Sent
    BY CodeTypes, KeyCodes
  <2> QED BY <2>1 DEF Code, Scan
<1> PICK undo \in Undoes(k) :
      /\ Prefix(k) \o <<e>> \o undo \in Seq(Sent)
      /\ Send(Prefix(k) \o <<e>> \o undo)
  BY ReleaseSends
<1>2. /\ held' = held \ {k} /\ latest' = latest \ {k} /\ habits' = habits
      /\ MayMove(k) /\ k \in held
  BY DEF Release
<1>3. Scan(CodeOf[k], TRUE).code = CodeOf[k] /\ Scan(CodeOf[k], TRUE).up
  <2>1. Scan(CodeOf[k], TRUE).code = CodeOf[k] /\ Scan(CodeOf[k], TRUE).up = TRUE
    BY ScanIs, Zenon
  <2> QED BY <2>1
<1>4. Heeded(habits, Behind(k, a), e)
  <2>1. Behind(k, a) \in State
    BY PrefixRuns
  <2> QED BY <1>1, <1>3, <2>1, Quiet
<1> PICK up \in BOOLEAN : up = TRUE
  OBVIOUS
<1> PICK b \in State : b = Reached(k, up, a)
  BY <1>1, <1>4, KeyRuns DEF EndOK
<1>5. Runs(habits, Prefix(k) \o <<e>>, a, b)
  BY <1>1, <1>4, KeyRuns DEF EndOK
<1>6. /\ b.last = {Scan(CodeOf[k], TRUE)}
      /\ b.shift = IF k \in ShiftKeys THEN FALSE ELSE a.shift
  BY DEF Reached
<1>7. Coherent(b)
  <2>1. CodeOf[k] \in ShiftCodes => k \in ShiftKeys
    BY DEF ShiftKeys
  <2> QED BY <1>3, <1>6, <2>1 DEF Coherent
<1>8. MakesHeld(b)'
  BY <1>3, <1>6 DEF MakesHeld
<1>9. \E c \in State :
        /\ Runs(habits, undo, b, c)
        /\ Coherent(c) /\ MakesHeld(c)'
        /\ k \notin Fakers => c = b
        /\ k \in Fakers /\ ~ShiftDown => ~c.shift
  <2>1. /\ k \notin Fakers => undo = <<>>
        /\ k \in Fakers /\ ~ShiftDown => undo = FakeShift(TRUE)
        /\ undo # <<>> => undo = FakeShift(TRUE) \/ undo = FakeShift(FALSE)
    BY Zenon DEF Undoes
  <2>2. FakeShift(TRUE) # <<>>
    BY DEF FakeShift
  <2>3. CASE undo = <<>>
    BY <1>7, <1>8, <2>1, <2>2, <2>3, RunsNothing
  <2>4. ASSUME NEW v \in BOOLEAN, undo = FakeShift(v), k \in Fakers,
               ~ShiftDown => v
        PROVE  \E c \in State :
                 /\ Runs(habits, undo, b, c)
                 /\ Coherent(c) /\ MakesHeld(c)'
                 /\ k \notin Fakers => c = b
                 /\ k \in Fakers /\ ~ShiftDown => ~c.shift
    <3>1. Faked(v) \in State /\ Runs(habits, undo, b, Faked(v))
      BY <2>4, FakeRuns
    <3>2. Scan(LSHIFT, v).code = LSHIFT /\ Scan(LSHIFT, v).up = v
      BY ScanIs
    <3>3. Coherent(Faked(v)) /\ MakesHeld(Faked(v))'
      BY <3>2, KeyboardAssumption DEF Coherent, MakesHeld, Faked
    <3>4. Faked(v).shift = ~v
      BY DEF Faked
    <3> QED BY <2>4, <3>1, <3>3, <3>4
  <2>5. CASE undo # <<>> /\ ShiftDown
    <3>1. \E v \in BOOLEAN : undo = FakeShift(v)
      <4>1. TRUE \in BOOLEAN /\ FALSE \in BOOLEAN
        OBVIOUS
      <4> QED BY <2>1, <2>5, <4>1, Zenon
    <3> QED BY <2>1, <2>4, <2>5, <3>1
  <2>6. CASE undo # <<>> /\ ~ShiftDown
    <3>1. \E v \in BOOLEAN : v /\ undo = FakeShift(v)
      <4>1. TRUE \in BOOLEAN
        OBVIOUS
      <4> QED BY <2>1, <2>6, <4>1, Zenon
    <3> QED BY <2>1, <2>4, <2>6, <3>1
  <2> QED BY <2>3, <2>5, <2>6
<1> PICK c \in State :
        /\ Runs(habits, undo, b, c)
        /\ Coherent(c) /\ MakesHeld(c)'
        /\ k \notin Fakers => c = b
        /\ k \in Fakers /\ ~ShiftDown => ~c.shift
  BY <1>9
<1>10. Leads(Prefix(k) \o <<e>> \o undo, a, c)
  <2>1. undo \in Seq(Sent) /\ Prefix(k) \o <<e>> \in Seq(Sent)
    <3>1. undo \in Seq(Sent)
      BY FakeTypes, Zenon
    <3>2. Prefix(k) \in Seq(Sent)
      BY PrefixTypes, Zenon
    <3>3. <<e>> \in Seq(Sent)
      BY <1>1, Short, Zenon
    <3> QED BY <3>1, <3>2, <3>3, ConcatProperties
  <2>2. Runs(habits, Prefix(k) \o <<e>> \o undo, a, c)
    BY <1>5, <2>1, RunsOn
  <2> QED BY <2>2, SendTypes DEF Leads
<1>11. ShiftHeld(c)'
  <2>1. CASE k \in ShiftKeys
    <3>1. k \notin Fakers /\ ~c.shift
      BY <1>6, <2>1, KeyboardAssumption
    <3>2. Careful(habits) => ~ShiftDown'
      BY <1>2, <2>1 DEF HabitsInv, Careful, ShiftDown
    <3> QED BY <1>2, <3>1, <3>2 DEF ShiftHeld
  <2>2. CASE k \notin ShiftKeys /\ k \notin Fakers
    <3>1. /\ c.shift = a.shift /\ (ShiftDown' <=> ShiftDown)
          /\ held' \cap Fakers = held \cap Fakers
      BY <1>2, <1>6, <2>2 DEF ShiftDown
    <3> QED BY <1>2, <3>1 DEF ShiftHeld, EndOK
  <2>3. CASE k \in Fakers
    <3>1. k \notin ShiftKeys
      BY <2>3, KeyboardAssumption
    <3>2. ~Careful(habits)
      BY <1>2, <2>3 DEF HabitsInv, Careful
    <3>3. ShiftDown' <=> ShiftDown
      BY <1>2, <3>1 DEF ShiftDown
    <3> QED BY <1>2, <2>3, <3>2, <3>3 DEF ShiftHeld
  <2> QED BY <2>1, <2>2, <2>3
<1>12. RepeatSeen(c)'
  <2> SUFFICES ASSUME Careful(habits), "repeat" \in habits
               PROVE  latest' \cap CharKeys = {}
    BY <1>2 DEF RepeatSeen
  <2>1. ~OtherHeld(k)
    BY <1>2 DEF MayMove, Careful
  <2> QED BY <1>2, <2>1 DEF OtherHeld, TypeOK
<1> QED BY <1>10, <1>11, <1>12 DEF EndOK

LEMMA RepeatLeads ==
  ASSUME TypeOK, HabitsInv, Repeat, NEW a, EndOK(a)
  PROVE  \E q, b : Leads(q, a, b) /\ EndOK(b)'
<1> a \in State
  BY DEF EndOK
<1> PICK k \in latest :
      /\ k \in Keys
      /\ Prefix(k) \o <<Code(CodeOf[k], FALSE, Nothing)>> \in Seq(Sent)
      /\ Send(Prefix(k) \o <<Code(CodeOf[k], FALSE, Nothing)>>)
  BY RepeatSends
<1> PICK e : e = Code(CodeOf[k], FALSE, Nothing)
  OBVIOUS
<1>1. e \in Sent /\ e.scan = Scan(CodeOf[k], FALSE) /\ e.meant = Nothing
  <2>1. e \in Sent
    BY CodeTypes, KeyCodes
  <2> QED BY <2>1 DEF Code, Scan
<1>2. /\ UNCHANGED <<held, latest, habits>> /\ "repeat" \in habits
      /\ k \in held
  BY DEF Repeat, TypeOK
<1>3. Scan(CodeOf[k], FALSE).code = CodeOf[k] /\ ~Scan(CodeOf[k], FALSE).up
  <2>1. Scan(CodeOf[k], FALSE).code = CodeOf[k] /\ Scan(CodeOf[k], FALSE).up = FALSE
    BY ScanIs, Zenon
  <2> QED BY <2>1
<1>4. Heeded(habits, Behind(k, a), e)
  <2>1. Behind(k, a) \in State
    BY PrefixRuns
  <2>2. CASE CodeOf[k] \notin PlainChars
    BY <1>1, <1>3, <2>1, <2>2, Quiet
  <2>3. CASE CodeOf[k] \in PlainChars
    <3>1. Careful(habits) => Gives(Behind(k, a), e) = Nothing
      <4> SUFFICES ASSUME Careful(habits)
                   PROVE  Gives(Behind(k, a), e) = Nothing
        OBVIOUS
      <4>1. k \in CharKeys /\ k \notin Prefixed
        BY <1>2, <2>3 DEF CharKeys, Careful, HabitsInv
      <4>2. e.scan \in a.last
        BY <1>1, <1>2, <4>1 DEF EndOK, RepeatSeen
      <4>3. Behind(k, a).last = a.last
        BY <4>1 DEF Behind
      <4> QED BY <4>2, <4>3 DEF Gives
    <3>2. InMaps(Nothing) = Nothing
      BY DEF InMaps, Nothing
    <3> QED BY <1>1, <3>1, <3>2 DEF Heeded
  <2> QED BY <2>2, <2>3
<1> PICK up \in BOOLEAN : up = FALSE
  OBVIOUS
<1> PICK c \in State : c = Reached(k, up, a)
  BY <1>1, <1>4, KeyRuns DEF EndOK
<1>5. Leads(Prefix(k) \o <<e>>, a, c)
  <2>1. Runs(habits, Prefix(k) \o <<e>>, a, c)
    BY <1>1, <1>4, KeyRuns DEF EndOK
  <2> QED BY <2>1, SendTypes DEF Leads
<1>6. /\ c.last = {Scan(CodeOf[k], FALSE)}
      /\ c.shift = IF k \in ShiftKeys THEN TRUE ELSE a.shift
  BY DEF Reached
<1>7. Coherent(c)
  <2>1. CodeOf[k] \in ShiftCodes => k \in ShiftKeys
    BY DEF ShiftKeys
  <2> QED BY <1>3, <1>6, <2>1 DEF Coherent
<1>8. MakesHeld(c)'
  BY <1>2, <1>3, <1>6 DEF MakesHeld
<1>9. ShiftHeld(c)'
  <2>1. k \in ShiftKeys => c.shift /\ ShiftDown'
    BY <1>2, <1>6 DEF ShiftDown
  <2>2. k \notin ShiftKeys => c.shift = a.shift
    BY <1>6
  <2>3. (ShiftDown' <=> ShiftDown) /\ held' = held /\ habits' = habits
    BY <1>2 DEF ShiftDown
  <2> QED BY <2>1, <2>2, <2>3 DEF ShiftHeld, EndOK
<1>10. RepeatSeen(c)'
  <2>1. \A j \in latest' : j = k
    BY <1>2 DEF HabitsInv
  <2> QED BY <1>6, <2>1 DEF RepeatSeen
<1> QED BY <1>5, <1>7, <1>8, <1>9, <1>10 DEF EndOK

-----------------------------------------------------------------------------
(* The invariant is kept.                                                  *)

LEMMA MoreWaits ==
  ASSUME TypeOK, WaitingOK, UNCHANGED <<habits, shift_pressed, last_scancode>>,
         \A a : EndOK(a) => \E q, b : Leads(q, a, b) /\ EndOK(b)'
  PROVE  WaitingOK'
<1> PICK a : Runs(habits, queue, Now, a) /\ EndOK(a)
  BY DEF WaitingOK
<1> PICK q, b : Leads(q, a, b) /\ EndOK(b)'
  OBVIOUS
<1>1. Runs(habits, queue \o q, Now, b)
  BY RunsOn DEF Leads, TypeOK
<1>2. Runs(habits, queue, Now, b)'
  BY <1>1 DEF Leads, Now
<1> QED BY <1>2 DEF WaitingOK

LEMMA InitWaits ==
  ASSUME NEW e, e = [shift |-> FALSE, last |-> {}],
         Careful(habits) => ~ShiftDown, Careful(habits) => latest = {}
  PROVE  e \in State /\ EndOK(e)
<1>1. e.shift = FALSE /\ e.last = {} /\ e \in State
  <2>1. FALSE \in BOOLEAN
    OBVIOUS
  <2> QED BY <2>1 DEF State
<1>2. Coherent(e) /\ MakesHeld(e) /\ ShiftHeld(e) /\ RepeatSeen(e)
  BY <1>1 DEF Coherent, MakesHeld, ShiftHeld, RepeatSeen
<1> QED BY <1>1, <1>2 DEF EndOK

LEMMA GetcharAnswers ==
  ASSUME TypeOK, WaitingOK, Getchar
  PROVE  WaitingOK' /\ AnswersMeant' /\ NothingLost'
<1> PICK b : Runs(habits, queue, Now, b) /\ EndOK(b)
  BY DEF WaitingOK
<1> PICK e : e = Head(queue)
  OBVIOUS
<1>1. /\ e \in Sent /\ queue \in Seq(Sent) /\ queue # <<>>
      /\ queue' = Tail(queue) /\ UNCHANGED <<habits, held, latest>>
  BY HeadTailProperties DEF Getchar, TypeOK
<1>2. Runs(habits, Tail(queue), After(Now, e), b) /\ Heeded(habits, Now, e)
  BY <1>1, RunsTaken
<1>3. Now' = After(Now, e)
  BY DEF Getchar, Now, After, Seen, ShiftAfter
<1>4. answer' = [got |-> Gives(Now, e), meant |-> e.meant]
  <2>1. GivesChar(e.scan) <=> ~e.scan.up /\ HasEntry(e.scan.code, shift_pressed)
    BY DEF GivesChar
  <2> QED BY <2>1 DEF Getchar, Now, Gives, Seen
<1>5. WaitingOK'
  <2>1. Runs(habits, queue, Now, b)'
    BY <1>1, <1>2, <1>3
  <2>2. EndOK(b)'
    BY <1>1 DEF EndOK, MakesHeld, ShiftHeld, RepeatSeen, ShiftDown
  <2> QED BY <2>1, <2>2 DEF WaitingOK
<1>6. AnswersMeant'
  BY <1>1, <1>2, <1>4 DEF AnswersMeant, Heeded
<1>7. NothingLost'
  <2> SUFFICES ASSUME "twins" \notin habits, e.meant # Nothing, Gives(Now, e) = Nothing
               PROVE  shift_pressed' /\ e.meant[1].code \notin ShiftedChars
    BY <1>1, <1>4 DEF NothingLost
  <2>1. /\ e.scan \notin last_scancode /\ ~e.scan.up
        /\ e.scan.code \in PlainChars /\ e.meant[1].code = e.scan.code
    BY <1>2 DEF Heeded, Now
  <2>2. ~HasEntry(e.scan.code, shift_pressed)
    <3>1. \A x : <<x>> # Nothing
      BY DEF Nothing
    <3> QED BY <2>1, <3>1 DEF Gives, Now
  <2>3. shift_pressed /\ e.scan.code \notin ShiftedChars
    BY <2>1, <2>2 DEF HasEntry
  <2>4. shift_pressed' = shift_pressed
    <3>1. e.scan.code \notin ShiftCodes
      BY <2>1, KeyboardAssumption
    <3> QED BY <3>1 DEF Getchar, ShiftAfter
  <2> QED BY <2>1, <2>3, <2>4
<1> QED BY <1>5, <1>6, <1>7

LEMMA InitK == Init => KInv
<1> SUFFICES ASSUME Init PROVE KInv
  OBVIOUS
<1>1. TypeOK
  BY InitTypes
<1>2. HabitsInv
  BY DEF Init, HabitsInv
<1> PICK e : e = [shift |-> FALSE, last |-> {}]
  OBVIOUS
<1>3. Now = e /\ queue = <<>> /\ held = {} /\ latest = {}
  BY DEF Init, Now
<1>4. e \in State /\ EndOK(e)
  BY <1>3, InitWaits DEF ShiftDown
<1>5. WaitingOK
  BY <1>3, <1>4, RunsNothing DEF WaitingOK
<1>6. AnswersMeant /\ NothingLost
  <2>1. answer.got = Nothing /\ answer.meant = Nothing /\ InMaps(Nothing) = Nothing
    BY DEF Init, InMaps, Nothing
  <2> QED BY <2>1 DEF AnswersMeant, NothingLost
<1> QED BY <1>1, <1>2, <1>5, <1>6 DEF KInv

LEMMA KStep == KInv /\ [Next]_vars => KInv'
<1> SUFFICES ASSUME KInv, [Next]_vars PROVE KInv'
  OBVIOUS
<1>1. TypeOK /\ HabitsInv /\ WaitingOK /\ AnswersMeant /\ NothingLost
  BY DEF KInv
<1>2. TypeOK' /\ HabitsInv'
  BY <1>1, TypeStep, HabitsStep
<1>3. CASE keyboard_init
  <2>1. /\ queue' = <<>> /\ shift_pressed' = FALSE /\ last_scancode' = {}
        /\ ~ready /\ UNCHANGED <<habits, held, latest, answer>>
    BY <1>3 DEF keyboard_init
  <2> PICK e : e = [shift |-> FALSE, last |-> {}]
    OBVIOUS
  <2>2. Careful(habits) => held = {} /\ latest = {}
    BY <1>1, <2>1 DEF HabitsInv, Careful, TypeOK
  <2>3. e \in State /\ EndOK(e)
    BY <2>2, InitWaits DEF ShiftDown
  <2>4. EndOK(e)'
    BY <2>1, <2>3 DEF EndOK, MakesHeld, ShiftHeld, RepeatSeen, ShiftDown
  <2>5. Now' = e
    BY <2>1 DEF Now
  <2>6. WaitingOK'
    BY <2>1, <2>3, <2>4, <2>5, RunsNothing DEF WaitingOK
  <2>7. AnswersMeant' /\ NothingLost'
    BY <1>1, <2>1 DEF HabitsInv, AnswersMeant, NothingLost
  <2> QED BY <1>2, <2>6, <2>7 DEF KInv
<1>4. CASE Getchar
  BY <1>1, <1>2, <1>4, GetcharAnswers DEF KInv
<1>5. CASE Repeat
  <2>1. UNCHANGED <<habits, shift_pressed, last_scancode, answer>>
    BY <1>5 DEF Repeat
  <2>2. WaitingOK'
    BY <1>1, <1>5, <2>1, RepeatLeads, MoreWaits
  <2> QED BY <1>1, <1>2, <2>1, <2>2 DEF KInv, AnswersMeant, NothingLost
<1>6. ASSUME NEW k \in Keys, Press(k) PROVE KInv'
  <2>1. UNCHANGED <<habits, shift_pressed, last_scancode, answer>>
    BY <1>6 DEF Press
  <2>2. WaitingOK'
    BY <1>1, <1>6, <2>1, PressLeads, MoreWaits
  <2> QED BY <1>1, <1>2, <2>1, <2>2 DEF KInv, AnswersMeant, NothingLost
<1>7. ASSUME NEW k \in Keys, Release(k) PROVE KInv'
  <2>1. UNCHANGED <<habits, shift_pressed, last_scancode, answer>>
    BY <1>7 DEF Release
  <2>2. WaitingOK'
    BY <1>1, <1>7, <2>1, ReleaseLeads, MoreWaits
  <2> QED BY <1>1, <1>2, <2>1, <2>2 DEF KInv, AnswersMeant, NothingLost
<1>8. CASE UNCHANGED vars
  <2>1. UNCHANGED <<habits, shift_pressed, last_scancode, answer, queue, held, latest>>
    BY <1>8 DEF vars
  <2>2. WaitingOK'
    BY <1>1, <2>1 DEF WaitingOK, Now, EndOK, MakesHeld, ShiftHeld, RepeatSeen, ShiftDown
  <2> QED BY <1>1, <1>2, <2>1, <2>2 DEF KInv, AnswersMeant, NothingLost
<1> QED BY <1>3, <1>4, <1>5, <1>6, <1>7, <1>8 DEF Next

(* Shift is never left on, whatever the typist does: when no code waits,   *)
(* shift_pressed means that a shift key, or one that fakes it, is down.    *)
THEOREM ShiftCorrect == Spec => []NoStuckShift
<1>1. KInv => NoStuckShift
  <2> SUFFICES ASSUME KInv, queue = <<>>, shift_pressed
               PROVE  ShiftDown \/ held \cap Fakers # {}
    BY DEF NoStuckShift
  <2> PICK e : Runs(habits, queue, Now, e) /\ EndOK(e)
    BY DEF KInv, WaitingOK
  <2>1. e = Now
    BY RunsEmpty
  <2> QED BY <2>1 DEF EndOK, ShiftHeld, Now
<1> QED BY <1>1, InitK, KStep, PTL DEF Spec

(* Short of two keys with one code down at once, no press of a key that    *)
(* has a character is skipped, but the keypad's signs in shift.            *)
THEOREM NothingLostCorrect == Spec => []NothingLost
<1>1. KInv => NothingLost
  BY DEF KInv
<1> QED BY <1>1, InitK, KStep, PTL DEF Spec

(* A careful typist is given exactly what was meant, press by press.       *)
THEOREM MeantCorrect == Spec => []AnswersMeant
<1>1. KInv => AnswersMeant
  BY DEF KInv
<1> QED BY <1>1, InitK, KStep, PTL DEF Spec

=============================================================================
