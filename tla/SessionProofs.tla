----------------------------- MODULE SessionProofs -----------------------------
(* Proofs about the terminal loop (module Session): the transmit queue, what   *)
(* the host makes of what it gets, and what the displays show.                 *)
EXTENDS Session, FiniteSetTheorems, BasicLemmas

-----------------------------------------------------------------------------
(* What Run computes.                                                        *)

\* The states that Run goes through.
IsRun(after, step, start, inputs) ==
  after = [i \in 0..Len(inputs) |->
             IF i = 0 THEN start ELSE step[after[i - 1]][inputs[i]]]

LEMMA RunExists ==
  ASSUME NEW B, NEW inputs \in Seq(B), NEW step, NEW start
  PROVE  \E after : IsRun(after, step, start, inputs)
<1> DEFINE N == {n \in Nat : n <= Len(inputs) =>
                   \E f : f = [i \in 0..n |->
                            IF i = 0 THEN start ELSE step[f[i - 1]][inputs[i]]]}
<1>1. 0 \in N
  <2> DEFINE f == [i \in 0..0 |-> start]
  <2>1. f = [i \in 0..0 |-> IF i = 0 THEN start ELSE step[f[i - 1]][inputs[i]]]
    OBVIOUS
  <2> QED
    BY <2>1
<1>2. ASSUME NEW n \in Nat, n \in N
      PROVE  n + 1 \in N
  <2> SUFFICES ASSUME n + 1 <= Len(inputs)
               PROVE  \E f : f = [i \in 0..(n + 1) |->
                        IF i = 0 THEN start ELSE step[f[i - 1]][inputs[i]]]
    OBVIOUS
  <2>1. PICK f : f = [i \in 0..n |->
                        IF i = 0 THEN start ELSE step[f[i - 1]][inputs[i]]]
    BY <1>2, LenProperties
  <2> DEFINE g == [i \in 0..(n + 1) |->
                     IF i <= n THEN f[i] ELSE step[f[n]][inputs[n + 1]]]
  <2>2. ASSUME NEW i \in 0..(n + 1)
        PROVE  g[i] = IF i = 0 THEN start ELSE step[g[i - 1]][inputs[i]]
    <3>1. CASE i = 0
      BY <3>1, <2>1
    <3>2. CASE i \in 1..n
      <4>1. g[i] = f[i] /\ g[i - 1] = f[i - 1]
        BY <3>2
      <4>2. f[i] = step[f[i - 1]][inputs[i]]
        BY <3>2, <2>1
      <4> HIDE DEF g
      <4> QED
        BY <3>2, <4>1, <4>2
    <3>3. CASE i = n + 1
      <4>1. g[i] = step[f[n]][inputs[n + 1]] /\ g[i - 1] = f[n]
        BY <3>3
      <4> HIDE DEF g
      <4>2. <<>> \in Seq(Byte) /\ \A b \in Byte : <<b>> \in Seq(Byte)
        OBVIOUS
      <4> QED
        BY <3>3, <4>1, <4>2
    <3> QED
      BY <3>1, <3>2, <3>3
  <2>3. g = [i \in 0..(n + 1) |->
               IF i = 0 THEN start ELSE step[g[i - 1]][inputs[i]]]
    <3> HIDE DEF g
    <3>1. g = [i \in 0..(n + 1) |-> g[i]]
      BY DEF g
    <3> QED
      BY <2>2, <3>1
  <2> QED
    BY <2>3
<1>3. Nat \subseteq N
  <2> HIDE DEF N
  <2> QED
    BY <1>1, <1>2, SetInduction
<1>4. QED
  BY <1>3, LenProperties DEF IsRun

LEMMA RunIsLast ==
  ASSUME NEW B, NEW inputs \in Seq(B), NEW step, NEW start
  PROVE  \E after : IsRun(after, step, start, inputs) /\
                    Run(step, start, inputs) = after[Len(inputs)]
<1> DEFINE after == CHOOSE f : IsRun(f, step, start, inputs)
<1>1. IsRun(after, step, start, inputs)
  BY RunExists
<1>2. Run(step, start, inputs) = after[Len(inputs)]
  BY DEF Run, IsRun
<1> QED
  BY <1>1, <1>2

LEMMA RunEmpty ==
  ASSUME NEW step, NEW start
  PROVE  Run(step, start, <<>>) = start
<1>1. <<>> \in Seq({}) /\ Len(<<>>) = 0
  BY EmptySeq
<1>2. PICK after : IsRun(after, step, start, <<>>) /\
                   Run(step, start, <<>>) = after[0]
  BY <1>1, RunIsLast
<1> QED
  BY <1>1, <1>2 DEF IsRun

LEMMA RunAppend ==
  ASSUME NEW B, NEW inputs \in Seq(B), NEW b \in B, NEW step, NEW start
  PROVE  Run(step, start, Append(inputs, b)) = step[Run(step, start, inputs)][b]
<1> DEFINE longer == Append(inputs, b)
           n == Len(inputs)
<1>1. /\ longer \in Seq(B) /\ n \in Nat /\ Len(longer) = n + 1
      /\ longer[n + 1] = b /\ \A i \in 1..n : longer[i] = inputs[i]
  BY AppendProperties, LenProperties
<1>2. PICK f : IsRun(f, step, start, inputs) /\ Run(step, start, inputs) = f[n]
  BY RunIsLast
<1>3. PICK g : IsRun(g, step, start, longer) /\
               Run(step, start, longer) = g[n + 1]
  BY <1>1, RunIsLast
<1> DEFINE N == {i \in Nat : i <= n => g[i] = f[i]}
<1> HIDE DEF n, longer
<1>4. 0 \in N
  BY <1>1, <1>2, <1>3 DEF IsRun, n
<1>5. ASSUME NEW i \in Nat, i \in N
      PROVE  i + 1 \in N
  <2> SUFFICES ASSUME i + 1 <= n PROVE g[i + 1] = f[i + 1]
    OBVIOUS
  <2>1. i + 1 \in 1..n /\ i + 1 \in 0..n /\ i + 1 \in 0..(n + 1)
    BY <1>1
  <2>2. f[i + 1] = step[f[i]][inputs[i + 1]]
    BY SMTT(30), <1>2, <2>1 DEF IsRun, n
  <2>3. g[i + 1] = step[g[i]][longer[i + 1]]
    BY <1>1, <1>3, <2>1 DEF IsRun
  <2> QED
    BY <1>1, <1>5, <2>1, <2>2, <2>3
<1>6. g[n] = f[n]
  <2>1. Nat \subseteq N
    <3> HIDE DEF N
    <3> QED
      BY <1>4, <1>5, SetInduction
  <2> QED
    BY <1>1, <2>1
<1>7. g[n + 1] = step[g[n]][longer[n + 1]]
  BY <1>1, <1>3 DEF IsRun
<1> QED
  BY <1>1, <1>2, <1>3, <1>6, <1>7 DEF longer

LEMMA RunOne ==
  ASSUME NEW step, NEW start, NEW a
  PROVE  Run(step, start, <<a>>) = step[start][a]
<1>1. Append(<<>>, a) = <<a>> /\ <<>> \in Seq({a})
  OBVIOUS
<1>2. Run(step, start, Append(<<>>, a)) = step[Run(step, start, <<>>)][a]
  BY <1>1, RunAppend
<1> QED
  BY <1>1, <1>2, RunEmpty

LEMMA PairAppends ==
  ASSUME NEW a, NEW b
  PROVE  Append(<<a>>, b) = <<a, b>>
<1> DEFINE s == Append(<<a>>, b)
           t == <<a, b>>
<1>1. <<a>> \in Seq({a, b}) /\ t \in Seq({a, b})
  OBVIOUS
<1>2. s \in Seq({a, b}) /\ Len(s) = 2 /\ s[1] = a /\ s[2] = b
  BY <1>1, AppendProperties
<1>3. Len(t) = 2 /\ t[1] = a /\ t[2] = b
  OBVIOUS
<1> HIDE DEF s, t
<1>4. \A i \in 1..2 : s[i] = t[i]
  BY <1>2, <1>3
<1>5. s = t
  BY <1>1, <1>2, <1>3, <1>4, SeqEqual
<1> QED
  BY <1>5 DEF s, t

LEMMA TripleAppends ==
  ASSUME NEW a, NEW b, NEW c
  PROVE  Append(<<a, b>>, c) = <<a, b, c>>
<1> DEFINE s == Append(<<a, b>>, c)
           t == <<a, b, c>>
<1>1. <<a, b>> \in Seq({a, b, c}) /\ t \in Seq({a, b, c})
  OBVIOUS
<1>2. s \in Seq({a, b, c}) /\ Len(s) = 3 /\ s[1] = a /\ s[2] = b /\ s[3] = c
  BY <1>1, AppendProperties
<1>3. Len(t) = 3 /\ t[1] = a /\ t[2] = b /\ t[3] = c
  OBVIOUS
<1> HIDE DEF s, t
<1>4. \A i \in 1..3 : s[i] = t[i]
  BY <1>2, <1>3
<1>5. s = t
  BY <1>1, <1>2, <1>3, <1>4, SeqEqual
<1> QED
  BY <1>5 DEF s, t

LEMMA RunTwo ==
  ASSUME NEW step, NEW start, NEW a, NEW b
  PROVE  Run(step, start, <<a, b>>) = step[step[start][a]][b]
<1> DEFINE one == <<a>>
           two == <<a, b>>
<1>1. one \in Seq({a, b})
  OBVIOUS
<1>2. two = Append(one, b)
  BY PairAppends
<1>3. Run(step, start, one) = step[start][a]
  BY RunOne
<1> HIDE DEF one, two
<1>4. Run(step, start, two) = step[step[start][a]][b]
  BY <1>1, <1>2, <1>3, RunAppend
<1> QED
  BY <1>4 DEF two

LEMMA RunThree ==
  ASSUME NEW step, NEW start, NEW a, NEW b, NEW c
  PROVE  Run(step, start, <<a, b, c>>) = step[step[step[start][a]][b]][c]
<1> DEFINE two == <<a, b>>
           three == <<a, b, c>>
<1>1. two \in Seq({a, b, c})
  OBVIOUS
<1>2. three = Append(two, c)
  BY TripleAppends
<1>3. Run(step, start, two) = step[step[start][a]][b]
  BY RunTwo
<1> HIDE DEF two, three
<1>4. Run(step, start, three) = step[step[step[start][a]][b]][c]
  BY <1>1, <1>2, <1>3, RunAppend
<1> QED
  BY <1>4 DEF three

\* What every step from a set keeps in it, a run from the set keeps in it.
LEMMA RunStays ==
  ASSUME NEW B, NEW I, NEW step, NEW start \in I,
         \A d \in I, b \in B : step[d][b] \in I
  PROVE  \A inputs \in Seq(B) : Run(step, start, inputs) \in I
<1> DEFINE S == {s \in Seq(B) : Run(step, start, s) \in I}
<1>1. <<>> \in S
  BY RunEmpty, EmptySeq
<1>2. ASSUME NEW s \in Seq(B), NEW b \in B, s \in S
      PROVE  Append(s, b) \in S
  BY <1>2, RunAppend, AppendProperties
<1> HIDE DEF S
<1>3. Seq(B) \subseteq S
  BY <1>1, <1>2, SeqInduction
<1> QED
  BY <1>3 DEF S

\* A run over two sequences is one over the second, from where the first ends.
LEMMA RunConcat ==
  ASSUME NEW B, NEW s \in Seq(B), NEW step, NEW start
  PROVE  \A t \in Seq(B) :
           Run(step, start, s \o t) = Run(step, Run(step, start, s), t)
<1> DEFINE S == {t \in Seq(B) :
                   Run(step, start, s \o t) = Run(step, Run(step, start, s), t)}
<1>1. <<>> \in S
  BY RunEmpty, EmptySeq, ConcatEmptySeq
<1>2. ASSUME NEW t \in Seq(B), NEW b \in B, t \in S
      PROVE  Append(t, b) \in S
  <2>1. s \o Append(t, b) = Append(s \o t, b)
    OBVIOUS
  <2>2. s \o t \in Seq(B) /\ Append(t, b) \in Seq(B)
    OBVIOUS
  <2>3. Run(step, start, Append(s \o t, b)) = step[Run(step, start, s \o t)][b]
    BY <2>2, RunAppend
  <2>4. Run(step, Run(step, start, s), Append(t, b))
          = step[Run(step, Run(step, start, s), t)][b]
    BY RunAppend
  <2> QED
    BY <1>2, <2>1, <2>2, <2>3, <2>4
<1> HIDE DEF S
<1>3. Seq(B) \subseteq S
  BY <1>1, <1>2, SeqInduction
<1> QED
  BY <1>3 DEF S

LEMMA RunConcatTwice ==
  ASSUME NEW B, NEW s \in Seq(B), NEW t \in Seq(B), NEW u \in Seq(B),
         NEW step, NEW start
  PROVE  Run(step, start, (s \o t) \o u)
           = Run(step, Run(step, Run(step, start, s), t), u)
<1> DEFINE st == s \o t
<1>1. st \in Seq(B) /\ Run(step, start, st) = Run(step, Run(step, start, s), t)
  BY RunConcat, ConcatProperties
<1> HIDE DEF st
<1>2. Run(step, start, st \o u) = Run(step, Run(step, start, st), u)
  BY <1>1, RunConcat
<1> QED
  BY <1>1, <1>2 DEF st

-----------------------------------------------------------------------------
(* What the host makes of the bytes it gets.                                 *)

LEMMA HostSteps ==
  ASSUME NEW d \in Decoder, NEW b \in Byte
  PROVE  /\ HostStep[d][b] \in Decoder
         /\ HostStep[d][b].at = HostGoes(d.at, b)
         /\ HostStep[d][b].verb = IF d.at = "iac" /\ b \in Verb THEN b ELSE d.verb
         /\ HostStep[d][b].data = IF IsData(d.at, b) THEN Append(d.data, b)
                                  ELSE d.data
         /\ HostStep[d][b].options = IF d.at = "option"
                                     THEN Append(d.options, Option(d.verb, b))
                                     ELSE d.options
<1>1. HostGoes(d.at, b) \in {"data", "iac", "option", "suboption", "sub",
                             "subiac", "error"}
  BY DEF HostGoes, Decoder
<1>2. /\ d.verb \in Verb /\ d.data \in Seq(Byte) /\ d.options \in Seq(OptionMessage)
      /\ Append(d.data, b) \in Seq(Byte)
      /\ Append(d.options, Option(d.verb, b)) \in Seq(OptionMessage)
  BY DEF Decoder, Option, OptionMessage
<1>3. HostStep[d][b] =
        [at      |-> HostGoes(d.at, b),
         verb    |-> IF d.at = "iac" /\ b \in Verb THEN b ELSE d.verb,
         data    |-> IF IsData(d.at, b) THEN Append(d.data, b) ELSE d.data,
         options |-> IF d.at = "option" THEN Append(d.options, Option(d.verb, b))
                     ELSE d.options]
  BY DEF HostStep
<1> QED
  BY <1>1, <1>2, <1>3 DEF Decoder

\* Data and commands are only added, and there is no way back from an error.
LEMMA HostOnlyAdds ==
  ASSUME NEW d \in Decoder, NEW bytes \in Seq(Byte)
  PROVE  /\ Run(HostStep, d, bytes) \in Decoder
         /\ IsPrefix(d.data, Run(HostStep, d, bytes).data)
         /\ IsPrefix(d.options, Run(HostStep, d, bytes).options)
         /\ d.at = "error" => Run(HostStep, d, bytes).at = "error"
<1> DEFINE I == {e \in Decoder : /\ IsPrefix(d.data, e.data)
                                 /\ IsPrefix(d.options, e.options)
                                 /\ d.at = "error" => e.at = "error"}
<1>1. d \in I
  BY DEF IsPrefix, Decoder
<1>2. ASSUME NEW e \in I, NEW b \in Byte
      PROVE  HostStep[e][b] \in I
  <2>1. e.data \in Seq(Byte) /\ d.data \in Seq(Byte)
    BY DEF Decoder
  <2>2. IsPrefix(d.data, Append(e.data, b))
    BY <2>1 DEF IsPrefix
  <2>3. /\ e.options \in Seq(OptionMessage) /\ d.options \in Seq(OptionMessage)
        /\ Option(e.verb, b) \in OptionMessage
    BY DEF Decoder, Option, OptionMessage
  <2>4. IsPrefix(d.options, Append(e.options, Option(e.verb, b)))
    BY <2>3 DEF IsPrefix
  <2> QED
    BY <2>2, <2>4, HostSteps DEF HostGoes
<1>3. Run(HostStep, d, bytes) \in I
  <2> HIDE DEF I
  <2> QED
    BY <1>1, <1>2, RunStays
<1> QED
  BY <1>3

\* A byte sent by telnet_send_byte is one byte of data to the host.
LEMMA HostTakesByte ==
  ASSUME NEW d \in Decoder, d.at = "data", NEW b \in Byte
  PROVE  /\ SendByte(b) \in Seq(Byte)
         /\ Run(HostStep, d, SendByte(b)).at = "data"
         /\ Run(HostStep, d, SendByte(b)).data = Append(d.data, b)
         /\ Run(HostStep, d, SendByte(b)).options = d.options
<1>1. CASE b # IAC
  <2>1. SendByte(b) = <<b>> /\ HostGoes(d.at, b) = "data" /\ IsData(d.at, b)
    BY <1>1 DEF SendByte, HostGoes, IsData
  <2>2. Run(HostStep, d, SendByte(b)) = HostStep[d][b]
    BY <2>1, RunOne
  <2>3. SendByte(b) \in Seq(Byte)
    BY <2>1
  <2> QED
    BY <2>1, <2>2, <2>3, HostSteps
<1>2. CASE b = IAC
  <2> DEFINE e == HostStep[d][IAC]
  <2>1. SendByte(b) = <<IAC, IAC>> /\ IAC \in Byte
    BY <1>2 DEF SendByte, IAC, Byte
  <2>2. e \in Decoder /\ e.at = "iac" /\ e.data = d.data
        /\ e.options = d.options
    BY <2>1, HostSteps DEF HostGoes, IsData
  <2>3. Run(HostStep, d, <<IAC, IAC>>) = HostStep[e][IAC]
    BY RunTwo
  <2> HIDE DEF e
  <2>4. HostStep[e][IAC].at = "data" /\ HostStep[e][IAC].data = Append(e.data, IAC)
        /\ HostStep[e][IAC].options = e.options
    BY <2>1, <2>2, HostSteps DEF HostGoes, IsData
  <2> QED
    BY <1>2, <2>1, <2>2, <2>3, <2>4
<1> QED
  BY <1>1, <1>2

\* What the host takes for some commands about options, and not for data.
Says(options) == {m \in Seq(Byte) : \A d \in Decoder : d.at = "data" =>
                    /\ Run(HostStep, d, m).at = "data"
                    /\ Run(HostStep, d, m).data = d.data
                    /\ Run(HostStep, d, m).options = d.options \o options}

LEMMA CommandIsSeen ==
  ASSUME NEW verb \in Verb, NEW option \in Byte
  PROVE  SendCommand(verb, option) \in Says(<<Option(verb, option)>>)
<1>1. SendCommand(verb, option) = <<IAC, verb, option>> /\ IAC \in Byte
      /\ verb \in Byte /\ verb # IAC /\ verb # SB
  BY DEF SendCommand, IAC, SB, Byte, Verb, DO, DONT, WILL, WONT
<1>2. Option(verb, option) \in OptionMessage
  BY DEF Option, OptionMessage
<1>3. ASSUME NEW d \in Decoder, d.at = "data"
      PROVE  /\ Run(HostStep, d, SendCommand(verb, option)).at = "data"
             /\ Run(HostStep, d, SendCommand(verb, option)).data = d.data
             /\ Run(HostStep, d, SendCommand(verb, option)).options
                  = d.options \o <<Option(verb, option)>>
  <2> DEFINE e == HostStep[d][IAC]
             f == HostStep[e][verb]
  <2>1. e \in Decoder /\ e.at = "iac" /\ e.data = d.data /\ e.options = d.options
    BY <1>1, <1>3, HostSteps DEF HostGoes, IsData
  <2>2. Run(HostStep, d, <<IAC, verb, option>>) = HostStep[f][option]
    BY RunThree
  <2> HIDE DEF e
  <2>3. /\ f \in Decoder /\ f.at = "option" /\ f.verb = verb
        /\ f.data = e.data /\ f.options = e.options
    BY <1>1, <2>1, HostSteps DEF HostGoes, IsData
  <2> HIDE DEF f
  <2>4. /\ HostStep[f][option].at = "data" /\ HostStep[f][option].data = f.data
        /\ HostStep[f][option].options = Append(f.options, Option(verb, option))
    BY <2>3, HostSteps DEF HostGoes, IsData
  <2>5. Append(d.options, Option(verb, option)) = d.options \o <<Option(verb, option)>>
    BY <1>2, AppendIsConcat DEF Decoder
  <2> QED
    BY <1>1, <2>1, <2>2, <2>3, <2>4, <2>5
<1>4. SendCommand(verb, option) \in Seq(Byte)
  BY <1>1
<1> QED
  BY <1>3, <1>4 DEF Says

LEMMA SaysNothing ==
  ASSUME NEW m \in Seq(Byte),
         \A d \in Decoder : d.at = "data" => /\ Run(HostStep, d, m).at = "data"
                                             /\ Run(HostStep, d, m).data = d.data
                                             /\ Run(HostStep, d, m).options = d.options
  PROVE  m \in Says(<<>>)
<1>1. \A d \in Decoder : d.options \o <<>> = d.options
  BY ConcatEmptySeq DEF Decoder
<1> QED
  BY <1>1 DEF Says

\* The host passes over a subnegotiation: what begins it, ...
LEMMA HostEntersSub ==
  ASSUME NEW d \in Decoder, d.at = "data", NEW option \in Byte
  PROVE  /\ <<IAC, SB, option>> \in Seq(Byte)
         /\ Run(HostStep, d, <<IAC, SB, option>>) \in Decoder
         /\ Run(HostStep, d, <<IAC, SB, option>>).at = "sub"
         /\ Run(HostStep, d, <<IAC, SB, option>>).data = d.data
         /\ Run(HostStep, d, <<IAC, SB, option>>).options = d.options
<1> DEFINE e == HostStep[d][IAC]
           f == HostStep[e][SB]
<1>1. IAC \in Byte /\ SB \in Byte /\ SB # IAC
  BY DEF IAC, SB, Byte
<1>2. e \in Decoder /\ e.at = "iac" /\ e.data = d.data /\ e.options = d.options
  BY <1>1, HostSteps DEF HostGoes, IsData
<1>3. Run(HostStep, d, <<IAC, SB, option>>) = HostStep[f][option]
  BY RunThree
<1> HIDE DEF e
<1>4. f \in Decoder /\ f.at = "suboption" /\ f.data = e.data /\ f.options = e.options
  BY <1>1, <1>2, HostSteps DEF HostGoes, IsData
<1> HIDE DEF f
<1>5. HostStep[f][option] \in Decoder /\ HostStep[f][option].at = "sub"
      /\ HostStep[f][option].data = f.data /\ HostStep[f][option].options = f.options
  BY <1>4, HostSteps DEF HostGoes, IsData
<1> QED
  BY <1>1, <1>2, <1>3, <1>4, <1>5

\* ... its parameters, one of them escaped or not, ...
LEMMA HostPassesParameter ==
  ASSUME NEW d \in Decoder, d.at = "sub", NEW b \in Byte
  PROVE  /\ SendByte(b) \in Seq(Byte)
         /\ Run(HostStep, d, SendByte(b)) \in Decoder
         /\ Run(HostStep, d, SendByte(b)).at = "sub"
         /\ Run(HostStep, d, SendByte(b)).data = d.data
         /\ Run(HostStep, d, SendByte(b)).options = d.options
<1>1. CASE b # IAC
  <2>1. SendByte(b) = <<b>> /\ HostGoes(d.at, b) = "sub" /\ ~IsData(d.at, b)
    BY <1>1 DEF SendByte, HostGoes, IsData
  <2>2. Run(HostStep, d, SendByte(b)) = HostStep[d][b]
    BY <2>1, RunOne
  <2>3. SendByte(b) \in Seq(Byte)
    BY <2>1
  <2> QED
    BY <2>1, <2>2, <2>3, HostSteps
<1>2. CASE b = IAC
  <2> DEFINE e == HostStep[d][IAC]
  <2>1. SendByte(b) = <<IAC, IAC>> /\ IAC \in Byte
    BY <1>2 DEF SendByte, IAC, Byte
  <2>2. e \in Decoder /\ e.at = "subiac" /\ e.data = d.data /\ e.options = d.options
    BY <2>1, HostSteps DEF HostGoes, IsData
  <2>3. Run(HostStep, d, <<IAC, IAC>>) = HostStep[e][IAC]
    BY RunTwo
  <2> HIDE DEF e
  <2>4. HostStep[e][IAC] \in Decoder /\ HostStep[e][IAC].at = "sub"
        /\ HostStep[e][IAC].data = e.data /\ HostStep[e][IAC].options = e.options
    BY <2>1, <2>2, HostSteps DEF HostGoes, IsData
  <2> QED
    BY <1>2, <2>1, <2>2, <2>3, <2>4
<1> QED
  BY <1>1, <1>2

\* ... and what ends it.
LEMMA HostLeavesSub ==
  ASSUME NEW d \in Decoder, d.at = "sub"
  PROVE  /\ <<IAC, SE>> \in Seq(Byte)
         /\ Run(HostStep, d, <<IAC, SE>>).at = "data"
         /\ Run(HostStep, d, <<IAC, SE>>).data = d.data
         /\ Run(HostStep, d, <<IAC, SE>>).options = d.options
<1> DEFINE e == HostStep[d][IAC]
<1>1. IAC \in Byte /\ SE \in Byte /\ SE # IAC
  BY DEF IAC, SE, Byte
<1>2. e \in Decoder /\ e.at = "subiac" /\ e.data = d.data /\ e.options = d.options
  BY <1>1, HostSteps DEF HostGoes, IsData
<1>3. Run(HostStep, d, <<IAC, SE>>) = HostStep[e][SE]
  BY RunTwo
<1> HIDE DEF e
<1>4. /\ HostStep[e][SE].at = "data" /\ HostStep[e][SE].data = e.data
      /\ HostStep[e][SE].options = e.options
  BY <1>1, <1>2, HostSteps DEF HostGoes, IsData
<1> QED
  BY <1>1, <1>2, <1>3, <1>4

LEMMA WindowSizeSaysNothing == WindowSize \in Says(<<>>)
<1> DEFINE head == <<IAC, SB, NAWS>>
           size == <<0, 80, 0>>
           rest == <<25>>
           tail == <<IAC, SE>>
<1>1. WindowSize = ((head \o size) \o rest) \o tail
  BY DEF WindowSize, IAC, SB, NAWS, SE
<1>2. /\ head \in Seq(Byte) /\ size \in Seq(Byte) /\ rest \in Seq(Byte)
      /\ tail \in Seq(Byte) /\ NAWS \in Byte
      /\ 0 \in Byte /\ 80 \in Byte /\ 25 \in Byte
      /\ 0 # IAC /\ 80 # IAC /\ 25 # IAC
  BY DEF IAC, SB, NAWS, SE, Byte
<1>3. ASSUME NEW d \in Decoder, d.at = "data"
      PROVE  /\ Run(HostStep, d, WindowSize).at = "data"
             /\ Run(HostStep, d, WindowSize).data = d.data
             /\ Run(HostStep, d, WindowSize).options = d.options
  <2> DEFINE e == Run(HostStep, d, head)
             f == Run(HostStep, e, size)
             g == Run(HostStep, f, rest)
  <2>1. e \in Decoder /\ e.at = "sub" /\ e.data = d.data /\ e.options = d.options
    BY <1>2, <1>3, HostEntersSub
  <2> HIDE DEF e
  <2>2. f \in Decoder /\ f.at = "sub" /\ f.data = e.data /\ f.options = e.options
    <3> DEFINE e1 == HostStep[e][0]
               e2 == HostStep[e1][80]
    <3>1. e1 \in Decoder /\ e1.at = "sub" /\ e1.data = e.data /\ e1.options = e.options
      BY <1>2, <2>1, HostSteps DEF HostGoes, IsData
    <3>2. f = HostStep[e2][0]
      BY RunThree
    <3> HIDE DEF e1
    <3>3. e2 \in Decoder /\ e2.at = "sub" /\ e2.data = e1.data /\ e2.options = e1.options
      BY <1>2, <3>1, HostSteps DEF HostGoes, IsData
    <3> HIDE DEF e2, f
    <3> QED
      BY <1>2, <3>1, <3>2, <3>3, HostSteps DEF HostGoes, IsData
  <2> HIDE DEF f
  <2>3. g \in Decoder /\ g.at = "sub" /\ g.data = f.data /\ g.options = f.options
    BY <1>2, <2>2, RunOne, HostSteps DEF HostGoes, IsData
  <2> HIDE DEF g
  <2>4. /\ Run(HostStep, g, tail).at = "data" /\ Run(HostStep, g, tail).data = g.data
        /\ Run(HostStep, g, tail).options = g.options
    BY <2>3, HostLeavesSub
  <2> HIDE DEF head, size, rest, tail
  <2> DEFINE most == (head \o size) \o rest
  <2>5. Run(HostStep, d, most) = g
    BY <1>2, RunConcatTwice DEF e, f, g
  <2>6. most \in Seq(Byte)
    BY <1>2, ConcatProperties
  <2> HIDE DEF most
  <2>7. Run(HostStep, d, most \o tail) = Run(HostStep, g, tail)
    BY <1>2, <2>5, <2>6, RunConcat
  <2> QED
    BY <1>1, <2>1, <2>2, <2>3, <2>4, <2>7 DEF most
<1>4. WindowSize \in Seq(Byte)
  BY <1>2 DEF WindowSize, IAC, SB, SE, Byte
<1> QED
  BY <1>3, <1>4, SaysNothing

LEMMA TerminalTypeSaysNothing == TerminalType \in Says(<<>>)
<1> DEFINE head == <<IAC, SB, TTYPE>>
           name == <<TTYPE_IS, 65>>
           tail == <<IAC, SE>>
<1>1. TerminalType = (head \o name) \o tail
  BY DEF TerminalType, IAC, SB, TTYPE, TTYPE_IS, SE
<1>2. /\ head \in Seq(Byte) /\ name \in Seq(Byte) /\ tail \in Seq(Byte)
      /\ TTYPE \in Byte /\ TTYPE_IS \in Byte /\ 65 \in Byte
      /\ TTYPE_IS # IAC /\ 65 # IAC
  BY DEF IAC, SB, TTYPE, TTYPE_IS, SE, Byte
<1>3. ASSUME NEW d \in Decoder, d.at = "data"
      PROVE  /\ Run(HostStep, d, TerminalType).at = "data"
             /\ Run(HostStep, d, TerminalType).data = d.data
             /\ Run(HostStep, d, TerminalType).options = d.options
  <2> DEFINE e == Run(HostStep, d, head)
             f == Run(HostStep, e, name)
  <2>1. e \in Decoder /\ e.at = "sub" /\ e.data = d.data /\ e.options = d.options
    BY <1>2, <1>3, HostEntersSub
  <2> HIDE DEF e
  <2>2. f \in Decoder /\ f.at = "sub" /\ f.data = e.data /\ f.options = e.options
    <3> DEFINE e1 == HostStep[e][TTYPE_IS]
    <3>1. e1 \in Decoder /\ e1.at = "sub" /\ e1.data = e.data /\ e1.options = e.options
      BY <1>2, <2>1, HostSteps DEF HostGoes, IsData
    <3>2. f = HostStep[e1][65]
      BY RunTwo
    <3> HIDE DEF e1, f
    <3> QED
      BY <1>2, <3>1, <3>2, HostSteps DEF HostGoes, IsData
  <2> HIDE DEF f
  <2>3. /\ Run(HostStep, f, tail).at = "data" /\ Run(HostStep, f, tail).data = f.data
        /\ Run(HostStep, f, tail).options = f.options
    BY <2>2, HostLeavesSub
  <2> HIDE DEF head, name, tail
  <2>4. Run(HostStep, d, (head \o name) \o tail) = Run(HostStep, f, tail)
    BY <1>2, RunConcatTwice DEF e, f
  <2> QED
    BY <1>1, <2>1, <2>2, <2>3, <2>4
<1>4. TerminalType \in Seq(Byte)
  BY <1>2 DEF TerminalType, IAC, SB, SE, Byte
<1> QED
  BY <1>3, <1>4, SaysNothing

-----------------------------------------------------------------------------
(* What the host sends.                                                      *)

LEMMA EscapeOfByte ==
  ASSUME NEW b \in Byte
  PROVE  /\ SendByte(b) \in Seq(Byte)
         /\ \A s \in Seq(Byte) : EscapeByte[s][b] = s \o SendByte(b)
<1>1. CASE b = IAC
  BY <1>1 DEF EscapeByte, SendByte
<1>2. CASE b # IAC
  BY <1>2 DEF EscapeByte, SendByte
<1> QED
  BY <1>1, <1>2

LEMMA EscapeOfOne ==
  ASSUME NEW b \in Byte
  PROVE  Escape(<<b>>) = SendByte(b)
<1> DEFINE none == <<>>
<1>1. none \in Seq(Byte)
  OBVIOUS
<1>2. none \o SendByte(b) = SendByte(b)
  BY EscapeOfByte, ConcatEmptySeq
<1> HIDE DEF none
<1>3. Run(EscapeByte, none, <<b>>) = EscapeByte[none][b]
  BY RunOne
<1>4. EscapeByte[none][b] = none \o SendByte(b)
  BY <1>1, EscapeOfByte
<1> QED
  BY <1>2, <1>3, <1>4 DEF Escape, none

LEMMA EscapeIsPassed ==
  ASSUME NEW bytes \in Seq(Byte)
  PROVE  /\ Escape(bytes) \in Seq(Byte)
         /\ \A d \in Decoder : d.at = "sub" =>
              /\ Run(HostStep, d, Escape(bytes)) \in Decoder
              /\ Run(HostStep, d, Escape(bytes)).at = "sub"
              /\ Run(HostStep, d, Escape(bytes)).data = d.data
              /\ Run(HostStep, d, Escape(bytes)).options = d.options
<1> DEFINE Passed(s) == /\ s \in Seq(Byte)
                        /\ \A d \in Decoder : d.at = "sub" =>
                             /\ Run(HostStep, d, s) \in Decoder
                             /\ Run(HostStep, d, s).at = "sub"
                             /\ Run(HostStep, d, s).data = d.data
                             /\ Run(HostStep, d, s).options = d.options
           I == {s \in Seq(Byte) : Passed(s)}
<1>1. <<>> \in I
  BY RunEmpty
<1>2. ASSUME NEW s \in I, NEW b \in Byte
      PROVE  EscapeByte[s][b] \in I
  <2>1. EscapeByte[s][b] = s \o SendByte(b)
    BY EscapeOfByte
  <2>2. SendByte(b) \in Seq(Byte)
    BY EscapeOfByte
  <2>3. ASSUME NEW d \in Decoder, d.at = "sub"
        PROVE  /\ Run(HostStep, d, s \o SendByte(b)) \in Decoder
               /\ Run(HostStep, d, s \o SendByte(b)).at = "sub"
               /\ Run(HostStep, d, s \o SendByte(b)).data = d.data
               /\ Run(HostStep, d, s \o SendByte(b)).options = d.options
    <3> DEFINE e == Run(HostStep, d, s)
    <3>1. e \in Decoder /\ e.at = "sub" /\ e.data = d.data /\ e.options = d.options
      BY <2>3
    <3>2. Run(HostStep, d, s \o SendByte(b)) = Run(HostStep, e, SendByte(b))
      BY <2>2, RunConcat
    <3> HIDE DEF e
    <3> QED
      BY <3>1, <3>2, HostPassesParameter
  <2>4. s \o SendByte(b) \in Seq(Byte)
    BY <2>2
  <2> QED
    BY <2>1, <2>3, <2>4
<1>3. Run(EscapeByte, <<>>, bytes) \in I
  <2> HIDE DEF I
  <2> QED
    BY <1>1, <1>2, RunStays
<1> QED
  BY <1>3 DEF Escape

LEMMA HostTakesMessage ==
  ASSUME NEW d \in Decoder, d.at = "data", NEW m \in Message
  PROVE  /\ Encode(m) \in Seq(Byte)
         /\ Run(HostStep, d, Encode(m)).at = "data"
         /\ Run(HostStep, d, Encode(m)).data = MessageData[d.data][m]
         /\ Run(HostStep, d, Encode(m)).options = MessageOptions[d.options][m]
<1>0. d.data \in Seq(Byte) /\ d.options \in Seq(OptionMessage)
  BY DEF Decoder
<1>1. CASE m \in [kind : {"data"}, byte : Byte]
  <2>1. m.kind = "data" /\ m.byte \in Byte
    BY <1>1
  <2>2. Escape(<<m.byte>>) = SendByte(m.byte)
    BY <2>1, EscapeOfOne
  <2>3. Encode(m) = SendByte(m.byte)
    BY <2>1, <2>2 DEF Encode
  <2>4. /\ MessageData[d.data][m] = Append(d.data, m.byte)
        /\ MessageOptions[d.options][m] = d.options
    BY <1>0, <2>1 DEF MessageData, MessageOptions
  <2> QED
    BY <2>1, <2>3, <2>4, HostTakesByte
<1>2. CASE m \in OptionMessage
  <2>1. m.kind = "option" /\ m.verb \in Verb /\ m.option \in Byte
    BY <1>2 DEF OptionMessage
  <2>2. Encode(m) = SendCommand(m.verb, m.option)
    BY <2>1 DEF Encode, SendCommand
  <2>3. /\ MessageData[d.data][m] = d.data
        /\ MessageOptions[d.options][m] = Append(d.options, m)
    BY <1>0, <2>1 DEF MessageData, MessageOptions
  <2>4. Option(m.verb, m.option) = m
    BY <1>2 DEF Option, OptionMessage
  <2>5. Append(d.options, m) = d.options \o <<m>>
    BY <1>0, <1>2, AppendIsConcat
  <2>6. SendCommand(m.verb, m.option) \in Says(<<m>>)
    BY <2>1, <2>4, CommandIsSeen
  <2> QED
    BY <2>2, <2>3, <2>5, <2>6 DEF Says
<1>3. CASE m \in [kind : {"sub"}, option : Byte, parameters : Seq(Byte)]
  <2> DEFINE head == <<IAC, SB, m.option>>
             body == Escape(m.parameters)
             tail == <<IAC, SE>>
             e == Run(HostStep, d, head)
             f == Run(HostStep, e, body)
  <2>1. m.kind = "sub" /\ m.option \in Byte /\ m.parameters \in Seq(Byte)
    BY <1>3
  <2>2. Encode(m) = (head \o body) \o tail
    BY <2>1 DEF Encode
  <2>3. MessageData[d.data][m] = d.data /\ MessageOptions[d.options][m] = d.options
    BY <1>0, <2>1 DEF MessageData, MessageOptions
  <2>4. e \in Decoder /\ e.at = "sub" /\ e.data = d.data
        /\ e.options = d.options /\ head \in Seq(Byte)
    BY <2>1, HostEntersSub
  <2> HIDE DEF e
  <2>5. f \in Decoder /\ f.at = "sub" /\ f.data = e.data
        /\ f.options = e.options /\ body \in Seq(Byte)
    BY <2>1, <2>4, EscapeIsPassed
  <2> HIDE DEF f
  <2>6. /\ Run(HostStep, f, tail).at = "data" /\ Run(HostStep, f, tail).data = f.data
        /\ Run(HostStep, f, tail).options = f.options
        /\ tail \in Seq(Byte)
    BY <2>5, HostLeavesSub
  <2> HIDE DEF head, body, tail
  <2>7. Run(HostStep, d, (head \o body) \o tail) = Run(HostStep, f, tail)
    BY <2>4, <2>5, <2>6, RunConcatTwice DEF e, f
  <2>8. (head \o body) \o tail \in Seq(Byte)
    BY <2>4, <2>5, <2>6, ConcatProperties
  <2> QED
    BY <2>2, <2>3, <2>4, <2>5, <2>6, <2>7, <2>8
<1> QED
  BY <1>1, <1>2, <1>3 DEF Message

-----------------------------------------------------------------------------
(* The transmit queue.                                                       *)

LEMMA PrefixGrows ==
  ASSUME NEW B, NEW s \in Seq(B), NEW t \in Seq(B), NEW u \in Seq(B),
         IsPrefix(s, t)
  PROVE  IsPrefix(s, t \o u)
<1>1. Len(s) <= Len(t) /\ Len(t \o u) = Len(t) + Len(u)
  BY LenProperties, ConcatProperties DEF IsPrefix
<1>2. ASSUME NEW i \in 1..Len(s)
      PROVE  (t \o u)[i] = s[i]
  <2>1. i \in 1..Len(t)
    BY <1>1
  <2>2. (t \o u)[i] = t[i]
    BY <2>1
  <2>3. SubSeq(s, 1, Len(s))[i] = s[i] /\ SubSeq(t, 1, Len(s))[i] = t[i]
    BY <1>1
  <2> QED
    BY <2>2, <2>3 DEF IsPrefix
<1>3. SubSeq(s, 1, Len(s)) = SubSeq(t \o u, 1, Len(s))
  BY <1>1, <1>2
<1> QED
  BY <1>1, <1>3 DEF IsPrefix

\* What follows a prefix.
LEMMA PrefixIsPart ==
  ASSUME NEW B, NEW s \in Seq(B), NEW t \in Seq(B), IsPrefix(s, t)
  PROVE  /\ SubSeq(t, Len(s) + 1, Len(t)) \in Seq(B)
         /\ t = s \o SubSeq(t, Len(s) + 1, Len(t))
<1> DEFINE n == Len(s)
           u == SubSeq(t, n + 1, Len(t))
<1>1. n \in 0..Len(t) /\ n \in Nat /\ Len(t) \in Nat
  BY LenProperties DEF IsPrefix
<1>2. SubSeq(t, 1, n) = s
  BY SubSeqFull DEF IsPrefix
<1>3. u \in Seq(B)
  BY <1>1
<1>4. SubSeq(t, 1, n) \o u = SubSeq(t, 1, Len(t))
  <2>1. n \in 1 - 1..Len(t) /\ Len(t) \in n..Len(t) /\ 1 \in 1..Len(t) + 1
    BY <1>1
  <2> HIDE DEF n
  <2> QED
    BY <2>1, ConcatAdjacentSubSeq
<1>5. t = s \o u
  BY <1>2, <1>4, SubSeqFull
<1> QED
  BY <1>3, <1>5

\* What has gone out and what is left make up what was waiting.
LEMMA SplitsInTwo ==
  ASSUME NEW s \in Seq(Byte), NEW m \in 0..Len(s), NEW n \in 0..(Len(s) - m)
  PROVE  /\ SubSeq(SubSeq(s, m + 1, Len(s)), 1, n) \in Seq(Byte)
         /\ SubSeq(s, m + n + 1, Len(s)) \in Seq(Byte)
         /\ SubSeq(SubSeq(s, m + 1, Len(s)), 1, n) \o SubSeq(s, m + n + 1, Len(s))
              = SubSeq(s, m + 1, Len(s))
<1> DEFINE k == m + n
           u == SubSeq(s, m + 1, Len(s))
           v == SubSeq(s, k + 1, Len(s))
<1>1. /\ Len(s) \in Nat /\ m \in Nat /\ n \in Nat /\ k \in 0..Len(s) /\ m <= k
      /\ m + 1 \in 1..Len(s) + 1 /\ k \in m..Len(s)
  BY LenProperties
<1>2. u \in Seq(Byte) /\ Len(u) = Len(s) - m /\ \A i \in 1..Len(u) : u[i] = s[m + i]
  BY <1>1
<1>3. v \in Seq(Byte)
  BY <1>1
<1>4. SubSeq(u, 1, n) \in Seq(Byte) /\ Len(SubSeq(u, 1, n)) = n
      /\ \A i \in 1..n : SubSeq(u, 1, n)[i] = s[m + i]
  <2> HIDE DEF u
  <2> QED
    BY <1>1, <1>2
<1>5. SubSeq(s, m + 1, k) \in Seq(Byte) /\ Len(SubSeq(s, m + 1, k)) = n
      /\ \A i \in 1..n : SubSeq(s, m + 1, k)[i] = s[m + i]
  BY <1>1
<1>6. SubSeq(u, 1, n) = SubSeq(s, m + 1, k)
  <2> HIDE DEF u, k
  <2> QED
    BY <1>4, <1>5, SeqEqual
<1>7. SubSeq(s, m + 1, k) \o v = u
  <2>1. k \in (m + 1) - 1..Len(s) /\ Len(s) \in k..Len(s) /\ m + 1 \in 1..Len(s) + 1
    BY <1>1
  <2>2. SubSeq(s, m + 1, k) \o SubSeq(s, k + 1, Len(s)) = SubSeq(s, m + 1, Len(s))
    <3> HIDE DEF k
    <3> QED
      BY ONLY <2>1, ConcatAdjacentSubSeq, s \in Seq(Byte)
  <2> QED
    BY <2>2
<1> QED
  BY <1>3, <1>4, <1>6, <1>7

LEMMA GoneInOrder ==
  \A w, a, b \in Seq(Byte) : /\ w \o a \in Seq(Byte)
                             /\ (w \o a) \o b = w \o (a \o b)
BY ConcatAssociative, ConcatProperties

\* A queue from which `sent` has gone out.
GoodQueue(sent) ==
  {q \in Queue :
     /\ Len(q.bytes) <= QUEUE /\ q.offset <= Len(q.bytes)
     /\ IsPrefix(sent, q.handed)
     /\ ~q.overflow =>
          sent \o SubSeq(q.bytes, q.offset + 1, Len(q.bytes)) = q.handed}

LEMMA IsGoodQueue ==
  ASSUME NEW sent \in Seq(Byte), NEW q \in Queue, Len(q.bytes) <= QUEUE,
         q.offset <= Len(q.bytes), IsPrefix(sent, q.handed),
         ~q.overflow => sent \o SubSeq(q.bytes, q.offset + 1, Len(q.bytes)) = q.handed
  PROVE  q \in GoodQueue(sent)
BY DEF GoodQueue

LEMMA EnqueueKeeps ==
  ASSUME NEW sent \in Seq(Byte), NEW q \in GoodQueue(sent), NEW m \in Seq(Byte)
  PROVE  /\ EnqueueEach[q][m] \in GoodQueue(sent)
         /\ EnqueueEach[q][m].handed = q.handed \o m
<1> DEFINE waiting == SubSeq(q.bytes, q.offset + 1, Len(q.bytes))
           e == EnqueueEach[q][m]
<1>1. /\ q.bytes \in Seq(Byte) /\ q.offset \in Nat /\ q.overflow \in BOOLEAN
      /\ q.handed \in Seq(Byte) /\ q.offset <= Len(q.bytes)
      /\ Len(q.bytes) <= QUEUE /\ q \in Queue
  BY DEF GoodQueue, Queue
<1>2. waiting \in Seq(Byte) /\ Len(waiting) <= QUEUE /\ Len(waiting) \in Nat
  BY SMTT(30), <1>1, QueueAssumption
<1>3. e = [bytes    |-> IF Len(waiting) + Len(m) <= QUEUE THEN waiting \o m
                        ELSE waiting,
           offset   |-> 0,
           overflow |-> q.overflow \/ ~(Len(waiting) + Len(m) <= QUEUE),
           handed   |-> q.handed \o m]
  BY <1>1 DEF EnqueueEach, Enqueue
<1>4. IsPrefix(sent, q.handed \o m)
  BY <1>1, PrefixGrows DEF GoodQueue
<1>5. ~q.overflow => sent \o waiting = q.handed
  BY DEF GoodQueue
<1> HIDE DEF waiting, e
<1>6. CASE Len(waiting) + Len(m) <= QUEUE
  <2>1. /\ e.bytes = waiting \o m /\ e.offset = 0 /\ e.overflow = q.overflow
        /\ e.handed = q.handed \o m /\ e \in Queue
    BY <1>1, <1>2, <1>3, <1>6 DEF Queue
  <2>2. Len(e.bytes) <= QUEUE /\ e.offset <= Len(e.bytes)
    BY <1>2, <1>6, <2>1
  <2>3. SubSeq(e.bytes, e.offset + 1, Len(e.bytes)) = waiting \o m
    BY <1>2, <2>1, SubSeqFull, ConcatProperties
  <2>4. sent \o (waiting \o m) = (sent \o waiting) \o m
    BY <1>2, ConcatAssociative
  <2>5. ~q.overflow => sent \o (waiting \o m) = q.handed \o m
    BY <1>5, <2>4
  <2>6. e \in GoodQueue(sent)
    <3>1. ~e.overflow =>
            sent \o SubSeq(e.bytes, e.offset + 1, Len(e.bytes)) = e.handed
      BY <2>1, <2>3, <2>5
    <3>2. IsPrefix(sent, e.handed)
      BY <1>4, <2>1
    <3> QED
      BY <2>1, <2>2, <3>1, <3>2 DEF GoodQueue
  <2> QED
    BY <2>1, <2>6 DEF e
<1>7. CASE ~(Len(waiting) + Len(m) <= QUEUE)
  <2>1. /\ e.bytes = waiting /\ e.offset = 0 /\ e.overflow = TRUE
        /\ e.handed = q.handed \o m /\ e \in Queue
    <3>1. e = [bytes |-> waiting, offset |-> 0, overflow |-> TRUE,
               handed |-> q.handed \o m]
      BY <1>3, <1>7
    <3>2. q.handed \o m \in Seq(Byte)
      BY <1>1
    <3> QED
      BY <1>2, <3>1, <3>2 DEF Queue
  <2>2. Len(e.bytes) <= QUEUE /\ e.offset <= Len(e.bytes)
    BY <1>2, <2>1
  <2>3. e \in GoodQueue(sent)
    BY <1>4, <2>1, <2>2 DEF GoodQueue
  <2> QED
    BY <2>1, <2>3 DEF e
<1> QED
  BY <1>6, <1>7

LEMMA QueueKeeps ==
  ASSUME NEW sent \in Seq(Byte), NEW q \in GoodQueue(sent),
         NEW messages \in Seq(Seq(Byte))
  PROVE  Run(EnqueueEach, q, messages) \in GoodQueue(sent)
<1>1. \A e \in GoodQueue(sent), m \in Seq(Byte) :
        EnqueueEach[e][m] \in GoodQueue(sent)
  BY EnqueueKeeps
<1> QED
  BY <1>1, RunStays

\* What the host will make of all that was handed to the queue.
Heard(data, options) ==
  {q \in Queue : /\ HostSees(q.handed).at = "data" /\ HostSees(q.handed).data = data
                 /\ HostSees(q.handed).options = options}

LEMMA EnqueueIsHeard ==
  ASSUME NEW q \in Queue, NEW m \in Seq(Byte)
  PROVE  /\ EnqueueEach[q][m] \in Queue
         /\ HostSees(q.handed) \in Decoder
         /\ HostSees(EnqueueEach[q][m].handed)
              = Run(HostStep, HostSees(q.handed), m)
<1> DEFINE e == EnqueueEach[q][m]
<1>1. q.bytes \in Seq(Byte) /\ q.offset \in Nat /\ q.handed \in Seq(Byte)
      /\ q.overflow \in BOOLEAN
  BY DEF Queue
<1>2. e \in Queue /\ e.handed = q.handed \o m
  <2> DEFINE waiting == SubSeq(q.bytes, q.offset + 1, Len(q.bytes))
  <2>1. waiting \in Seq(Byte)
    BY <1>1
  <2>2. e = [bytes    |-> IF Len(waiting) + Len(m) <= QUEUE THEN waiting \o m
                          ELSE waiting,
             offset   |-> 0,
             overflow |-> q.overflow \/ ~(Len(waiting) + Len(m) <= QUEUE),
             handed   |-> q.handed \o m]
    BY <1>1 DEF EnqueueEach, Enqueue
  <2> HIDE DEF waiting, e
  <2> QED
    BY <1>1, <2>1, <2>2 DEF Queue
<1>3. HostStart \in Decoder
  BY DEF HostStart, Decoder, Verb, OptionMessage
<1> HIDE DEF e
<1>4. HostSees(q.handed) \in Decoder
  BY <1>1, <1>3, HostOnlyAdds DEF HostSees
<1>5. HostSees(q.handed \o m) = Run(HostStep, HostSees(q.handed), m)
  BY <1>1, RunConcat DEF HostSees
<1> QED
  BY <1>2, <1>4, <1>5 DEF e

LEMMA SaidIsHeard ==
  ASSUME NEW data, NEW options, NEW more, NEW q \in Heard(data, options),
         NEW m \in Says(more)
  PROVE  m \in Seq(Byte) /\ EnqueueEach[q][m] \in Heard(data, options \o more)
  BY EnqueueIsHeard DEF Heard, Says

LEMMA TypeAppends ==
  ASSUME NEW s \in Seq(Byte), NEW b \in Byte
  PROVE  /\ Type(s) \in Seq(Seq(Byte)) /\ SendByte(b) \in Seq(Byte)
         /\ Type(Append(s, b)) = Append(Type(s), SendByte(b))
<1>1. \A c \in Byte : SendByte(c) \in Seq(Byte)
  BY EscapeOfByte
<1>2. Type(s) \in Seq(Seq(Byte)) /\ Len(Type(s)) = Len(s)
      /\ \A i \in 1..Len(s) : Type(s)[i] = SendByte(s[i])
  <2>1. Type(s) = [i \in 1..Len(s) |-> SendByte(s[i])]
    BY LenProperties DEF Type
  <2>2. \A i \in 1..Len(s) : SendByte(s[i]) \in Seq(Byte)
    BY <1>1, ElementOfSeq
  <2> QED
    BY <2>1, <2>2
<1> DEFINE longer == Append(s, b)
<1>3. longer \in Seq(Byte) /\ Len(longer) = Len(s) + 1 /\ longer[Len(s) + 1] = b
      /\ \A i \in 1..Len(s) : longer[i] = s[i]
  BY AppendProperties
<1> HIDE DEF longer
<1>4. Type(longer) \in Seq(Seq(Byte)) /\ Len(Type(longer)) = Len(longer)
      /\ \A i \in 1..Len(longer) : Type(longer)[i] = SendByte(longer[i])
  <2>1. Type(longer) = [i \in 1..Len(longer) |-> SendByte(longer[i])]
    BY <1>3, LenProperties DEF Type
  <2>2. \A i \in 1..Len(longer) : SendByte(longer[i]) \in Seq(Byte)
    BY <1>1, <1>3, ElementOfSeq
  <2> QED
    BY <1>3, <2>1, <2>2
<1>5. Type(longer) = Append(Type(s), SendByte(b))
  BY <1>1, <1>2, <1>3, <1>4
<1> QED
  BY <1>1, <1>2, <1>5 DEF longer

LEMMA TypedIsHeard ==
  ASSUME NEW data \in Seq(Byte), NEW options, NEW q \in Heard(data, options),
         NEW bytes \in Seq(Byte)
  PROVE  Run(EnqueueEach, q, Type(bytes)) \in Heard(data \o bytes, options)
<1> DEFINE S == {s \in Seq(Byte) :
                   Run(EnqueueEach, q, Type(s)) \in Heard(data \o s, options)}
<1>1. <<>> \in S
  <2>1. Type(<<>>) = <<>>
    BY DEF Type
  <2>2. data \o <<>> = data
    BY ConcatEmptySeq
  <2> QED
    BY <2>1, <2>2, RunEmpty
<1>2. ASSUME NEW s \in Seq(Byte), NEW b \in Byte, s \in S
      PROVE  Append(s, b) \in S
  <2> DEFINE e == Run(EnqueueEach, q, Type(s))
  <2>1. Run(EnqueueEach, q, Type(Append(s, b))) = EnqueueEach[e][SendByte(b)]
    <3>1. Type(s) \in Seq(Seq(Byte)) /\ SendByte(b) \in Seq(Byte)
          /\ Type(Append(s, b)) = Append(Type(s), SendByte(b))
      BY TypeAppends
    <3> QED
      BY <3>1, RunAppend
  <2>2. e \in Heard(data \o s, options)
    BY <1>2
  <2> HIDE DEF e
  <2>3. EnqueueEach[e][SendByte(b)] \in Heard(Append(data \o s, b), options)
    <3> DEFINE d == HostSees(e.handed)
               f == EnqueueEach[e][SendByte(b)]
    <3>1. SendByte(b) \in Seq(Byte)
      BY EscapeOfByte
    <3>2. e \in Queue /\ d.at = "data" /\ d.data = data \o s /\ d.options = options
      BY <2>2 DEF Heard
    <3>3. /\ f \in Queue /\ d \in Decoder
          /\ HostSees(f.handed) = Run(HostStep, d, SendByte(b))
      BY <3>1, <3>2, EnqueueIsHeard
    <3> HIDE DEF d, f
    <3>4. /\ Run(HostStep, d, SendByte(b)).at = "data"
          /\ Run(HostStep, d, SendByte(b)).data = Append(d.data, b)
          /\ Run(HostStep, d, SendByte(b)).options = d.options
      BY <3>2, <3>3, HostTakesByte
    <3>5. f \in Heard(Append(data \o s, b), options)
      BY <3>2, <3>3, <3>4 DEF Heard
    <3> QED
      BY <3>5 DEF f
  <2>4. Append(data \o s, b) = data \o Append(s, b)
    <3> DEFINE one == <<b>>
    <3>1. one \in Seq(Byte) /\ data \o s \in Seq(Byte)
      OBVIOUS
    <3>2. Append(data \o s, b) = (data \o s) \o one /\ Append(s, b) = s \o one
      BY <3>1, AppendIsConcat
    <3> HIDE DEF one
    <3>3. (data \o s) \o one = data \o (s \o one)
      BY <3>1, GoneInOrder
    <3> QED
      BY <3>2, <3>3
  <2> QED
    BY <2>1, <2>3, <2>4
<1>3. Seq(Byte) \subseteq S
  <2> HIDE DEF S
  <2> QED
    BY <1>1, <1>2, SeqInduction
<1> QED
  BY <1>3

-----------------------------------------------------------------------------
(* The answers of the Telnet machine.                                        *)

LEMMA TelnetTypes ==
  ASSUME TelnetTypeOK, NEW input \in Byte, TelnetReceive(input)
  PROVE  TelnetTypeOK'
<1>1. CASE InData(input)
  BY <1>1 DEF InData, NoSuboption, NoOptions, TelnetTypeOK, TelnetStates
<1>2. CASE InIac(input)
  BY <1>2 DEF InIac, NoSuboption, NoOptions, TelnetTypeOK, TelnetStates
<1>3. CASE InNegotiate(input)
  BY <1>3 DEF InNegotiate, Negotiate, NoSuboption, TelnetTypeOK, TelnetStates
<1>4. CASE InSbOption(input)
  BY <1>4, LengthAssumption
     DEF InSbOption, NoOptions, TelnetTypeOK, TelnetStates, Byte
<1>5. ASSUME Collect(input)
      PROVE  suboptionFirst' \in Byte /\ suboptionLength' \in 0..(LENGTH_MOD - 1)
  BY <1>5, LengthAssumption DEF Collect, TelnetTypeOK
<1>6. CASE InSbData(input)
  BY <1>5, <1>6 DEF InSbData, NoSuboption, NoOptions, TelnetTypeOK, TelnetStates
<1>7. CASE InSbIac(input)
  BY <1>5, <1>7 DEF InSbIac, NoSuboption, NoOptions, TelnetTypeOK, TelnetStates
<1> QED
  BY <1>1, <1>2, <1>3, <1>4, <1>6, <1>7 DEF TelnetReceive

\* What the code of negotiate() does for a command, without the bytes: the
\* options that are on, and the commands it answers.
Negotiation ==
  [remote : SUBSET RemoteAccepted, local : SUBSET LocalAccepted,
   answers : Seq(OptionMessage)]
Answer(n, m) ==
  CASE m.verb = WILL /\ m.option \notin RemoteAccepted ->
         <<Option(DONT, m.option)>>
    [] m.verb = WILL /\ m.option \in RemoteAccepted \ n.remote ->
         <<Option(DO, m.option)>>
    [] m.verb = DO /\ m.option \notin LocalAccepted ->
         <<Option(WONT, m.option)>>
    [] m.verb = DO /\ m.option \in LocalAccepted \ n.local ->
         <<Option(WILL, m.option)>>
    [] OTHER -> <<>>
NegotiateStep == [n \in Negotiation |-> [m \in OptionMessage |->
  [remote  |-> CASE m.verb = WILL -> n.remote \cup (RemoteAccepted \cap {m.option})
                 [] m.verb = WONT -> n.remote \ {m.option}
                 [] OTHER -> n.remote,
   local   |-> CASE m.verb = DO -> n.local \cup (LocalAccepted \cap {m.option})
                 [] m.verb = DONT -> n.local \ {m.option}
                 [] OTHER -> n.local,
   answers |-> n.answers \o Answer(n, m)]]]
NoNegotiation == [remote |-> {}, local |-> {}, answers |-> <<>>]
Negotiated(options) == Run(NegotiateStep, NoNegotiation, options)

\* The machine's own state as one of these, and what it answers to a byte.
Current == [remote |-> remoteOptions, local |-> localOptions,
            answers |-> OptionsSeen(intended)]
AnswerTo(input) ==
  IF state = "NEGOTIATE" THEN Answer(Current, Option(command, input)) ELSE <<>>

LEMMA RepliesAreHeard ==
  ASSUME TelnetTypeOK, NEW input \in Byte, NEW data, NEW options \in Seq(OptionMessage),
         NEW q \in Heard(data, options), state = "NEGOTIATE" => command \in Verb
  PROVE  /\ Replies(input) \in Seq(Seq(Byte))
         /\ Run(EnqueueEach, q, Replies(input))
              \in Heard(data, options \o AnswerTo(input))
<1> DEFINE Good(messages, more) ==
             /\ messages \in Seq(Seq(Byte))
             /\ Run(EnqueueEach, q, messages) \in Heard(data, options \o more)
<1>1. Good(<<>>, <<>>)
  <2>1. options \o <<>> = options
    BY ConcatEmptySeq
  <2> QED
    BY <2>1, RunEmpty
<1>2. ASSUME NEW more, NEW m \in Says(more)
      PROVE  Good(<<m>>, more)
  BY <1>2, SaidIsHeard, RunOne
<1>3. \A verb \in Verb : Good(<<SendCommand(verb, input)>>, <<Option(verb, input)>>)
  BY <1>2, CommandIsSeen
<1>4. Good(<<TerminalType>>, <<>>)
  BY <1>2, TerminalTypeSaysNothing
<1>5. Good(<<SendCommand(WILL, input), WindowSize>>, <<Option(WILL, input)>>)
  <2> DEFINE m == SendCommand(WILL, input)
             seen == options \o <<Option(WILL, input)>>
             e == EnqueueEach[q][m]
  <2>1. WILL \in Verb /\ Option(WILL, input) \in OptionMessage
    BY DEF Verb, Option, OptionMessage
  <2>2. m \in Seq(Byte) /\ e \in Heard(data, seen)
    BY <2>1, CommandIsSeen, SaidIsHeard
  <2>3. seen \in Seq(OptionMessage) /\ seen \o <<>> = seen
    BY <2>1, ConcatEmptySeq
  <2> HIDE DEF m, seen, e
  <2>4. WindowSize \in Seq(Byte) /\ EnqueueEach[e][WindowSize] \in Heard(data, seen)
    BY <2>2, <2>3, WindowSizeSaysNothing, SaidIsHeard
  <2>5. Run(EnqueueEach, q, <<m, WindowSize>>) = EnqueueEach[e][WindowSize]
    BY RunTwo DEF e
  <2>6. <<m, WindowSize>> \in Seq(Seq(Byte))
    BY <2>2, <2>4
  <2> QED
    BY <2>4, <2>5, <2>6 DEF m, seen
<1> HIDE DEF Good
<1>6. CASE state = "NEGOTIATE"
  <2> DEFINE m == Option(command, input)
  <2>1. m.verb = command /\ m.option = input
    BY DEF Option
  <2>2. Current.remote = remoteOptions /\ Current.local = localOptions
    BY DEF Current
  <2> HIDE DEF m
  <2>3. Replies(input) = Answers(input) /\ AnswerTo(input) = Answer(Current, m)
    BY <1>6 DEF Replies, AnswerTo, m
  <2>4. DO \in Verb /\ DONT \in Verb /\ WILL \in Verb /\ WONT \in Verb /\ DO # WILL
    BY DEF Verb, DO, DONT, WILL, WONT
  <2>5. CASE command = WILL
    BY <1>1, <1>3, <2>1, <2>2, <2>3, <2>4, <2>5 DEF Answers, Answer, Good
  <2>6. CASE command = DO
    BY <1>1, <1>3, <1>5, <2>1, <2>2, <2>3, <2>4, <2>6 DEF Answers, Answer, Good
  <2>7. CASE command \notin {WILL, DO}
    BY <1>1, <2>1, <2>2, <2>3, <2>7 DEF Answers, Answer, Good
  <2> QED
    BY <2>5, <2>6, <2>7
<1>7. CASE state # "NEGOTIATE"
  BY <1>1, <1>4, <1>7 DEF Replies, AnswerTo, Good
<1> QED
  BY <1>6, <1>7 DEF Good

-----------------------------------------------------------------------------
(* What the commands about options lead to.                                  *)

Has(options, m) == \E i \in DOMAIN options : options[i] = m

\* The options that were on and are off again.
OffLocal(n) == {o \in LocalAccepted \ n.local : Has(n.answers, Option(WILL, o))}
OffRemote(n) == {o \in RemoteAccepted \ n.remote : Has(n.answers, Option(DO, o))}

\* An option is only switched on with an answer, and a refusal is for an option
\* that is never on.
Sound ==
  {n \in Negotiation :
     /\ \A o \in n.local : Has(n.answers, Option(WILL, o))
     /\ \A o \in n.remote : Has(n.answers, Option(DO, o))
     /\ \A o \in LocalAccepted : ~Has(n.answers, Option(WONT, o))
     /\ \A o \in RemoteAccepted : ~Has(n.answers, Option(DONT, o))
     /\ \A o \in Byte \ LocalAccepted : ~Has(n.answers, Option(WILL, o))
     /\ \A o \in Byte \ RemoteAccepted : ~Has(n.answers, Option(DO, o))}

\* The answers, and those that the host can still bring about by confirming.
Weight(n) ==
  Len(n.answers) + Cardinality(OffLocal(n)) + Cardinality(OffRemote(n))

LEMMA VerbsDiffer ==
  /\ DO \in Verb /\ DONT \in Verb /\ WILL \in Verb /\ WONT \in Verb
  /\ DO # DONT /\ DO # WILL /\ DO # WONT /\ DONT # WILL /\ DONT # WONT /\ WILL # WONT
  /\ Verb = {DO, DONT, WILL, WONT}
  BY DEF Verb, DO, DONT, WILL, WONT

LEMMA SameOption ==
  ASSUME NEW v, NEW o, NEW w, NEW p
  PROVE  /\ Option(v, o).verb = v /\ Option(v, o).option = o
         /\ v \in Verb /\ o \in Byte => Option(v, o) \in OptionMessage
         /\ Option(v, o) = Option(w, p) <=> v = w /\ o = p
BY DEF Option, OptionMessage

LEMMA OptionOf ==
  ASSUME NEW m \in OptionMessage
  PROVE  m.verb \in Verb /\ m.option \in Byte /\ m = Option(m.verb, m.option)
BY DEF Option, OptionMessage

LEMMA HasAppended ==
  ASSUME NEW s \in Seq(OptionMessage), NEW a \in OptionMessage, NEW m
  PROVE  Has(s \o <<a>>, m) <=> Has(s, m) \/ m = a
<1> DEFINE t == s \o <<a>>
<1>1. /\ Len(t) = Len(s) + 1 /\ t \in Seq(OptionMessage) /\ Len(s) \in Nat
      /\ \A i \in 1..Len(s) : t[i] = s[i]
      /\ t[Len(s) + 1] = a
  OBVIOUS
<1>2. DOMAIN t = 1..(Len(s) + 1) /\ DOMAIN s = 1..Len(s)
  BY <1>1
<1> HIDE DEF t
<1>3. Has(t, m) <=> Has(s, m) \/ m = a
  BY <1>1, <1>2 DEF Has
<1> QED
  BY <1>3 DEF t

LEMMA StepOf ==
  ASSUME NEW n \in Negotiation, NEW m \in OptionMessage
  PROVE  /\ NegotiateStep[n][m] \in Negotiation
         /\ Answer(n, m) \in Seq(OptionMessage)
         /\ NegotiateStep[n][m].answers = n.answers \o Answer(n, m)
         /\ NegotiateStep[n][m].remote =
              CASE m.verb = WILL -> n.remote \cup (RemoteAccepted \cap {m.option})
                [] m.verb = WONT -> n.remote \ {m.option}
                [] OTHER -> n.remote
         /\ NegotiateStep[n][m].local =
              CASE m.verb = DO -> n.local \cup (LocalAccepted \cap {m.option})
                [] m.verb = DONT -> n.local \ {m.option}
                [] OTHER -> n.local
<1>1. NegotiateStep[n][m] =
        [remote  |-> CASE m.verb = WILL ->
                            n.remote \cup (RemoteAccepted \cap {m.option})
                       [] m.verb = WONT -> n.remote \ {m.option}
                       [] OTHER -> n.remote,
         local   |-> CASE m.verb = DO -> n.local \cup (LocalAccepted \cap {m.option})
                       [] m.verb = DONT -> n.local \ {m.option}
                       [] OTHER -> n.local,
         answers |-> n.answers \o Answer(n, m)]
  BY DEF NegotiateStep
<1>2. Answer(n, m) \in Seq(OptionMessage)
  <2>1. \A v \in Verb : <<Option(v, m.option)>> \in Seq(OptionMessage)
    BY OptionOf, SameOption
  <2>2. Answer(n, m) \in {<<>>, <<Option(DONT, m.option)>>, <<Option(DO, m.option)>>,
                         <<Option(WONT, m.option)>>, <<Option(WILL, m.option)>>}
    BY DEF Answer
  <2>3. <<>> \in Seq(OptionMessage)
    OBVIOUS
  <2> QED
    BY <2>1, <2>2, <2>3, VerbsDiffer
<1>3. /\ n.remote \subseteq RemoteAccepted /\ n.local \subseteq LocalAccepted
      /\ n.answers \in Seq(OptionMessage)
  BY DEF Negotiation
<1>4. n.answers \o Answer(n, m) \in Seq(OptionMessage)
  BY <1>2, <1>3
<1>5. NegotiateStep[n][m] \in Negotiation
  BY <1>1, <1>3, <1>4 DEF Negotiation
<1> QED
  BY <1>1, <1>2, <1>5

\* What a command can do: an option goes on with an answer or off without one, it
\* is refused, or nothing happens.
LocalOn(n, e, o) ==
  /\ o \in LocalAccepted \ n.local
  /\ e = [n EXCEPT !.local = @ \cup {o}, !.answers = @ \o <<Option(WILL, o)>>]
RemoteOn(n, e, o) ==
  /\ o \in RemoteAccepted \ n.remote
  /\ e = [n EXCEPT !.remote = @ \cup {o}, !.answers = @ \o <<Option(DO, o)>>]
LocalOff(n, e, o) == o \in n.local /\ e = [n EXCEPT !.local = @ \ {o}]
RemoteOff(n, e, o) == o \in n.remote /\ e = [n EXCEPT !.remote = @ \ {o}]
Refused(n, e, o) ==
  \/ /\ o \in Byte \ LocalAccepted
     /\ e = [n EXCEPT !.answers = @ \o <<Option(WONT, o)>>]
  \/ /\ o \in Byte \ RemoteAccepted
     /\ e = [n EXCEPT !.answers = @ \o <<Option(DONT, o)>>]

LEMMA StepCases ==
  ASSUME NEW n \in Negotiation, NEW o \in Byte
  PROVE  LET step(v) == NegotiateStep[n][Option(v, o)] IN
         /\ IF o \in LocalAccepted \ n.local THEN LocalOn(n, step(DO), o)
            ELSE IF o \in LocalAccepted THEN step(DO) = n
            ELSE Refused(n, step(DO), o)
         /\ IF o \in RemoteAccepted \ n.remote THEN RemoteOn(n, step(WILL), o)
            ELSE IF o \in RemoteAccepted THEN step(WILL) = n
            ELSE Refused(n, step(WILL), o)
         /\ IF o \in n.local THEN LocalOff(n, step(DONT), o) ELSE step(DONT) = n
         /\ IF o \in n.remote THEN RemoteOff(n, step(WONT), o) ELSE step(WONT) = n
<1> DEFINE step(v) == NegotiateStep[n][Option(v, o)]
<1>1. /\ n.remote \subseteq RemoteAccepted /\ n.local \subseteq LocalAccepted
      /\ n.answers \in Seq(OptionMessage) /\ n.answers \o <<>> = n.answers
      /\ n = [remote |-> n.remote, local |-> n.local, answers |-> n.answers]
  BY ConcatEmptySeq DEF Negotiation
<1>2. ASSUME NEW v \in Verb
      PROVE  /\ step(v) = [remote |-> step(v).remote, local |-> step(v).local,
                           answers |-> step(v).answers]
             /\ step(v).answers = n.answers \o Answer(n, Option(v, o))
             /\ step(v).remote = CASE v = WILL -> n.remote \cup (RemoteAccepted \cap {o})
                                   [] v = WONT -> n.remote \ {o}
                                   [] OTHER -> n.remote
             /\ step(v).local = CASE v = DO -> n.local \cup (LocalAccepted \cap {o})
                                  [] v = DONT -> n.local \ {o}
                                  [] OTHER -> n.local
  <2> DEFINE m == Option(v, o)
  <2>1. m \in OptionMessage /\ m.verb = v /\ m.option = o
    BY SameOption
  <2> HIDE DEF m
  <2>2. NegotiateStep[n][m] \in Negotiation
    BY <2>1, StepOf
  <2>3. \A f \in Negotiation : f = [remote |-> f.remote, local |-> f.local,
                                    answers |-> f.answers]
    BY DEF Negotiation
  <2>4. /\ NegotiateStep[n][m].answers = n.answers \o Answer(n, m)
        /\ NegotiateStep[n][m].remote =
             CASE m.verb = WILL -> n.remote \cup (RemoteAccepted \cap {m.option})
               [] m.verb = WONT -> n.remote \ {m.option}
               [] OTHER -> n.remote
        /\ NegotiateStep[n][m].local =
             CASE m.verb = DO -> n.local \cup (LocalAccepted \cap {m.option})
               [] m.verb = DONT -> n.local \ {m.option}
               [] OTHER -> n.local
    BY <2>1, StepOf
  <2> QED
    BY <2>1, <2>2, <2>3, <2>4 DEF m
<1>3. \A v : Option(v, o).verb = v /\ Option(v, o).option = o
  BY SameOption
<1> HIDE DEF step
<1>4. IF o \in LocalAccepted \ n.local THEN LocalOn(n, step(DO), o)
      ELSE IF o \in LocalAccepted THEN step(DO) = n ELSE Refused(n, step(DO), o)
  <2>1. Answer(n, Option(DO, o)) =
          IF o \in LocalAccepted \ n.local THEN <<Option(WILL, o)>>
          ELSE IF o \in LocalAccepted THEN <<>> ELSE <<Option(WONT, o)>>
    BY <1>3, VerbsDiffer DEF Answer
  <2>2. /\ step(DO).remote = n.remote
        /\ step(DO).local = n.local \cup (LocalAccepted \cap {o})
        /\ step(DO).answers = n.answers \o Answer(n, Option(DO, o))
        /\ step(DO) = [remote |-> step(DO).remote, local |-> step(DO).local,
                       answers |-> step(DO).answers]
    BY <1>2, VerbsDiffer
  <2> QED
    BY ZenonT(30), <1>1, <2>1, <2>2 DEF LocalOn, Refused
<1>5. IF o \in RemoteAccepted \ n.remote THEN RemoteOn(n, step(WILL), o)
      ELSE IF o \in RemoteAccepted THEN step(WILL) = n ELSE Refused(n, step(WILL), o)
  <2>1. Answer(n, Option(WILL, o)) =
          IF o \in RemoteAccepted \ n.remote THEN <<Option(DO, o)>>
          ELSE IF o \in RemoteAccepted THEN <<>> ELSE <<Option(DONT, o)>>
    BY <1>3, VerbsDiffer DEF Answer
  <2>2. /\ step(WILL).local = n.local
        /\ step(WILL).remote = n.remote \cup (RemoteAccepted \cap {o})
        /\ step(WILL).answers = n.answers \o Answer(n, Option(WILL, o))
        /\ step(WILL) = [remote |-> step(WILL).remote, local |-> step(WILL).local,
                         answers |-> step(WILL).answers]
    BY <1>2, VerbsDiffer
  <2>3. CASE o \in RemoteAccepted
    BY <1>1, <2>1, <2>2, <2>3 DEF RemoteOn
  <2>4. CASE o \notin RemoteAccepted
    <3>1. step(WILL).remote = n.remote
      BY <1>1, <2>2, <2>4
    <3>2. step(WILL) = [n EXCEPT !.answers = @ \o <<Option(DONT, o)>>]
      BY <1>1, <2>1, <2>2, <2>4, <3>1
    <3> QED
      BY <2>4, <3>2 DEF Refused
  <2> QED
    BY <2>3, <2>4
<1>6. IF o \in n.local THEN LocalOff(n, step(DONT), o) ELSE step(DONT) = n
  <2>1. Answer(n, Option(DONT, o)) = <<>>
    BY <1>3, VerbsDiffer DEF Answer
  <2>2. /\ step(DONT).remote = n.remote /\ step(DONT).local = n.local \ {o}
        /\ step(DONT).answers = n.answers
        /\ step(DONT) = [remote |-> step(DONT).remote, local |-> step(DONT).local,
                         answers |-> step(DONT).answers]
    BY <1>1, <1>2, <2>1, VerbsDiffer
  <2> QED
    BY <1>1, <2>2 DEF LocalOff
<1>7. IF o \in n.remote THEN RemoteOff(n, step(WONT), o) ELSE step(WONT) = n
  <2>1. Answer(n, Option(WONT, o)) = <<>>
    BY <1>3, VerbsDiffer DEF Answer
  <2>2. /\ step(WONT).local = n.local /\ step(WONT).remote = n.remote \ {o}
        /\ step(WONT).answers = n.answers
        /\ step(WONT) = [remote |-> step(WONT).remote, local |-> step(WONT).local,
                         answers |-> step(WONT).answers]
    BY <1>1, <1>2, <2>1, VerbsDiffer
  <2> QED
    BY <1>1, <2>2 DEF RemoteOff
<1> QED
  BY <1>4, <1>5, <1>6, <1>7 DEF step

LEMMA OffIsFinite ==
  ASSUME NEW n \in Negotiation
  PROVE  /\ IsFiniteSet(OffLocal(n)) /\ IsFiniteSet(OffRemote(n))
         /\ Cardinality(OffLocal(n)) \in Nat /\ Cardinality(OffRemote(n)) \in Nat
         /\ Len(n.answers) \in Nat /\ n.answers \in Seq(OptionMessage)
<1>1. IsFiniteSet(LocalAccepted) /\ IsFiniteSet(RemoteAccepted)
  <2> DEFINE none == {}
             one == none \cup {BINARY}
             two == one \cup {SGA}
             three == two \cup {TTYPE}
             four == three \cup {NAWS}
             both == two \cup {ECHO}
  <2>1. LocalAccepted = four /\ RemoteAccepted = both
    BY DEF LocalAccepted, RemoteAccepted
  <2>2. IsFiniteSet(none)
    BY FS_EmptySet
  <2> HIDE DEF none
  <2>3. IsFiniteSet(one)
    BY <2>2, FS_AddElement
  <2> HIDE DEF one
  <2>4. IsFiniteSet(two)
    BY <2>3, FS_AddElement
  <2> HIDE DEF two
  <2>5. IsFiniteSet(three) /\ IsFiniteSet(both)
    BY <2>4, FS_AddElement
  <2> HIDE DEF three, both
  <2>6. IsFiniteSet(four)
    BY <2>5, FS_AddElement
  <2> HIDE DEF four
  <2> QED
    BY <2>1, <2>5, <2>6
<1>2. OffLocal(n) \subseteq LocalAccepted /\ OffRemote(n) \subseteq RemoteAccepted
  BY DEF OffLocal, OffRemote
<1>3. IsFiniteSet(OffLocal(n)) /\ IsFiniteSet(OffRemote(n))
  BY <1>1, <1>2, FS_Subset
<1>4. n.answers \in Seq(OptionMessage) /\ Len(n.answers) \in Nat
  BY LenProperties DEF Negotiation
<1> QED
  BY <1>3, <1>4, FS_CardinalityType

\* An answer more: what the answers have then.
LEMMA AnswerAdds ==
  ASSUME NEW n \in Negotiation, NEW e, NEW v \in Verb, NEW o \in Byte,
         e.answers = n.answers \o <<Option(v, o)>>
  PROVE  /\ e.answers \in Seq(OptionMessage) /\ Len(e.answers) = Len(n.answers) + 1
         /\ \A w, p : Has(e.answers, Option(w, p)) <=>
                        Has(n.answers, Option(w, p)) \/ (w = v /\ p = o)
<1>1. n.answers \in Seq(OptionMessage) /\ Option(v, o) \in OptionMessage
  BY SameOption DEF Negotiation
<1>2. \A m : Has(e.answers, m) <=> Has(n.answers, m) \/ m = Option(v, o)
  BY <1>1, HasAppended
<1>3. \A w, p : Option(w, p) = Option(v, o) <=> w = v /\ p = o
  BY SameOption
<1> QED
  BY <1>1, <1>2, <1>3

LEMMA LocalOnKeeps ==
  ASSUME NEW n \in Sound, NEW e, NEW o \in Byte, LocalOn(n, e, o)
  PROVE  /\ e \in Sound /\ Weight(e) <= Weight(n) + 1
         /\ Has(n.answers, Option(WILL, o)) => Weight(e) <= Weight(n)
<1>1. /\ n \in Negotiation /\ n.local \subseteq LocalAccepted /\ o \in LocalAccepted
      /\ o \notin n.local
  BY DEF Sound, Negotiation, LocalOn
<1>2. /\ e.remote = n.remote /\ e.local = n.local \cup {o}
      /\ e.answers = n.answers \o <<Option(WILL, o)>>
      /\ e = [remote |-> e.remote, local |-> e.local, answers |-> e.answers]
  BY <1>1 DEF LocalOn, Negotiation
<1>3. /\ e.answers \in Seq(OptionMessage) /\ Len(e.answers) = Len(n.answers) + 1
      /\ \A w, p : Has(e.answers, Option(w, p)) <=>
                     Has(n.answers, Option(w, p)) \/ (w = WILL /\ p = o)
  BY ZenonT(30), <1>1, <1>2, VerbsDiffer, AnswerAdds
<1>4. e \in Negotiation
  BY <1>1, <1>2, <1>3 DEF Negotiation
<1>5. e \in Sound
  BY <1>1, <1>2, <1>3, <1>4, VerbsDiffer DEF Sound
<1>6. OffRemote(e) = OffRemote(n)
  BY <1>2, <1>3, VerbsDiffer DEF OffRemote
<1>7. OffLocal(e) = OffLocal(n) \ {o}
  BY <1>2, <1>3 DEF OffLocal
<1>8. /\ Cardinality(OffLocal(e)) <= Cardinality(OffLocal(n))
      /\ o \in OffLocal(n) => Cardinality(OffLocal(e)) = Cardinality(OffLocal(n)) - 1
  <2>1. IsFiniteSet(OffLocal(n)) /\ Cardinality(OffLocal(n)) \in Nat
    BY <1>1, OffIsFinite
  <2>2. Cardinality(OffLocal(n) \ {o}) = IF o \in OffLocal(n)
          THEN Cardinality(OffLocal(n)) - 1 ELSE Cardinality(OffLocal(n))
    BY <2>1, FS_RemoveElement
  <2> QED
    BY <1>7, <2>1, <2>2
<1>9. Has(n.answers, Option(WILL, o)) => o \in OffLocal(n)
  BY <1>1 DEF OffLocal
<1> DEFINE count == Cardinality(OffLocal(n))
           countNow == Cardinality(OffLocal(e))
           other == Cardinality(OffRemote(n))
<1>10. /\ count \in Nat /\ countNow \in Nat /\ other \in Nat
       /\ Len(n.answers) \in Nat
  BY <1>1, <1>4, OffIsFinite
<1>11. /\ Weight(n) = Len(n.answers) + count + other
       /\ Weight(e) = Len(n.answers) + 1 + countNow + other
  BY <1>3, <1>6 DEF Weight
<1>12. countNow <= count /\ (o \in OffLocal(n) => countNow = count - 1)
  BY <1>8
<1> HIDE DEF count, countNow, other
<1> QED
  BY <1>5, <1>9, <1>10, <1>11, <1>12

LEMMA RemoteOnKeeps ==
  ASSUME NEW n \in Sound, NEW e, NEW o \in Byte, RemoteOn(n, e, o)
  PROVE  /\ e \in Sound /\ Weight(e) <= Weight(n) + 1
         /\ Has(n.answers, Option(DO, o)) => Weight(e) <= Weight(n)
<1>1. /\ n \in Negotiation /\ n.remote \subseteq RemoteAccepted
      /\ o \in RemoteAccepted /\ o \notin n.remote
  BY DEF Sound, Negotiation, RemoteOn
<1>2. /\ e.local = n.local /\ e.remote = n.remote \cup {o}
      /\ e.answers = n.answers \o <<Option(DO, o)>>
      /\ e = [remote |-> e.remote, local |-> e.local, answers |-> e.answers]
  BY <1>1 DEF RemoteOn, Negotiation
<1>3. /\ e.answers \in Seq(OptionMessage) /\ Len(e.answers) = Len(n.answers) + 1
      /\ \A w, p : Has(e.answers, Option(w, p)) <=>
                     Has(n.answers, Option(w, p)) \/ (w = DO /\ p = o)
  BY ZenonT(30), <1>1, <1>2, VerbsDiffer, AnswerAdds
<1>4. e \in Negotiation
  BY <1>1, <1>2, <1>3 DEF Negotiation
<1>5. e \in Sound
  BY <1>1, <1>2, <1>3, <1>4, VerbsDiffer DEF Sound
<1>6. OffLocal(e) = OffLocal(n)
  BY <1>2, <1>3, VerbsDiffer DEF OffLocal
<1>7. OffRemote(e) = OffRemote(n) \ {o}
  BY <1>2, <1>3 DEF OffRemote
<1>8. /\ Cardinality(OffRemote(e)) <= Cardinality(OffRemote(n))
      /\ o \in OffRemote(n) =>
           Cardinality(OffRemote(e)) = Cardinality(OffRemote(n)) - 1
  <2>1. IsFiniteSet(OffRemote(n)) /\ Cardinality(OffRemote(n)) \in Nat
    BY <1>1, OffIsFinite
  <2>2. Cardinality(OffRemote(n) \ {o}) = IF o \in OffRemote(n)
          THEN Cardinality(OffRemote(n)) - 1 ELSE Cardinality(OffRemote(n))
    BY <2>1, FS_RemoveElement
  <2> QED
    BY <1>7, <2>1, <2>2
<1>9. Has(n.answers, Option(DO, o)) => o \in OffRemote(n)
  BY <1>1 DEF OffRemote
<1> DEFINE count == Cardinality(OffRemote(n))
           countNow == Cardinality(OffRemote(e))
           other == Cardinality(OffLocal(n))
<1>10. /\ count \in Nat /\ countNow \in Nat /\ other \in Nat
       /\ Len(n.answers) \in Nat
  BY <1>1, <1>4, OffIsFinite
<1>11. /\ Weight(n) = Len(n.answers) + other + count
       /\ Weight(e) = Len(n.answers) + 1 + other + countNow
  BY <1>3, <1>6 DEF Weight
<1>12. countNow <= count /\ (o \in OffRemote(n) => countNow = count - 1)
  BY <1>8
<1> HIDE DEF count, countNow, other
<1> QED
  BY <1>5, <1>9, <1>10, <1>11, <1>12

LEMMA OneMore ==
  ASSUME NEW S, NEW T, NEW x, IsFiniteSet(S), T \subseteq S \cup {x}
  PROVE  IsFiniteSet(T) /\ Cardinality(T) <= Cardinality(S) + 1
<1>1. /\ IsFiniteSet(S \cup {x}) /\ Cardinality(S) \in Nat
      /\ Cardinality(S \cup {x}) \in {Cardinality(S), Cardinality(S) + 1}
  BY FS_AddElement, FS_CardinalityType
<1>2. IsFiniteSet(T) /\ Cardinality(T) <= Cardinality(S \cup {x})
  BY <1>1, FS_Subset
<1>3. Cardinality(T) \in Nat
  BY <1>2, FS_CardinalityType
<1> QED
  BY <1>1, <1>2, <1>3

LEMMA OffKeeps ==
  ASSUME NEW n \in Sound, NEW e, NEW o \in Byte,
         LocalOff(n, e, o) \/ RemoteOff(n, e, o)
  PROVE  e \in Sound /\ Weight(e) <= Weight(n) + 1
<1>1. n \in Negotiation /\ e \in Negotiation /\ e.answers = n.answers
  BY DEF Sound, Negotiation, LocalOff, RemoteOff
<1>2. e.local \subseteq n.local /\ e.remote \subseteq n.remote
  BY <1>1 DEF Negotiation, LocalOff, RemoteOff
<1>3. e \in Sound
  BY <1>1, <1>2 DEF Sound
<1>4. CASE LocalOff(n, e, o)
  <2>1. e.local = n.local \ {o} /\ e.remote = n.remote /\ o \in n.local
    BY <1>1, <1>4 DEF LocalOff, Negotiation
  <2>2. OffRemote(e) = OffRemote(n)
    BY <1>1, <2>1 DEF OffRemote
  <2>3. OffLocal(e) \subseteq OffLocal(n) \cup {o}
    BY <1>1, <2>1 DEF OffLocal
  <2>4. Cardinality(OffLocal(e)) <= Cardinality(OffLocal(n)) + 1
    BY <1>1, <2>3, OffIsFinite, OneMore
  <2> QED
    BY <1>1, <1>3, <2>2, <2>4, OffIsFinite DEF Weight
<1>5. CASE RemoteOff(n, e, o)
  <2>1. e.remote = n.remote \ {o} /\ e.local = n.local /\ o \in n.remote
    BY <1>1, <1>5 DEF RemoteOff, Negotiation
  <2>2. OffLocal(e) = OffLocal(n)
    BY <1>1, <2>1 DEF OffLocal
  <2>3. OffRemote(e) \subseteq OffRemote(n) \cup {o}
    BY <1>1, <2>1 DEF OffRemote
  <2>4. Cardinality(OffRemote(e)) <= Cardinality(OffRemote(n)) + 1
    BY <1>1, <2>3, OffIsFinite, OneMore
  <2> QED
    BY <1>1, <1>3, <2>2, <2>4, OffIsFinite DEF Weight
<1> QED
  BY <1>4, <1>5

LEMMA RefusedKeeps ==
  ASSUME NEW n \in Sound, NEW e, NEW o \in Byte, Refused(n, e, o)
  PROVE  e \in Sound /\ Weight(e) <= Weight(n) + 1
<1>1. n \in Negotiation
  BY DEF Sound
<1>2. PICK v \in {WONT, DONT} :
        /\ e = [n EXCEPT !.answers = @ \o <<Option(v, o)>>]
        /\ v = WONT => o \notin LocalAccepted
        /\ v = DONT => o \notin RemoteAccepted
  BY VerbsDiffer DEF Refused
<1>3. /\ e.remote = n.remote /\ e.local = n.local
      /\ e.answers = n.answers \o <<Option(v, o)>>
      /\ e = [remote |-> e.remote, local |-> e.local, answers |-> e.answers]
  BY <1>1, <1>2 DEF Negotiation
<1>4. /\ e.answers \in Seq(OptionMessage) /\ Len(e.answers) = Len(n.answers) + 1
      /\ \A w, p : Has(e.answers, Option(w, p)) <=>
                     Has(n.answers, Option(w, p)) \/ (w = v /\ p = o)
  <2>1. v \in Verb
    BY VerbsDiffer
  <2>2. n.answers \in Seq(OptionMessage) /\ Option(v, o) \in OptionMessage
    BY <1>1, <2>1, SameOption DEF Negotiation
  <2>3. \A m : Has(e.answers, m) <=> Has(n.answers, m) \/ m = Option(v, o)
    BY <1>3, <2>2, HasAppended
  <2>4. \A w, p : Option(w, p) = Option(v, o) <=> w = v /\ p = o
    BY SameOption
  <2>5. e.answers \in Seq(OptionMessage) /\ Len(e.answers) = Len(n.answers) + 1
    BY <1>3, <2>2
  <2> QED
    BY <2>3, <2>4, <2>5
<1>5. e \in Negotiation
  BY <1>1, <1>3, <1>4 DEF Negotiation
<1>6. e \in Sound
  BY <1>2, <1>3, <1>4, <1>5, VerbsDiffer DEF Sound
<1>7. OffLocal(e) = OffLocal(n) /\ OffRemote(e) = OffRemote(n)
  BY <1>2, <1>3, <1>4, VerbsDiffer DEF OffLocal, OffRemote
<1> QED
  BY <1>1, <1>4, <1>6, <1>7, OffIsFinite DEF Weight

\* No command adds more than one answer, at once or later.
LEMMA CommandKeeps ==
  ASSUME NEW n \in Sound, NEW m \in OptionMessage
  PROVE  NegotiateStep[n][m] \in Sound /\ Weight(NegotiateStep[n][m]) <= Weight(n) + 1
<1>1. n \in Negotiation /\ Weight(n) \in Nat
  BY OffIsFinite DEF Sound, Weight
<1>2. PICK v \in Verb, o \in Byte : m = Option(v, o)
  BY OptionOf
<1> DEFINE e == NegotiateStep[n][Option(v, o)]
<1>3. \/ e = n \/ LocalOn(n, e, o) \/ RemoteOn(n, e, o) \/ LocalOff(n, e, o)
      \/ RemoteOff(n, e, o) \/ Refused(n, e, o)
  <2>1. CASE v = DO
    BY <1>1, <2>1, StepCases
  <2>2. CASE v = WILL
    BY <1>1, <2>2, StepCases
  <2>3. CASE v = DONT
    BY <1>1, <2>3, StepCases
  <2>4. CASE v = WONT
    BY <1>1, <2>4, StepCases
  <2> QED
    BY <2>1, <2>2, <2>3, <2>4, VerbsDiffer
<1> HIDE DEF e
<1>4. e \in Sound /\ Weight(e) <= Weight(n) + 1
  BY <1>1, <1>3, LocalOnKeeps, RemoteOnKeeps, OffKeeps, RefusedKeeps
<1> QED
  BY <1>2, <1>4 DEF e

\* The confirmation of a command that was sent brings about none that was not
\* counted with it.
LEMMA ConfirmKeeps ==
  ASSUME NEW n \in Sound, NEW a \in OptionMessage, Has(n.answers, a)
  PROVE  /\ Confirm(a) \in OptionMessage
         /\ Weight(NegotiateStep[n][Confirm(a)]) <= Weight(n)
<1>1. n \in Negotiation /\ Weight(n) \in Nat
  BY OffIsFinite DEF Sound, Weight
<1>2. PICK v \in Verb, o \in Byte : a = Option(v, o)
  BY OptionOf
<1>3. a.verb = v /\ a.option = o
  BY <1>2, SameOption
<1>4. CASE v = DO
  <2>1. Confirm(a) = Option(WILL, o)
    BY <1>3, <1>4, VerbsDiffer DEF Confirm
  <2>2. o \in RemoteAccepted
    BY <1>2, <1>4 DEF Sound
  <2> QED
    BY <1>1, <1>2, <1>4, <2>1, <2>2, StepCases, RemoteOnKeeps, SameOption, VerbsDiffer
<1>5. CASE v = WILL
  <2>1. Confirm(a) = Option(DO, o)
    BY <1>3, <1>5, VerbsDiffer DEF Confirm
  <2>2. o \in LocalAccepted
    BY <1>2, <1>5 DEF Sound
  <2> QED
    BY <1>1, <1>2, <1>5, <2>1, <2>2, StepCases, LocalOnKeeps, SameOption, VerbsDiffer
<1>6. CASE v = DONT
  <2>1. Confirm(a) = Option(WONT, o)
    BY <1>3, <1>6, VerbsDiffer DEF Confirm
  <2>2. o \notin n.remote
    BY <1>1, <1>2, <1>6 DEF Sound, Negotiation
  <2> QED
    BY <1>1, <2>1, <2>2, StepCases, SameOption, VerbsDiffer
<1>7. CASE v = WONT
  <2>1. Confirm(a) = Option(DONT, o)
    BY <1>3, <1>7, VerbsDiffer DEF Confirm
  <2>2. o \notin n.local
    BY <1>1, <1>2, <1>7 DEF Sound, Negotiation
  <2> QED
    BY <1>1, <2>1, <2>2, StepCases, SameOption, VerbsDiffer
<1> QED
  BY <1>4, <1>5, <1>6, <1>7, VerbsDiffer

LEMMA NothingNegotiated ==
  /\ NoNegotiation \in Sound /\ Weight(NoNegotiation) = 0
  /\ Negotiated(<<>>) = NoNegotiation /\ OptionsIn(<<>>) = <<>>
<1>1. NoNegotiation \in Negotiation
  BY DEF NoNegotiation, Negotiation
<1>2. /\ NoNegotiation.answers = <<>> /\ NoNegotiation.local = {}
      /\ NoNegotiation.remote = {}
  BY DEF NoNegotiation
<1>3. \A m : ~Has(<<>>, m)
  BY DEF Has
<1>4. NoNegotiation \in Sound
  BY <1>1, <1>2, <1>3 DEF Sound
<1>5. OffLocal(NoNegotiation) = {} /\ OffRemote(NoNegotiation) = {}
  BY <1>2, <1>3 DEF OffLocal, OffRemote
<1>6. Weight(NoNegotiation) = 0
  <2>1. Cardinality({}) = 0 /\ Len(<<>>) = 0
    BY FS_EmptySet
  <2> QED
    BY <1>2, <1>5, <2>1 DEF Weight
<1>7. Negotiated(<<>>) = NoNegotiation /\ OptionsIn(<<>>) = <<>>
  BY RunEmpty DEF Negotiated, OptionsIn
<1> QED
  BY <1>4, <1>6, <1>7

LEMMA NegotiatedIsSound ==
  ASSUME NEW options \in Seq(OptionMessage)
  PROVE  /\ Negotiated(options) \in Sound /\ Negotiated(options) \in Negotiation
         /\ \A m \in OptionMessage :
              Negotiated(Append(options, m)) = NegotiateStep[Negotiated(options)][m]
<1>1. \A n \in Sound, m \in OptionMessage : NegotiateStep[n][m] \in Sound
  BY CommandKeeps
<1>2. Negotiated(options) \in Sound
  BY <1>1, NothingNegotiated, RunStays DEF Negotiated
<1> QED
  BY <1>2, RunAppend DEF Negotiated, Sound

LEMMA WeightIsNat ==
  ASSUME NEW options \in Seq(OptionMessage)
  PROVE  /\ Weight(Negotiated(options)) \in Nat
         /\ \A m \in OptionMessage : Weight(Negotiated(Append(options, m))) \in Nat
         /\ Len(Negotiated(options).answers) <= Weight(Negotiated(options))
<1>1. \A n \in Negotiation : Weight(n) \in Nat /\ Len(n.answers) <= Weight(n)
  BY OffIsFinite DEF Weight
<1>2. \A m \in OptionMessage : Append(options, m) \in Seq(OptionMessage)
  OBVIOUS
<1> QED
  BY <1>1, <1>2, NegotiatedIsSound

\* Answers are not taken back.
LEMMA AnswersAreKept ==
  ASSUME NEW few \in Seq(OptionMessage), NEW more \in Seq(OptionMessage),
         IsPrefix(few, more)
  PROVE  IsPrefix(Negotiated(few).answers, Negotiated(more).answers)
<1> DEFINE n == Negotiated(few)
           I == {e \in Negotiation : IsPrefix(n.answers, e.answers)}
           rest == SubSeq(more, Len(few) + 1, Len(more))
<1>1. n \in I
  BY NegotiatedIsSound DEF Negotiation, IsPrefix
<1>2. ASSUME NEW e \in I, NEW m \in OptionMessage
      PROVE  NegotiateStep[e][m] \in I
  <2>1. /\ e \in Negotiation /\ n.answers \in Seq(OptionMessage)
        /\ e.answers \in Seq(OptionMessage) /\ IsPrefix(n.answers, e.answers)
    BY NegotiatedIsSound DEF Negotiation
  <2> HIDE DEF n
  <2>2. /\ NegotiateStep[e][m] \in Negotiation /\ Answer(e, m) \in Seq(OptionMessage)
        /\ NegotiateStep[e][m].answers = e.answers \o Answer(e, m)
    BY <2>1, StepOf
  <2>3. IsPrefix(n.answers, e.answers \o Answer(e, m))
    BY <2>1, <2>2, PrefixGrows
  <2> QED
    BY <2>2, <2>3
<1>3. rest \in Seq(OptionMessage) /\ more = few \o rest
  BY PrefixIsPart
<1> HIDE DEF n, I, rest
<1>4. Run(NegotiateStep, n, rest) \in I
  BY <1>1, <1>2, <1>3, RunStays
<1>5. Negotiated(more) = Run(NegotiateStep, n, rest)
  BY <1>3, RunConcat DEF Negotiated, n
<1> QED
  BY <1>4, <1>5 DEF I, n

\* The commands among the messages are the messages' own.
LEMMA OptionsInGrow ==
  ASSUME NEW messages \in Seq(Message), NEW m \in Message
  PROVE  /\ OptionsIn(messages) \in Seq(OptionMessage)
         /\ OptionsIn(Append(messages, m)) =
              IF m.kind = "option" THEN Append(OptionsIn(messages), m)
              ELSE OptionsIn(messages)
         /\ m.kind = "option" <=> m \in OptionMessage
<1>1. m.kind = "option" <=> m \in OptionMessage
  BY DEF Message, OptionMessage
<1>2. \A s \in Seq(OptionMessage), k \in Message :
        MessageOptions[s][k] = IF k.kind = "option" THEN Append(s, k) ELSE s
  BY DEF MessageOptions
<1>3. \A s \in Seq(OptionMessage), k \in Message :
        MessageOptions[s][k] \in Seq(OptionMessage)
  <2>1. \A k \in Message : k.kind = "option" => k \in OptionMessage
    BY DEF Message, OptionMessage
  <2> TAKE s \in Seq(OptionMessage), k \in Message
  <2>2. CASE k.kind = "option"
    <3>1. MessageOptions[s][k] = Append(s, k) /\ k \in OptionMessage
      BY <1>2, <2>1, <2>2
    <3>2. Append(s, k) \in Seq(OptionMessage)
      BY <3>1
    <3> QED
      BY <3>1, <3>2
  <2>3. CASE k.kind # "option"
    BY <1>2, <2>3
  <2> QED
    BY <2>2, <2>3
<1>4. <<>> \in Seq(OptionMessage)
  OBVIOUS
<1>5. OptionsIn(messages) \in Seq(OptionMessage)
  BY <1>3, <1>4, RunStays DEF OptionsIn
<1>6. OptionsIn(Append(messages, m)) = MessageOptions[OptionsIn(messages)][m]
  BY RunAppend DEF OptionsIn
<1> QED
  BY <1>1, <1>2, <1>5, <1>6

\* Whether the command is the last of its kind after one more.
LEMMA LastAppended ==
  ASSUME NEW s \in Seq(OptionMessage), NEW m \in OptionMessage, NEW v \in Verb,
         NEW w \in Verb \ {v}, NEW o \in Byte
  PROVE  LastIs(Append(s, m), v, w, o) <=>
           m = Option(v, o) \/ (LastIs(s, v, w, o) /\ m # Option(w, o))
<1> DEFINE t == Append(s, m)
<1>1. /\ DOMAIN t = 1..(Len(s) + 1) /\ DOMAIN s = 1..Len(s) /\ Len(s) \in Nat
      /\ t[Len(s) + 1] = m /\ \A i \in 1..Len(s) : t[i] = s[i]
  BY AppendProperties, LenProperties
<1>2. Option(v, o) # Option(w, o)
  BY SameOption
<1> HIDE DEF t
<1>3. LastIs(t, v, w, o) => m = Option(v, o) \/ (LastIs(s, v, w, o) /\ m # Option(w, o))
  <2> SUFFICES ASSUME LastIs(t, v, w, o), m # Option(v, o)
               PROVE  LastIs(s, v, w, o) /\ m # Option(w, o)
    OBVIOUS
  <2>1. PICK i \in DOMAIN t : /\ t[i] = Option(v, o)
                              /\ \A j \in DOMAIN t : j > i => t[j] # Option(w, o)
    BY DEF LastIs
  <2>2. i \in 1..Len(s)
    BY <1>1, <2>1
  <2>3. Len(s) + 1 \in DOMAIN t /\ Len(s) + 1 > i
    BY <1>1, <2>2
  <2>4. \A j \in 1..Len(s) : j > i => s[j] # Option(w, o)
    BY <1>1, <2>1
  <2> QED
    BY <1>1, <2>1, <2>2, <2>3, <2>4 DEF LastIs
<1>4. m = Option(v, o) => LastIs(t, v, w, o)
  <2> SUFFICES ASSUME m = Option(v, o) PROVE LastIs(t, v, w, o)
    OBVIOUS
  <2>1. Len(s) + 1 \in DOMAIN t /\ \A j \in DOMAIN t : ~(j > Len(s) + 1)
    BY <1>1
  <2> QED
    BY <1>1, <2>1 DEF LastIs
<1>5. LastIs(s, v, w, o) /\ m # Option(w, o) => LastIs(t, v, w, o)
  <2> SUFFICES ASSUME LastIs(s, v, w, o), m # Option(w, o) PROVE LastIs(t, v, w, o)
    OBVIOUS
  <2>1. PICK i \in DOMAIN s : /\ s[i] = Option(v, o)
                              /\ \A j \in DOMAIN s : j > i => s[j] # Option(w, o)
    BY DEF LastIs
  <2>2. i \in DOMAIN t /\ t[i] = Option(v, o)
    BY <1>1, <2>1
  <2>3. ASSUME NEW j \in DOMAIN t, j > i
        PROVE  t[j] # Option(w, o)
    BY <1>1, <2>1, <2>3
  <2> QED
    BY <2>2, <2>3 DEF LastIs
<1> QED
  BY <1>3, <1>4, <1>5 DEF t

\* An option is on if the last command about it switched it on.
OnIfLast(options) ==
  /\ \A o \in LocalAccepted :
       o \in Negotiated(options).local <=> LastIs(options, DO, DONT, o)
  /\ \A o \in RemoteAccepted :
       o \in Negotiated(options).remote <=> LastIs(options, WILL, WONT, o)

LEMMA AcceptedIsByte == LocalAccepted \subseteq Byte /\ RemoteAccepted \subseteq Byte
  BY DEF LocalAccepted, RemoteAccepted, BINARY, ECHO, SGA, TTYPE, NAWS, Byte

LEMMA LastDecides ==
  ASSUME NEW options \in Seq(OptionMessage)
  PROVE  OnIfLast(options)
<1> DEFINE S == {s \in Seq(OptionMessage) : OnIfLast(s)}
<1>1. <<>> \in S
  <2>1. \A v, w, o : ~LastIs(<<>>, v, w, o)
    BY DEF LastIs
  <2>2. Negotiated(<<>>).local = {} /\ Negotiated(<<>>).remote = {}
    BY NothingNegotiated DEF NoNegotiation
  <2>3. <<>> \in Seq(OptionMessage)
    OBVIOUS
  <2> QED
    BY <2>1, <2>2, <2>3 DEF OnIfLast
<1>2. ASSUME NEW s \in Seq(OptionMessage), NEW m \in OptionMessage, s \in S
      PROVE  Append(s, m) \in S
  <2> DEFINE n == Negotiated(s)
             e == Negotiated(Append(s, m))
  <2>1. n \in Negotiation /\ e = NegotiateStep[n][m]
    BY NegotiatedIsSound
  <2> HIDE DEF n, e
  <2>2. /\ e.remote = CASE m.verb = WILL -> n.remote \cup (RemoteAccepted \cap {m.option})
                        [] m.verb = WONT -> n.remote \ {m.option}
                        [] OTHER -> n.remote
        /\ e.local = CASE m.verb = DO -> n.local \cup (LocalAccepted \cap {m.option})
                       [] m.verb = DONT -> n.local \ {m.option}
                       [] OTHER -> n.local
    BY <2>1, StepOf
  <2>3. OnIfLast(s)
    BY <1>2
  <2>4. ASSUME NEW o \in LocalAccepted
        PROVE  o \in e.local <=> LastIs(Append(s, m), DO, DONT, o)
    <3>1. o \in n.local <=> LastIs(s, DO, DONT, o)
      BY <2>3 DEF OnIfLast, n
    <3>2. LastIs(Append(s, m), DO, DONT, o) <=>
            m = Option(DO, o) \/ (LastIs(s, DO, DONT, o) /\ m # Option(DONT, o))
      BY VerbsDiffer, AcceptedIsByte, LastAppended
    <3>3. /\ m = Option(DO, o) <=> m.verb = DO /\ m.option = o
          /\ m = Option(DONT, o) <=> m.verb = DONT /\ m.option = o
      BY OptionOf, SameOption
    <3>4. CASE m.verb = DO
      BY <2>2, <3>1, <3>2, <3>3, <3>4, VerbsDiffer
    <3>5. CASE m.verb = DONT
      BY <2>2, <3>1, <3>2, <3>3, <3>5, VerbsDiffer
    <3>6. CASE m.verb \notin {DO, DONT}
      BY <2>2, <3>1, <3>2, <3>3, <3>6
    <3> QED
      BY <3>4, <3>5, <3>6
  <2>5. ASSUME NEW o \in RemoteAccepted
        PROVE  o \in e.remote <=> LastIs(Append(s, m), WILL, WONT, o)
    <3>1. o \in n.remote <=> LastIs(s, WILL, WONT, o)
      BY <2>3 DEF OnIfLast, n
    <3>2. LastIs(Append(s, m), WILL, WONT, o) <=>
            m = Option(WILL, o) \/ (LastIs(s, WILL, WONT, o) /\ m # Option(WONT, o))
      BY VerbsDiffer, AcceptedIsByte, LastAppended
    <3>3. /\ m = Option(WILL, o) <=> m.verb = WILL /\ m.option = o
          /\ m = Option(WONT, o) <=> m.verb = WONT /\ m.option = o
      BY OptionOf, SameOption
    <3>4. CASE m.verb = WILL
      BY <2>2, <3>1, <3>2, <3>3, <3>4, VerbsDiffer
    <3>5. CASE m.verb = WONT
      BY <2>2, <3>1, <3>2, <3>3, <3>5, VerbsDiffer
    <3>6. CASE m.verb \notin {WILL, WONT}
      BY <2>2, <3>1, <3>2, <3>3, <3>6
    <3> QED
      BY <3>4, <3>5, <3>6
  <2>6. OnIfLast(Append(s, m)) /\ Append(s, m) \in Seq(OptionMessage)
    BY <2>4, <2>5 DEF OnIfLast, e
  <2> QED
    BY <2>6
<1>3. Seq(OptionMessage) \subseteq S
  <2> HIDE DEF S
  <2> QED
    BY <1>1, <1>2, SeqInduction
<1> QED
  BY <1>3

-----------------------------------------------------------------------------
(* The machine beside a decoder, and the displays.                           *)

\* The machine is where a decoder that has seen the same bytes is.
Follows(at) ==
  \/ at = "data" /\ state = "DATA"
  \/ at = "iac" /\ state = "IAC"
  \/ at = "option" /\ state = "NEGOTIATE"
  \/ at = "suboption" /\ state = "SB_OPTION"
  \/ at = "sub" /\ state = "SB_DATA"
  \/ at = "subiac" /\ state = "SB_IAC"

LEMMA MachineFollows ==
  ASSUME NEW at, NEW input \in Byte, Follows(at), TelnetReceive(input),
         HostGoes(at, input) # "error"
  PROVE  /\ Follows(HostGoes(at, input))'
         /\ IsOutput(input) <=> IsData(at, input)
<1>1. CASE at = "data"
  BY <1>1 DEF Follows, TelnetReceive, InData, InIac, InNegotiate, InSbOption,
     InSbData, InSbIac, HostGoes, IsOutput, IsData
<1>2. CASE at = "iac"
  BY <1>2 DEF Follows, TelnetReceive, InData, InIac, InNegotiate, InSbOption,
     InSbData, InSbIac, HostGoes, IsOutput, IsData, Verb, IAC, SB, DO, DONT,
     WILL, WONT
<1>3. CASE at = "option"
  BY <1>3 DEF Follows, TelnetReceive, InData, InIac, InNegotiate, InSbOption,
     InSbData, InSbIac, HostGoes, IsOutput, IsData
<1>4. CASE at = "suboption"
  BY <1>4 DEF Follows, TelnetReceive, InData, InIac, InNegotiate, InSbOption,
     InSbData, InSbIac, HostGoes, IsOutput, IsData
<1>5. CASE at = "sub"
  BY <1>5 DEF Follows, TelnetReceive, InData, InIac, InNegotiate, InSbOption,
     InSbData, InSbIac, HostGoes, IsOutput, IsData
<1>6. CASE at = "subiac"
  BY <1>6 DEF Follows, TelnetReceive, InData, InIac, InNegotiate, InSbOption,
     InSbData, InSbIac, HostGoes, IsOutput, IsData, IAC, SE
<1> QED
  BY <1>1, <1>2, <1>3, <1>4, <1>5, <1>6 DEF Follows

\* The options are where the commands that such a decoder has seen lead, and the
\* answers to these are all the commands that were handed to the queue.
Obeys(d) ==
  /\ d.at = "option" => command = d.verb
  /\ Negotiated(d.options) = Current

LEMMA CurrentNegotiation ==
  ASSUME TelnetTypeOK, intended \in Seq(Byte)
  PROVE  OptionsSeen(intended) \in Seq(OptionMessage) /\ Current \in Negotiation
<1>1. HostStart \in Decoder
  BY DEF HostStart, Decoder, Verb, OptionMessage
<1>2. OptionsSeen(intended) \in Seq(OptionMessage)
  BY <1>1, HostOnlyAdds DEF OptionsSeen, HostSees, Decoder
<1> QED
  BY <1>2 DEF Current, Negotiation, TelnetTypeOK

LEMMA OptionsFollow ==
  ASSUME TelnetTypeOK, intended \in Seq(Byte), NEW d \in Decoder, NEW input \in Byte,
         Follows(d.at), Obeys(d), TelnetReceive(input),
         OptionsSeen(intended)' = OptionsSeen(intended) \o AnswerTo(input)
  PROVE  Obeys(HostStep[d][input])'
<1> DEFINE e == HostStep[d][input]
           seen == OptionsSeen(intended)
<1>1. /\ d.verb \in Verb /\ d.options \in Seq(OptionMessage)
      /\ Current \in Negotiation /\ seen \in Seq(OptionMessage)
  BY CurrentNegotiation DEF Decoder
<1>2. /\ e \in Decoder /\ e.at = HostGoes(d.at, input)
      /\ e.verb = IF d.at = "iac" /\ input \in Verb THEN input ELSE d.verb
      /\ e.options = IF d.at = "option" THEN Append(d.options, Option(d.verb, input))
                     ELSE d.options
  BY HostSteps
<1>3. /\ d.at = "option" => command = d.verb
      /\ Negotiated(d.options) = Current
  BY DEF Obeys
<1>4. Current' = [remote |-> remoteOptions', local |-> localOptions',
                  answers |-> seen \o AnswerTo(input)]
  BY DEF Current
<1>5. CASE d.at = "option"
  <2> DEFINE m == Option(command, input)
             n == NegotiateStep[Current][m]
  <2>1. state = "NEGOTIATE" /\ command = d.verb
    BY <1>3, <1>5 DEF Follows
  <2>2. m \in OptionMessage /\ m.verb = command /\ m.option = input
    BY <1>1, <2>1, SameOption
  <2>3. e.options = Append(d.options, m) /\ e.at = "data"
    BY <1>2, <1>5, <2>1 DEF HostGoes
  <2> HIDE DEF m, e
  <2>4. Negotiated(e.options) = n
    BY <1>1, <1>3, <2>2, <2>3, NegotiatedIsSound
  <2>5. /\ n \in Negotiation
        /\ n.answers = Current.answers \o Answer(Current, m)
        /\ n.remote = CASE m.verb = WILL ->
                             Current.remote \cup (RemoteAccepted \cap {m.option})
                        [] m.verb = WONT -> Current.remote \ {m.option}
                        [] OTHER -> Current.remote
        /\ n.local = CASE m.verb = DO ->
                            Current.local \cup (LocalAccepted \cap {m.option})
                       [] m.verb = DONT -> Current.local \ {m.option}
                       [] OTHER -> Current.local
    BY <1>1, <2>2, StepOf
  <2>6. /\ Current.remote = remoteOptions /\ Current.local = localOptions
        /\ Current.answers = seen
    BY DEF Current
  <2>7. Negotiate(input)
    BY <2>1 DEF TelnetReceive, InData, InIac, InNegotiate, InSbOption, InSbData, InSbIac
  <2>8. AnswerTo(input) = Answer(Current, m)
    BY <2>1 DEF AnswerTo, m
  <2> HIDE DEF n, seen
  <2>9. n.answers = seen \o AnswerTo(input)
    BY <2>5, <2>6, <2>8
  <2>10. n.remote = remoteOptions'
    BY <2>2, <2>5, <2>6, <2>7 DEF Negotiate
  <2>11. n.local = localOptions'
    <3>1. command \in Verb
      BY <1>1, <2>1
    <3>2. CASE command = DO
      BY <2>2, <2>5, <2>6, <2>7, <3>2, VerbsDiffer DEF Negotiate
    <3>3. CASE command = DONT
      BY <2>2, <2>5, <2>6, <2>7, <3>3, VerbsDiffer DEF Negotiate
    <3>4. CASE command \in {WILL, WONT}
      BY <2>2, <2>5, <2>6, <2>7, <3>4, VerbsDiffer DEF Negotiate
    <3> QED
      BY <3>1, <3>2, <3>3, <3>4, VerbsDiffer
  <2>12. n = Current'
    <3>1. n = [remote |-> n.remote, local |-> n.local, answers |-> n.answers]
      BY <2>5 DEF Negotiation
    <3> QED
      BY <1>4, <2>9, <2>10, <2>11, <3>1
  <2>13. Obeys(e)'
    BY <2>3, <2>4, <2>12 DEF Obeys
  <2> QED
    BY <2>13 DEF e
<1>6. CASE d.at # "option"
  <2>1. /\ state # "NEGOTIATE"
        /\ UNCHANGED <<remoteOptions, localOptions>>
        /\ state = "IAC" /\ input \in Verb => command' = input
    BY <1>6 DEF Follows, TelnetReceive, InData, InIac, InNegotiate, InSbOption,
       InSbData, InSbIac, NoOptions, Verb
  <2>2. AnswerTo(input) = <<>> /\ seen \o <<>> = seen
    BY <1>1, <2>1, ConcatEmptySeq DEF AnswerTo
  <2>3. Current' = Current
    BY <1>4, <2>1, <2>2 DEF Current
  <2>4. e.at = "option" => d.at = "iac" /\ input \in Verb
    BY <1>2, <1>6 DEF HostGoes, Decoder
  <2>5. e.at = "option" => command' = e.verb
    BY <1>2, <2>1, <2>4 DEF Follows
  <2>6. e.options = d.options
    BY <1>2, <1>6
  <2> HIDE DEF e
  <2>7. Obeys(e)'
    BY <1>3, <2>3, <2>5, <2>6 DEF Obeys
  <2> QED
    BY <2>7 DEF e
<1> QED
  BY <1>5, <1>6

\* What the display that is in use shows of some data.
Shows(data) ==
  /\ asciiMode => shown = data
  /\ ~asciiMode => PetsciiShows(data) = [escape |-> petsciiEscape, shown |-> shown]

LEMMA DisplayShows ==
  ASSUME NEW data \in Seq(Byte), NEW input \in Byte, Shows(data),
         asciiMode \in BOOLEAN, petsciiEscape \in BOOLEAN, shown \in Seq(Byte),
         Display(input), UNCHANGED asciiMode
  PROVE  /\ shown' \in Seq(Byte) /\ petsciiEscape' \in BOOLEAN
         /\ IsOutput(input) => Shows(Append(data, input))'
         /\ ~IsOutput(input) => Shows(data)'
<1>1. CASE asciiMode
  BY <1>1 DEF Shows, Display, ToAnsi, ToPetscii
<1>2. CASE ~asciiMode /\ IsOutput(input)
  <2> DEFINE p == [escape |-> petsciiEscape, shown |-> shown]
  <2>1. PetsciiShows(Append(data, input)) = PetsciiStep[p][input]
    BY <1>2, RunAppend DEF PetsciiShows, Shows
  <2>2. PetsciiStep[p][input] =
          [escape |-> ~petsciiEscape /\ input = ESC,
           shown  |-> IF petsciiEscape \/ input = ESC THEN shown
                      ELSE Append(shown, input)]
    BY DEF PetsciiStep
  <2>3. /\ shown' = IF ~petsciiEscape /\ input # ESC THEN Append(shown, input)
                    ELSE shown
        /\ petsciiEscape' = (~petsciiEscape /\ input = ESC)
    BY <1>2 DEF Display, ToAnsi, ToPetscii
  <2>4. PetsciiShows(Append(data, input))
          = [escape |-> petsciiEscape', shown |-> shown']
    BY <2>1, <2>2, <2>3
  <2>5. shown' \in Seq(Byte) /\ petsciiEscape' \in BOOLEAN
    BY <2>3
  <2> QED
    BY <1>2, <2>4, <2>5 DEF Shows
<1>3. CASE ~asciiMode /\ ~IsOutput(input)
  BY <1>3 DEF Shows, Display, ToAnsi, ToPetscii
<1> QED
  BY <1>1, <1>2, <1>3

\* The PETSCII display takes nothing back.
LEMMA PetsciiOnlyAdds ==
  ASSUME NEW data \in Seq(Byte), NEW more \in Seq(Byte)
  PROVE  IsPrefix(PetsciiShows(data).shown, PetsciiShows(data \o more).shown)
<1> DEFINE P == [escape : BOOLEAN, shown : Seq(Byte)]
           p == PetsciiShows(data)
           I == {r \in P : IsPrefix(p.shown, r.shown)}
<1>1. ASSUME NEW r \in P, NEW b \in Byte
      PROVE  /\ PetsciiStep[r][b] \in P
             /\ PetsciiStep[r][b].shown \in {r.shown, r.shown \o <<b>>}
  <2>1. PetsciiStep[r][b] =
          [escape |-> ~r.escape /\ b = ESC,
           shown  |-> IF r.escape \/ b = ESC THEN r.shown ELSE Append(r.shown, b)]
    BY DEF PetsciiStep
  <2>2. r.shown \in Seq(Byte) /\ Append(r.shown, b) = r.shown \o <<b>>
    BY AppendIsConcat
  <2> QED
    BY <2>1, <2>2
<1>2. p \in P
  <2> HIDE DEF P
  <2>1. [escape |-> FALSE, shown |-> <<>>] \in P
    BY DEF P
  <2> QED
    BY <1>1, <2>1, RunStays DEF PetsciiShows
<1>3. p \in I
  BY <1>2 DEF IsPrefix
<1>4. ASSUME NEW r \in I, NEW b \in Byte
      PROVE  PetsciiStep[r][b] \in I
  <2>1. r \in P /\ IsPrefix(p.shown, r.shown) /\ p.shown \in Seq(Byte)
        /\ r.shown \in Seq(Byte) /\ <<b>> \in Seq(Byte)
    BY <1>2
  <2>2. IsPrefix(p.shown, r.shown \o <<b>>)
    BY <2>1, PrefixGrows
  <2> HIDE DEF P, p
  <2> QED
    BY <1>1, <2>1, <2>2
<1>5. Run(PetsciiStep, p, more) \in I
  <2> HIDE DEF I, p
  <2> QED
    BY <1>3, <1>4, RunStays
<1>6. PetsciiShows(data \o more) = Run(PetsciiStep, p, more)
  BY RunConcat DEF PetsciiShows
<1> QED
  BY <1>5, <1>6

-----------------------------------------------------------------------------
(* The inductive invariant.                                                  *)

Fresh ==
  pc = "start" => /\ inbound = <<>> /\ wire = <<>> /\ intended = <<>>
                  /\ typed = <<>> /\ shown = <<>> /\ said = <<>>
                  /\ confirmed = 0

BatchDrained == pc # "receive" => batch = <<>>

\* An overflow is found out before anything more is written.
OverflowEnds ==
  outOverflow => pc \in {"receive", "key", "check", "ended", "start"}

\* The transmit queue, with all that was handed to it.
Waiting == [bytes |-> outgoing, offset |-> outOffset, overflow |-> outOverflow,
            handed |-> intended]

QueueAgrees == pc # "start" => Waiting \in GoodQueue(wire)

HostAgrees == Waiting \in Heard(typed, OptionsSeen(intended))

\* The machine and the display are where the bytes processed so far lead, and
\* those still to come lead to the data and the commands of all that the host
\* has said.
Decodes(d) ==
  /\ Follows(d.at) /\ Shows(d.data) /\ Obeys(d)
  /\ Run(HostStep, d, batch \o inbound).at = "data"
  /\ Run(HostStep, d, batch \o inbound).data = DataIn(said)
  /\ Run(HostStep, d, batch \o inbound).options = OptionsIn(said)
DisplayAgrees == pc # "start" => \E d \in Decoder : Decodes(d)

\* The answers to all that the host has said, with those that it can bring about
\* by confirming them, are no more than the commands it sent of its own accord.
Bounded ==
  Weight(Negotiated(OptionsIn(said))) <= Len(OptionsIn(said)) - confirmed

LoopInv ==
  /\ TypeOK /\ Fresh /\ BatchDrained /\ OverflowEnds
  /\ QueueAgrees /\ HostAgrees /\ DisplayAgrees /\ Bounded

LEMMA NothingIsHeard ==
  /\ HostStart \in Decoder
  /\ HostSees(<<>>) = HostStart
  /\ OptionsSeen(<<>>) = <<>>
  /\ DataIn(<<>>) = <<>>
  /\ PetsciiShows(<<>>) = [escape |-> FALSE, shown |-> <<>>]
  BY RunEmpty
     DEF HostSees, OptionsSeen, DataIn, PetsciiShows, HostStart, Decoder, Verb,
         OptionMessage

LEMMA NothingIsBounded ==
  /\ OptionsIn(<<>>) = <<>> /\ Len(<<>>) = 0
  /\ Weight(Negotiated(OptionsIn(<<>>))) <= Len(OptionsIn(<<>>)) - 0
  BY NothingNegotiated

LEMMA EmptyIsTyped ==
  /\ <<>> \in Seq(Byte) /\ Len(<<>>) = 0 /\ Len(<<>>) <= QUEUE
  /\ 0 \in 0..Len(<<>>)
  BY QueueAssumption

LEMMA Initially == Init => LoopInv
<1> SUFFICES ASSUME Init PROVE LoopInv
  OBVIOUS
<1> USE DEF Init
<1>1. TypeOK
  <2>1. TelnetTypeOK
    BY LengthAssumption DEF TelnetInit, TelnetTypeOK, TelnetStates, Byte
  <2>2. LoopTypeOK
    BY DEF LoopTypeOK
  <2>3. QueueTypeOK
    BY EmptyIsTyped DEF QueueTypeOK
  <2>4. StreamTypeOK
    BY QueueAssumption DEF StreamTypeOK
  <2> QED
    BY <2>1, <2>2, <2>3, <2>4 DEF TypeOK
<1>2. HostAgrees
  <2>1. Waiting = [bytes |-> <<>>, offset |-> 0, overflow |-> FALSE,
                   handed |-> <<>>]
    BY DEF Waiting
  <2>2. Waiting \in Queue
    BY <2>1 DEF Queue
  <2>3. HostSees(<<>>).at = "data" /\ HostSees(<<>>).data = <<>>
    BY NothingIsHeard DEF HostStart
  <2> QED
    BY <2>1, <2>2, <2>3 DEF HostAgrees, Heard, OptionsSeen
<1>3. Bounded
  BY NothingIsBounded DEF Bounded
<1> QED
  BY <1>1, <1>2, <1>3 DEF LoopInv, Fresh, BatchDrained, OverflowEnds, QueueAgrees,
     DisplayAgrees

-----------------------------------------------------------------------------
(* The steps.                                                                *)

\* Only the point in the loop moves on.
Moves ==
  UNCHANGED <<displayVars, telnetVars, queueVars, hostVars, batch, wire, typed,
              shown>>

LEMMA MovesStay ==
  ASSUME LoopInv, Poll \/ BatchDone \/ NoKey \/ Check \/ End
  PROVE  LoopInv'
<1>1. Moves /\ pc # "start"
  BY DEF Poll, BatchDone, NoKey, Check, End, Moves, Goto
<1>2. pc' \in {"write", "read", "key", "check", "ended"}
  BY DEF Poll, BatchDone, NoKey, Check, End, Goto
<1>3. batch = <<>>
  BY DEF Poll, BatchDone, NoKey, Check, End, Goto, LoopInv, BatchDrained
<1>4. outOverflow => pc' \in {"key", "check", "ended"}
  BY DEF Poll, BatchDone, NoKey, Check, End, Goto, LoopInv, OverflowEnds
<1> USE DEF Moves, displayVars, telnetVars, queueVars, hostVars
<1>5. TypeOK'
  BY <1>1, <1>2 DEF LoopInv, TypeOK, TelnetTypeOK, LoopTypeOK, QueueTypeOK,
     StreamTypeOK
<1>6. Waiting' = Waiting /\ wire' = wire /\ typed' = typed
  BY <1>1 DEF Waiting
<1>7. QueueAgrees' /\ HostAgrees' /\ Bounded'
  BY <1>1, <1>6 DEF LoopInv, QueueAgrees, HostAgrees, Bounded
<1>8. DisplayAgrees'
  <2>1. PICK d \in Decoder : Decodes(d)
    BY <1>1 DEF LoopInv, DisplayAgrees
  <2>2. Decodes(d)'
    BY <1>1, <2>1 DEF Decodes, Follows, Shows, Obeys, Current
  <2> QED
    BY <2>2 DEF DisplayAgrees
<1> QED
  BY <1>1, <1>2, <1>3, <1>4, <1>5, <1>7, <1>8
     DEF LoopInv, Fresh, BatchDrained, OverflowEnds

LEMMA StartStays ==
  ASSUME LoopInv, Start
  PROVE  LoopInv'
<1>1. /\ pc = "start" /\ pc' \in {"write", "ended"} /\ batch = <<>>
      /\ inbound = <<>> /\ wire = <<>> /\ intended = <<>> /\ typed = <<>>
      /\ shown = <<>> /\ said = <<>> /\ confirmed = 0
  BY DEF LoopInv, Fresh, BatchDrained, Start, Goto
<1>2. /\ UNCHANGED <<intended, inbound, said, confirmed, batch, wire, typed, shown>>
      /\ outgoing' = <<>> /\ outOffset' = 0 /\ outOverflow' = FALSE
      /\ petsciiEscape' = FALSE /\ asciiMode' \in BOOLEAN /\ TelnetReset
  BY DEF Start, hostVars
<1>3. TypeOK'
  <2>1. TelnetTypeOK'
    BY <1>2, LengthAssumption DEF TelnetReset, TelnetTypeOK, TelnetStates, Byte
  <2>2. LoopTypeOK'
    BY <1>1, <1>2 DEF LoopTypeOK
  <2>3. QueueTypeOK'
    BY <1>1, <1>2, EmptyIsTyped DEF QueueTypeOK
  <2>4. StreamTypeOK'
    BY <1>2 DEF LoopInv, TypeOK, StreamTypeOK
  <2> QED
    BY <2>1, <2>2, <2>3, <2>4 DEF TypeOK
<1>4. Waiting' = [bytes |-> <<>>, offset |-> 0, overflow |-> FALSE,
                  handed |-> <<>>]
  BY <1>1, <1>2 DEF Waiting
<1>5. Waiting' \in Queue
  BY <1>4 DEF Queue
<1>6. HostAgrees'
  <2>1. HostSees(<<>>).at = "data" /\ HostSees(<<>>).data = <<>>
    BY NothingIsHeard DEF HostStart
  <2> QED
    BY <1>1, <1>2, <1>4, <1>5, <2>1 DEF HostAgrees, Heard, OptionsSeen
<1>7. QueueAgrees'
  <2>1. IsPrefix(<<>>, <<>>)
    BY DEF IsPrefix
  <2>2. <<>> \o SubSeq(<<>>, 0 + 1, Len(<<>>)) = <<>>
    OBVIOUS
  <2>3. Len(<<>>) <= QUEUE /\ 0 <= Len(<<>>)
    BY QueueAssumption
  <2>4. Waiting' \in GoodQueue(<<>>)
    <3> DEFINE q == Waiting'
    <3>1. /\ q \in Queue /\ q.bytes = <<>> /\ q.offset = 0 /\ q.handed = <<>>
      BY <1>4, <1>5
    <3> HIDE DEF q
    <3>2. q \in GoodQueue(<<>>)
      BY <2>1, <2>2, <2>3, <3>1 DEF GoodQueue
    <3> QED
      BY <3>2 DEF q
  <2> QED
    BY <1>1, <1>2, <2>4 DEF QueueAgrees
<1>8. DisplayAgrees'
  <2>1. Follows(HostStart.at)'
    BY <1>2 DEF Follows, HostStart, TelnetReset
  <2>2. Shows(HostStart.data)'
    BY <1>1, <1>2, NothingIsHeard DEF Shows, HostStart
  <2>3. (batch \o inbound)' = <<>>
    BY <1>1, <1>2
  <2>4. /\ Run(HostStep, HostStart, <<>>) = HostStart /\ DataIn(said)' = <<>>
        /\ OptionsIn(said)' = <<>>
    BY <1>1, <1>2, NothingIsHeard, NothingIsBounded, RunEmpty
  <2>5. Current' = NoNegotiation
    BY <1>1, <1>2, NothingIsHeard DEF Current, NoNegotiation, TelnetReset
  <2>6. Obeys(HostStart)'
    BY <2>5, NothingNegotiated DEF Obeys, HostStart
  <2>7. Decodes(HostStart)'
    BY <2>1, <2>2, <2>3, <2>4, <2>6 DEF Decodes, HostStart
  <2> QED
    BY <2>7, NothingIsHeard DEF DisplayAgrees
<1>9. Bounded'
  BY <1>1, <1>2, NothingIsBounded DEF Bounded
<1> QED
  BY <1>1, <1>2, <1>3, <1>6, <1>7, <1>8, <1>9
     DEF LoopInv, Fresh, BatchDrained, OverflowEnds

\* What an action that leaves the machine, the display and the host alone keeps.
LEMMA DisplayStays ==
  ASSUME LoopInv, pc # "start",
         UNCHANGED <<telnetVars, displayVars, shown, batch, inbound, said>>,
         OptionsSeen(intended)' = OptionsSeen(intended)
  PROVE  DisplayAgrees'
<1>1. PICK d \in Decoder : Decodes(d)
  BY DEF LoopInv, DisplayAgrees
<1>2. Decodes(d)'
  BY <1>1 DEF Decodes, Follows, Shows, Obeys, Current, displayVars, telnetVars
<1> QED
  BY <1>2 DEF DisplayAgrees

LEMMA WriteStays ==
  ASSUME LoopInv, NEW n \in 0..PAYLOAD, Write(n)
  PROVE  LoopInv'
<1>1. /\ pc = "write" /\ pc' = "poll" /\ n \in {0, Acceptable}
      /\ wire' = wire \o SubSeq(Unsent, 1, n)
      /\ UNCHANGED <<outOverflow, intended, batch, inbound, said, confirmed, typed,
                     shown>>
      /\ UNCHANGED <<displayVars, telnetVars>>
      /\ ~outOverflow
  BY DEF Write, Goto, hostVars, LoopInv, OverflowEnds
<1>2. IF n = Len(Unsent) THEN outgoing' = <<>> /\ outOffset' = 0
      ELSE outOffset' = outOffset + n /\ UNCHANGED outgoing
  BY DEF Write
<1>3. /\ outgoing \in Seq(Byte) /\ outOffset \in 0..Len(outgoing)
      /\ Len(outgoing) \in Nat /\ Len(outgoing) <= QUEUE
      /\ intended \in Seq(Byte) /\ wire \in Seq(Byte) /\ typed \in Seq(Byte)
  BY DEF LoopInv, TypeOK, QueueTypeOK, StreamTypeOK
<1>4. wire \o Unsent = intended
  BY <1>1 DEF LoopInv, QueueAgrees, GoodQueue, Waiting, Unsent
<1>5. Unsent \in Seq(Byte) /\ Len(Unsent) = Len(outgoing) - outOffset
  BY <1>3 DEF Unsent
<1>6. n \in 0..Len(Unsent)
  BY <1>1, <1>3, <1>5, QueueAssumption DEF Acceptable
<1> DEFINE sent == SubSeq(Unsent, 1, n)
<1>7. /\ outgoing' \in Seq(Byte) /\ Len(outgoing') <= QUEUE
      /\ outOffset' \in 0..Len(outgoing')
      /\ sent \in Seq(Byte) /\ Unsent' \in Seq(Byte)
      /\ sent \o Unsent' = Unsent
  <2>1. CASE n = Len(Unsent)
    <3>1. outgoing' = <<>> /\ outOffset' = 0 /\ sent = Unsent
      BY <1>2, <1>5, <2>1, SubSeqFull
    <3>2. Unsent' = <<>>
      BY <3>1 DEF Unsent
    <3> QED
      BY <1>5, <3>1, <3>2, EmptyIsTyped, ConcatEmptySeq
  <2>2. CASE n # Len(Unsent)
    <3>1. outgoing' = outgoing /\ outOffset' = outOffset + n
      BY <1>2, <2>2
    <3>2. outOffset + n \in 0..Len(outgoing)
      BY <1>3, <1>5, <1>6
    <3>3. Unsent' = SubSeq(outgoing, outOffset + n + 1, Len(outgoing))
      BY <3>1 DEF Unsent
    <3>4. /\ sent \in Seq(Byte)
          /\ SubSeq(outgoing, outOffset + n + 1, Len(outgoing)) \in Seq(Byte)
          /\ sent \o SubSeq(outgoing, outOffset + n + 1, Len(outgoing)) = Unsent
      BY <1>3, <1>5, <1>6, SplitsInTwo DEF Unsent
    <3> HIDE DEF sent
    <3> QED
      BY <1>3, <3>1, <3>2, <3>3, <3>4
  <2> QED
    BY <2>1, <2>2
<1>8. wire' \in Seq(Byte) /\ wire' \o Unsent' = intended
  <2> DEFINE left == Unsent'
  <2>1. sent \in Seq(Byte) /\ left \in Seq(Byte) /\ sent \o left = Unsent
        /\ wire' = wire \o sent
    BY <1>1, <1>7
  <2> HIDE DEF sent, left
  <2>2. wire \o sent \in Seq(Byte) /\ (wire \o sent) \o left = wire \o (sent \o left)
    <3>1. wire \in Seq(Byte) /\ sent \in Seq(Byte) /\ left \in Seq(Byte)
      BY <1>3, <2>1
    <3> QED
      BY ONLY <3>1, GoneInOrder
  <2>3. wire' \in Seq(Byte) /\ wire' \o left = intended
    BY <1>4, <2>1, <2>2
  <2> QED
    BY <2>3 DEF left
<1>9. TypeOK'
  <2>1. TelnetTypeOK' /\ LoopTypeOK'
    BY <1>1 DEF LoopInv, TypeOK, TelnetTypeOK, LoopTypeOK, telnetVars, displayVars
  <2>2. QueueTypeOK' /\ StreamTypeOK'
    BY <1>1, <1>7, <1>8 DEF LoopInv, TypeOK, QueueTypeOK, StreamTypeOK
  <2> QED
    BY <2>1, <2>2 DEF TypeOK
<1>10. IsPrefix(wire', intended)
  <2>1. IsPrefix(wire', wire')
    BY <1>8 DEF IsPrefix
  <2> QED
    BY <1>7, <1>8, <2>1, PrefixGrows
<1>11. QueueAgrees'
  <2> DEFINE q == Waiting'
  <2>1. /\ q.bytes = outgoing' /\ q.offset = outOffset' /\ q.overflow = FALSE
        /\ q.handed = intended /\ q \in Queue
    BY <1>1, <1>3, <1>7 DEF Waiting, Queue, LoopInv, TypeOK, QueueTypeOK
  <2>2. wire' \o SubSeq(q.bytes, q.offset + 1, Len(q.bytes)) = q.handed
    BY <1>8, <2>1 DEF Unsent
  <2> HIDE DEF q
  <2>3. Len(q.bytes) <= QUEUE /\ q.offset <= Len(q.bytes) /\ wire' \in Seq(Byte)
    BY <1>7, <1>8, <2>1
  <2>4. q \in GoodQueue(wire')
    BY <1>10, <2>1, <2>2, <2>3, IsGoodQueue
  <2> QED
    BY <2>4 DEF QueueAgrees, q
<1>12. HostAgrees'
  <2>1. HostSees(intended).at = "data" /\ HostSees(intended).data = typed
    BY DEF LoopInv, HostAgrees, Heard, Waiting
  <2>2. Waiting' \in Queue /\ Waiting'.handed = intended
    BY <1>1, <1>3, <1>7 DEF Waiting, Queue, LoopInv, TypeOK, QueueTypeOK
  <2> QED
    BY <1>1, <2>1, <2>2 DEF HostAgrees, Heard, OptionsSeen
<1>13. DisplayAgrees' /\ Bounded'
  <2>1. DisplayAgrees'
    BY <1>1, DisplayStays
  <2> QED
    BY <1>1, <2>1 DEF LoopInv, Bounded
<1> QED
  BY <1>1, <1>9, <1>11, <1>12, <1>13
     DEF LoopInv, Fresh, BatchDrained, OverflowEnds

\* The bytes that read() moves from the connection to the batch stay in line.
LEMMA ReadStays ==
  ASSUME LoopInv, NEW n \in 0..BATCH, Read(n)
  PROVE  LoopInv'
<1>1. /\ pc = "read" /\ pc' = "receive" /\ n <= Len(inbound) /\ batch = <<>>
      /\ batch' = SubSeq(inbound, 1, n)
      /\ inbound' = SubSeq(inbound, n + 1, Len(inbound))
      /\ UNCHANGED <<displayVars, telnetVars, queueVars, said, confirmed, wire, typed,
                     shown>>
  BY DEF Read, Goto, LoopInv, BatchDrained
<1>2. inbound \in Seq(Byte) /\ Len(inbound) \in Nat /\ n \in Nat /\ n <= BATCH
  BY QueueAssumption DEF LoopInv, TypeOK, StreamTypeOK
<1>3. batch' \in Seq(Byte) /\ Len(batch') = n /\ inbound' \in Seq(Byte)
  BY <1>1, <1>2
<1>4. batch' \o inbound' = batch \o inbound
  <2>1. SubSeq(inbound, 1, n) \o SubSeq(inbound, n + 1, Len(inbound))
          = SubSeq(inbound, 1, Len(inbound))
    <3>1. /\ 1 \in 1..Len(inbound) + 1 /\ n \in (1 - 1)..Len(inbound)
          /\ Len(inbound) \in n..Len(inbound)
      BY <1>1, <1>2
    <3> QED
      BY <1>2, <3>1, ConcatAdjacentSubSeq
  <2>2. SubSeq(inbound, 1, Len(inbound)) = inbound /\ <<>> \o inbound = inbound
    BY <1>2, SubSeqFull, ConcatEmptySeq
  <2> QED
    BY <1>1, <2>1, <2>2
<1>5. TypeOK'
  <2>1. TelnetTypeOK' /\ LoopTypeOK' /\ QueueTypeOK'
    BY <1>1 DEF LoopInv, TypeOK, TelnetTypeOK, LoopTypeOK, QueueTypeOK, telnetVars,
       displayVars, queueVars
  <2>2. StreamTypeOK'
    BY <1>1, <1>2, <1>3 DEF LoopInv, TypeOK, StreamTypeOK
  <2> QED
    BY <2>1, <2>2 DEF TypeOK
<1>6. QueueAgrees' /\ HostAgrees' /\ Bounded'
  <2>1. /\ Waiting' = Waiting /\ wire' = wire /\ typed' = typed
        /\ intended' = intended
    BY <1>1 DEF Waiting, queueVars
  <2> QED
    BY <1>1, <2>1 DEF LoopInv, QueueAgrees, HostAgrees, Bounded
<1>7. DisplayAgrees'
  <2>1. PICK d \in Decoder : Decodes(d)
    BY <1>1 DEF LoopInv, DisplayAgrees
  <2>2. Decodes(d)'
    BY <1>1, <1>4, <2>1 DEF Decodes, Follows, Shows, Obeys, Current, telnetVars,
       displayVars, queueVars
  <2> QED
    BY <2>2 DEF DisplayAgrees
<1> QED
  BY <1>1, <1>5, <1>6, <1>7
     DEF LoopInv, Fresh, BatchDrained, OverflowEnds, queueVars

\* A call of the queue for each of some messages.
LEMMA SendTakes ==
  ASSUME LoopInv, NEW messages \in Seq(Seq(Byte)), Send(messages)
  PROVE  /\ Waiting \in Queue /\ Waiting' \in Queue
         /\ Waiting' = Run(EnqueueEach, Waiting, messages)
<1> DEFINE q == Run(EnqueueEach, Waiting, messages)
<1>1. Waiting \in Queue
  BY DEF LoopInv, HostAgrees, Heard
<1>2. q \in Queue
  BY <1>1, EnqueueIsHeard, RunStays
<1>3. Waiting' = [bytes |-> q.bytes, offset |-> q.offset, overflow |-> q.overflow,
                  handed |-> q.handed]
  BY DEF Send, Waiting
<1> HIDE DEF q
<1>4. q = [bytes |-> q.bytes, offset |-> q.offset, overflow |-> q.overflow,
           handed |-> q.handed]
  BY <1>2 DEF Queue
<1>5. Waiting' = q
  BY <1>3, <1>4
<1> QED
  BY <1>1, <1>2, <1>5 DEF q

LEMMA SendStays ==
  ASSUME LoopInv, pc # "start", NEW messages \in Seq(Seq(Byte)), Send(messages),
         UNCHANGED wire
  PROVE  QueueTypeOK' /\ QueueAgrees'
<1>1. Waiting' = Run(EnqueueEach, Waiting, messages)
  BY SendTakes
<1>2. wire \in Seq(Byte) /\ Waiting \in GoodQueue(wire)
  BY DEF LoopInv, TypeOK, StreamTypeOK, QueueAgrees
<1>3. Waiting' \in GoodQueue(wire)
  BY <1>1, <1>2, QueueKeeps
<1>4. /\ outgoing' = Waiting'.bytes /\ outOffset' = Waiting'.offset
      /\ outOverflow' = Waiting'.overflow /\ intended' = Waiting'.handed
  BY DEF Waiting
<1>5. QueueTypeOK'
  <2> DEFINE q == Waiting'
  <2>1. q \in GoodQueue(wire)
    BY <1>3
  <2> HIDE DEF q
  <2>2. /\ q.bytes \in Seq(Byte) /\ Len(q.bytes) <= QUEUE
        /\ q.offset \in 0..Len(q.bytes) /\ q.overflow \in BOOLEAN
        /\ q.handed \in Seq(Byte)
    BY <2>1 DEF GoodQueue, Queue
  <2> QED
    BY <1>4, <2>2 DEF QueueTypeOK, q
<1> QED
  BY <1>3, <1>5 DEF QueueAgrees

\* The machine takes the next byte as the host meant it.
LEMMA NextByteDecodes ==
  ASSUME NEW d \in Decoder, NEW b \in Byte, NEW s \in Seq(Byte), NEW t \in Seq(Byte),
         Run(HostStep, d, (<<b>> \o s) \o t).at = "data"
  PROVE  /\ HostGoes(d.at, b) # "error"
         /\ Run(HostStep, d, (<<b>> \o s) \o t) = Run(HostStep, HostStep[d][b], s \o t)
<1> DEFINE one == <<b>>
           e == HostStep[d][b]
<1>1. one \in Seq(Byte) /\ s \o t \in Seq(Byte) /\ e \in Decoder
  BY HostSteps
<1>2. Run(HostStep, d, one) = e
  BY RunOne
<1> HIDE DEF one, e
<1>3. (one \o s) \o t = one \o (s \o t)
  BY <1>1, GoneInOrder
<1>4. Run(HostStep, d, one \o (s \o t)) = Run(HostStep, e, s \o t)
  <2>1. \A u \in Seq(Byte) :
          Run(HostStep, d, one \o u) = Run(HostStep, Run(HostStep, d, one), u)
    BY <1>1, RunConcat
  <2> QED
    BY <1>1, <1>2, <2>1
<1>5. e.at # "error"
  BY <1>1, <1>3, <1>4, HostOnlyAdds DEF one
<1> QED
  BY <1>3, <1>4, <1>5, HostSteps DEF one, e

LEMMA TakesHead ==
  ASSUME NEW s \in Seq(Byte), s # <<>>, Len(s) <= BATCH
  PROVE  /\ Head(s) \in Byte /\ Tail(s) \in Seq(Byte) /\ Len(Tail(s)) <= BATCH
         /\ s = <<Head(s)>> \o Tail(s)
<1>1. Len(s) \in Nat \ {0} /\ BATCH \in Nat
  BY QueueAssumption, LenProperties, EmptySeq
<1>2. s = <<s[1]>> \o SubSeq(s, 2, Len(s))
  BY <1>1, SubSeqFull, SubSeqRecursiveFirst
<1>3. Head(s) = s[1] /\ Tail(s) = SubSeq(s, 2, Len(s))
  BY TailIsSubSeq
<1> QED
  BY <1>1, <1>2, <1>3, HeadTailProperties

LEMMA ReceiveStays ==
  ASSUME LoopInv, Receive
  PROVE  LoopInv'
<1>1. /\ batch \in Seq(Byte) /\ Len(batch) <= BATCH /\ typed \in Seq(Byte)
      /\ TelnetTypeOK /\ asciiMode \in BOOLEAN /\ petsciiEscape \in BOOLEAN
      /\ shown \in Seq(Byte) /\ inbound \in Seq(Byte) /\ batch # <<>>
  BY DEF LoopInv, TypeOK, LoopTypeOK, StreamTypeOK, Receive
<1>2. PICK input \in Byte, rest \in Seq(Byte) :
        /\ input = Head(batch) /\ rest = Tail(batch) /\ Len(rest) <= BATCH
        /\ batch = <<input>> \o rest
  BY <1>1, TakesHead
<1> DEFINE messages == Replies(input) \o Type(Reports(input))
<1>3. /\ pc = "receive" /\ batch' = rest
      /\ TelnetReceive(input) /\ Send(messages) /\ Display(input)
      /\ typed' = typed \o Reports(input)
      /\ UNCHANGED <<inbound, said, confirmed, pc, asciiMode, wire>>
  BY <1>2 DEF Receive, hostVars
<1>4. Reports(input) \in Seq(Byte)
  BY ReportAssumption DEF Reports
<1> DEFINE seen == OptionsSeen(intended)
<1>5. /\ Replies(input) \in Seq(Seq(Byte)) /\ Type(Reports(input)) \in Seq(Seq(Byte))
      /\ Run(EnqueueEach, Waiting, Replies(input))
           \in Heard(typed, seen \o AnswerTo(input))
  <2>1. PICK d \in Decoder : Follows(d.at) /\ Obeys(d)
    BY <1>3 DEF LoopInv, DisplayAgrees, Decodes
  <2>2. state = "NEGOTIATE" => command \in Verb
    BY <2>1 DEF Follows, Obeys, Decoder
  <2>3. Waiting \in Heard(typed, seen) /\ seen \in Seq(OptionMessage)
    BY <1>1, CurrentNegotiation DEF LoopInv, TypeOK, QueueTypeOK, HostAgrees
  <2> HIDE DEF seen
  <2>4. Type(Reports(input)) \in Seq(Seq(Byte))
    BY <1>2, <1>4, TypeAppends
  <2> QED
    BY <1>1, <2>2, <2>3, <2>4, RepliesAreHeard
<1>6. messages \in Seq(Seq(Byte))
  BY <1>5
<1> HIDE DEF messages
<1>7. TelnetTypeOK'
  BY <1>1, <1>3, TelnetTypes
<1>8. QueueTypeOK' /\ QueueAgrees'
  BY <1>3, <1>6, SendStays
<1>9. HostAgrees' /\ OptionsSeen(intended)' = seen \o AnswerTo(input)
  <2> DEFINE q == Run(EnqueueEach, Waiting, Replies(input))
  <2>2. q \in Heard(typed, seen \o AnswerTo(input))
    BY <1>5
  <2>3. Waiting' = Run(EnqueueEach, q, Type(Reports(input)))
    <3>1. Waiting' = Run(EnqueueEach, Waiting, messages)
      BY <1>3, <1>6, SendTakes
    <3> QED
      BY <1>5, <3>1, RunConcat DEF messages
  <2> HIDE DEF q
  <2>4. Waiting' \in Heard(typed \o Reports(input), seen \o AnswerTo(input))
    BY <1>1, <1>4, <2>2, <2>3, TypedIsHeard
  <2>5. OptionsSeen(intended)' = seen \o AnswerTo(input)
    BY <2>4 DEF Heard, Waiting, OptionsSeen
  <2> QED
    BY <1>3, <2>4, <2>5 DEF HostAgrees
<1>10. shown' \in Seq(Byte) /\ petsciiEscape' \in BOOLEAN /\ DisplayAgrees'
  <2>1. PICK d \in Decoder : Decodes(d)
    BY <1>3 DEF LoopInv, DisplayAgrees
  <2> DEFINE e == HostStep[d][input]
  <2>2. /\ Follows(d.at) /\ Shows(d.data) /\ d.data \in Seq(Byte)
        /\ Run(HostStep, d, batch \o inbound).at = "data"
        /\ Run(HostStep, d, batch \o inbound).data = DataIn(said)
        /\ Run(HostStep, d, batch \o inbound).options = OptionsIn(said)
        /\ Obeys(d)
    BY <2>1 DEF Decodes, Decoder
  <2>3. /\ HostGoes(d.at, input) # "error"
        /\ Run(HostStep, d, batch \o inbound) = Run(HostStep, e, rest \o inbound)
    <3> DEFINE whole == (<<input>> \o rest) \o inbound
    <3>1. whole = batch \o inbound
      BY <1>2
    <3>2. Run(HostStep, d, whole).at = "data"
      BY <2>2, <3>1
    <3>3. /\ HostGoes(d.at, input) # "error"
          /\ Run(HostStep, d, whole) = Run(HostStep, e, rest \o inbound)
      BY <1>1, <3>2, NextByteDecodes
    <3> HIDE DEF whole, e
    <3> QED
      BY <3>1, <3>3
  <2>4. /\ e \in Decoder /\ e.at = HostGoes(d.at, input)
        /\ e.data = IF IsData(d.at, input) THEN Append(d.data, input) ELSE d.data
    BY HostSteps
  <2>9. Obeys(e)'
    BY <1>1, <1>3, <1>9, <2>2, OptionsFollow DEF LoopInv, TypeOK, QueueTypeOK
  <2> HIDE DEF e
  <2>5. Follows(HostGoes(d.at, input))' /\ (IsOutput(input) <=> IsData(d.at, input))
    BY <1>3, <2>2, <2>3, MachineFollows
  <2>6. /\ shown' \in Seq(Byte) /\ petsciiEscape' \in BOOLEAN
        /\ IsOutput(input) => Shows(Append(d.data, input))'
        /\ ~IsOutput(input) => Shows(d.data)'
    BY <1>1, <1>3, <2>2, DisplayShows
  <2>7. Shows(e.data)'
    BY <2>4, <2>5, <2>6
  <2>8. Decodes(e)'
    BY <1>3, <2>2, <2>3, <2>4, <2>5, <2>7, <2>9 DEF Decodes
  <2> QED
    BY <2>4, <2>6, <2>8 DEF DisplayAgrees
<1>11. TypeOK'
  <2>1. LoopTypeOK'
    BY <1>3, <1>10 DEF LoopInv, TypeOK, LoopTypeOK
  <2>2. StreamTypeOK'
    BY <1>1, <1>2, <1>3, <1>4, <1>10 DEF LoopInv, TypeOK, StreamTypeOK
  <2> QED
    BY <1>7, <1>8, <2>1, <2>2 DEF TypeOK
<1>12. Bounded'
  BY <1>3 DEF LoopInv, Bounded
<1> QED
  BY <1>3, <1>8, <1>9, <1>10, <1>11, <1>12
     DEF LoopInv, Fresh, BatchDrained, OverflowEnds

LEMMA EncodedIsBytes ==
  ASSUME NEW key \in Keys
  PROVE  Encoded(key) \subseteq Seq(Byte)
<1>1. key \in 1..255
  BY KeysAssumption DEF Key
<1>2. KeyboardEncode(key, TRUE) \in Seq(Byte)
  BY <1>1 DEF KeyboardEncode, Byte
<1>3. ASSUME NEW application \in BOOLEAN, NEW newline \in BOOLEAN
      PROVE  AnsiKey(key, application, newline) \in Seq(Byte)
  <2>1. CASE key \in {CURSOR_UP, CURSOR_DOWN, CURSOR_RIGHT, CURSOR_LEFT}
    <3>1. Cursor[key] \in Byte
      BY <2>1 DEF Cursor, CURSOR_UP, CURSOR_DOWN, CURSOR_RIGHT, CURSOR_LEFT, Byte
    <3>2. key \in DOMAIN Cursor
      BY <2>1 DEF Cursor
    <3>3. \A b \in Byte : Sequence(79, b) \in Seq(Byte) /\ Sequence(91, b) \in Seq(Byte)
      BY DEF Sequence, ESC, Byte
    <3> QED
      BY <3>1, <3>2, <3>3 DEF AnsiKey
  <2>2. CASE key \notin {CURSOR_UP, CURSOR_DOWN, CURSOR_RIGHT, CURSOR_LEFT}
    <3>1. key \notin DOMAIN Cursor
      BY <2>2 DEF Cursor
    <3>2. Sequence(91, 72) \in Seq(Byte) /\ <<13, 10>> \in Seq(Byte)
      BY DEF Sequence, ESC, Byte
    <3>3. Ascii(key) \in Byte
      BY <1>1 DEF Ascii, Byte
    <3>4. Plain(key) \in Seq(Byte)
      <4>1. Plain(key) = <<Ascii(key)>> \/ Plain(key) = <<>>
        BY DEF Plain
      <4>2. <<>> \in Seq(Byte) /\ \A b \in Byte : <<b>> \in Seq(Byte)
        OBVIOUS
      <4> QED
        BY <3>3, <4>1, <4>2
    <3> QED
      BY <3>1, <3>2, <3>4 DEF AnsiKey
  <2> QED
    BY <2>1, <2>2
<1>4. ASSUME NEW bytes \in Encoded(key)
      PROVE  bytes \in Seq(Byte)
  <2>1. CASE asciiMode
    <3>1. PICK application, newline \in BOOLEAN :
            bytes = AnsiKey(key, application, newline)
      BY <1>4, <2>1, SMT DEF Encoded
    <3> QED
      BY <1>3, <3>1
  <2>2. CASE ~asciiMode
    <3>1. bytes = KeyboardEncode(key, TRUE)
      BY <1>4, <2>2, SMTT(30) DEF Encoded
    <3> QED
      BY <1>2, <3>1
  <2> QED
    BY <2>1, <2>2
<1> QED
  BY <1>4

\* A return is sent as what its byte is sent as.
LEMMA EnterIsTyped ==
  <<SendEnter>> = Type(<<RETURN>>)
<1>1. DOMAIN <<RETURN>> = 1..1 /\ <<RETURN>>[1] = RETURN
  OBVIOUS
<1>2. Type(<<RETURN>>) = [i \in 1..1 |-> SendByte(RETURN)]
  BY <1>1 DEF Type
<1>3. <<SendByte(RETURN)>> = [i \in 1..1 |-> SendByte(RETURN)]
  OBVIOUS
<1> QED
  BY <1>2, <1>3 DEF SendEnter, RETURN

LEMMA PressStays ==
  ASSUME LoopInv, NEW key \in Keys, Press(key)
  PROVE  LoopInv'
<1>1. PICK bytes \in Seq(Byte) : /\ Send(Type(bytes))
                                 /\ typed' = typed \o bytes
  BY EncodedIsBytes, EnterIsTyped DEF Press
<1>2. /\ pc = "key" /\ pc' = "check"
      /\ UNCHANGED <<displayVars, telnetVars, hostVars, batch, wire, shown>>
      /\ batch = <<>>
  BY DEF Press, Goto, LoopInv, BatchDrained
<1>3. Type(bytes) \in Seq(Seq(Byte)) /\ typed \in Seq(Byte)
  <2>1. 0 \in Byte
    BY DEF Byte
  <2> QED
    BY <2>1, TypeAppends DEF LoopInv, TypeOK, StreamTypeOK
<1>4. QueueTypeOK' /\ QueueAgrees'
  BY <1>1, <1>2, <1>3, SendStays
<1>5. HostAgrees' /\ OptionsSeen(intended)' = OptionsSeen(intended)
  <2> DEFINE seen == OptionsSeen(intended)
  <2>1. Waiting \in Heard(typed, seen)
    BY DEF LoopInv, HostAgrees
  <2>2. Waiting' = Run(EnqueueEach, Waiting, Type(bytes))
    BY <1>1, <1>3, SendTakes
  <2> HIDE DEF seen
  <2>3. Waiting' \in Heard(typed \o bytes, seen)
    BY <1>3, <2>1, <2>2, TypedIsHeard
  <2>4. OptionsSeen(intended)' = seen
    BY <2>3 DEF Heard, Waiting, OptionsSeen
  <2> QED
    BY <1>1, <2>3, <2>4 DEF HostAgrees, seen
<1>6. DisplayAgrees' /\ Bounded'
  <2>1. DisplayAgrees'
    BY <1>2, <1>5, DisplayStays DEF hostVars
  <2> QED
    BY <1>2, <2>1 DEF LoopInv, Bounded, hostVars
<1>7. TypeOK'
  <2>1. TelnetTypeOK' /\ LoopTypeOK'
    BY <1>2 DEF LoopInv, TypeOK, TelnetTypeOK, LoopTypeOK, telnetVars, displayVars
  <2>2. StreamTypeOK'
    BY <1>1, <1>2, <1>3 DEF LoopInv, TypeOK, StreamTypeOK, hostVars
  <2> QED
    BY <1>4, <2>1, <2>2 DEF TypeOK
<1> QED
  BY <1>2, <1>4, <1>5, <1>6, <1>7
     DEF LoopInv, Fresh, BatchDrained, OverflowEnds

LEMMA ReconnectStays ==
  ASSUME LoopInv, Reconnect
  PROVE  LoopInv'
<1>1. /\ pc' = "start" /\ inbound' = <<>> /\ wire' = <<>> /\ intended' = <<>>
      /\ typed' = <<>> /\ shown' = <<>> /\ said' = <<>> /\ batch' = <<>>
      /\ confirmed' = 0
      /\ UNCHANGED <<displayVars, telnetVars, outgoing, outOffset, outOverflow>>
  BY DEF Reconnect, Goto
<1>2. TypeOK'
  <2>1. TelnetTypeOK' /\ LoopTypeOK'
    BY <1>1 DEF LoopInv, TypeOK, TelnetTypeOK, LoopTypeOK, telnetVars, displayVars
  <2>2. QueueTypeOK'
    BY <1>1, EmptyIsTyped DEF LoopInv, TypeOK, QueueTypeOK
  <2>3. StreamTypeOK'
    BY <1>1, QueueAssumption DEF StreamTypeOK
  <2> QED
    BY <2>1, <2>2, <2>3 DEF TypeOK
<1>3. HostAgrees'
  <2>1. Waiting' \in Queue /\ Waiting'.handed = <<>>
    BY <1>1 DEF LoopInv, TypeOK, QueueTypeOK, Waiting, Queue
  <2>2. HostSees(<<>>).at = "data" /\ HostSees(<<>>).data = <<>>
    BY NothingIsHeard DEF HostStart
  <2> QED
    BY <1>1, <2>1, <2>2 DEF HostAgrees, Heard, OptionsSeen
<1>4. Bounded'
  BY <1>1, NothingIsBounded DEF Bounded
<1> QED
  BY <1>1, <1>2, <1>3, <1>4
     DEF LoopInv, Fresh, BatchDrained, OverflowEnds, QueueAgrees, DisplayAgrees

LEMMA WireIsPrefix ==
  ASSUME LoopInv
  PROVE  IsPrefix(wire, intended)
<1>1. CASE pc = "start"
  BY <1>1 DEF LoopInv, Fresh, IsPrefix
<1>2. CASE pc # "start"
  BY <1>2 DEF LoopInv, QueueAgrees, GoodQueue, Waiting
<1> QED
  BY <1>1, <1>2

LEMMA PrefixElements ==
  ASSUME NEW B, NEW s \in Seq(B), NEW t \in Seq(B), IsPrefix(s, t)
  PROVE  /\ Len(s) <= Len(t)
         /\ \A i \in 1..Len(s) : i \in DOMAIN t /\ t[i] = s[i]
<1> DEFINE u == SubSeq(t, Len(s) + 1, Len(t))
<1>1. u \in Seq(B) /\ t = s \o u
  BY PrefixIsPart
<1> HIDE DEF u
<1>2. Len(s \o u) = Len(s) + Len(u) /\ Len(s) \in Nat /\ Len(u) \in Nat
      /\ \A i \in 1..Len(s) : (s \o u)[i] = s[i]
  BY <1>1, ConcatProperties, LenProperties
<1>3. DOMAIN t = 1..Len(t)
  BY LenProperties
<1> QED
  BY <1>1, <1>2, <1>3

\* The host's decoder sees no fewer commands of a longer stream.
LEMMA MoreIsSeen ==
  ASSUME NEW few \in Seq(Byte), NEW more \in Seq(Byte), IsPrefix(few, more)
  PROVE  /\ OptionsSeen(few) \in Seq(OptionMessage)
         /\ IsPrefix(OptionsSeen(few), OptionsSeen(more))
         /\ IsPrefix(HostSees(few).data, HostSees(more).data)
         /\ HostSees(few).at = "error" => HostSees(more).at = "error"
<1> DEFINE e == HostSees(few)
           rest == SubSeq(more, Len(few) + 1, Len(more))
<1>1. e \in Decoder
  BY NothingIsHeard, HostOnlyAdds DEF HostSees
<1>2. rest \in Seq(Byte) /\ more = few \o rest
  BY PrefixIsPart
<1> HIDE DEF rest
<1>3. HostSees(more) = Run(HostStep, e, rest)
  <2>1. \A u \in Seq(Byte) : Run(HostStep, HostStart, few \o u)
                               = Run(HostStep, Run(HostStep, HostStart, few), u)
    BY RunConcat
  <2> QED
    BY <1>2, <2>1 DEF HostSees
<1> HIDE DEF e
<1>4. e.options \in Seq(OptionMessage)
  BY <1>1 DEF Decoder
<1> QED
  BY <1>1, <1>2, <1>3, <1>4, HostOnlyAdds DEF OptionsSeen, e

LEMMA OptionsAreOptions ==
  ASSUME NEW messages \in Seq(Message)
  PROVE  OptionsIn(messages) \in Seq(OptionMessage)
<1>1. Data(IAC) \in Message
  BY DEF Data, Message, IAC, Byte
<1> QED
  BY <1>1, OptionsInGrow

\* Whatever command the host has got or will get answers one it has sent.
LEMMA AnswersAreCounted ==
  ASSUME LoopInv, pc # "start"
  PROVE  LET answers == Negotiated(OptionsIn(said)).answers IN
         /\ OptionsSeen(wire) \in Seq(OptionMessage)
         /\ OptionsSeen(intended) \in Seq(OptionMessage)
         /\ answers \in Seq(OptionMessage)
         /\ IsPrefix(OptionsSeen(intended), answers)
         /\ IsPrefix(OptionsSeen(wire), answers)
<1> DEFINE answers == Negotiated(OptionsIn(said)).answers
           sent == OptionsSeen(wire)
           handed == OptionsSeen(intended)
<1>1. /\ wire \in Seq(Byte) /\ intended \in Seq(Byte) /\ said \in Seq(Message)
      /\ batch \in Seq(Byte) /\ inbound \in Seq(Byte)
  BY DEF LoopInv, TypeOK, QueueTypeOK, StreamTypeOK
<1>2. PICK d \in Decoder : Decodes(d)
  BY DEF LoopInv, DisplayAgrees
<1>3. /\ d.options \in Seq(OptionMessage) /\ batch \o inbound \in Seq(Byte)
      /\ Run(HostStep, d, batch \o inbound).options = OptionsIn(said)
      /\ Negotiated(d.options).answers = handed
  BY <1>1, <1>2 DEF Decodes, Decoder, Obeys, Current
<1>4. IsPrefix(d.options, OptionsIn(said))
  BY <1>3, HostOnlyAdds
<1>5. IsPrefix(handed, answers)
  BY <1>1, <1>3, <1>4, OptionsAreOptions, AnswersAreKept
<1>6. answers \in Seq(OptionMessage)
  BY <1>1, OptionsAreOptions, NegotiatedIsSound DEF Negotiation
<1>7. sent \in Seq(OptionMessage) /\ IsPrefix(sent, handed)
  BY <1>1, WireIsPrefix, MoreIsSeen
<1>8. handed \in Seq(OptionMessage)
  BY <1>1, NothingIsHeard, HostOnlyAdds DEF OptionsSeen, HostSees, Decoder
<1> HIDE DEF answers, sent, handed
<1>9. IsPrefix(sent, answers)
  <2> DEFINE rest == SubSeq(answers, Len(handed) + 1, Len(answers))
  <2>1. rest \in Seq(OptionMessage) /\ answers = handed \o rest
    BY <1>5, <1>6, <1>8, PrefixIsPart
  <2> HIDE DEF rest
  <2> QED
    BY <1>7, <1>8, <2>1, PrefixGrows
<1> QED
  BY <1>5, <1>6, <1>7, <1>8, <1>9 DEF answers, sent, handed

LEMMA HostSaysStays ==
  ASSUME LoopInv, NEW m \in Message, HostSays(m), confirmed' \in Nat, Bounded'
  PROVE  LoopInv'
<1>1. /\ pc # "start" /\ inbound' = inbound \o Encode(m) /\ said' = Append(said, m)
      /\ UNCHANGED <<displayVars, telnetVars, queueVars, pc, batch, wire, typed, shown>>
  BY DEF HostSays
<1>2. inbound \in Seq(Byte) /\ batch \in Seq(Byte) /\ said \in Seq(Message)
  BY DEF LoopInv, TypeOK, StreamTypeOK
<1>3. PICK d \in Decoder : Decodes(d)
  BY <1>1 DEF LoopInv, DisplayAgrees
<1> DEFINE before == batch \o inbound
           code == Encode(m)
           e == Run(HostStep, d, before)
<1>4. /\ before \in Seq(Byte) /\ e.at = "data" /\ e.data = DataIn(said)
      /\ e.options = OptionsIn(said)
  BY <1>2, <1>3 DEF Decodes
<1>5. e \in Decoder
  BY <1>4, HostOnlyAdds
<1> HIDE DEF before, code, e
<1>6. /\ code \in Seq(Byte) /\ Run(HostStep, e, code).at = "data"
      /\ Run(HostStep, e, code).data = MessageData[e.data][m]
      /\ Run(HostStep, e, code).options = MessageOptions[e.options][m]
  BY <1>4, <1>5, HostTakesMessage DEF code
<1>7. Run(HostStep, d, before \o code) = Run(HostStep, e, code)
  <2>1. \A t \in Seq(Byte) :
          Run(HostStep, d, before \o t) = Run(HostStep, Run(HostStep, d, before), t)
    BY <1>4, RunConcat
  <2> QED
    BY <1>6, <2>1 DEF e
<1>8. /\ DataIn(Append(said, m)) = MessageData[DataIn(said)][m]
      /\ OptionsIn(Append(said, m)) = MessageOptions[OptionsIn(said)][m]
  BY <1>2, RunAppend DEF DataIn, OptionsIn
<1>9. batch \o (inbound \o code) = before \o code
  BY <1>2, <1>6, GoneInOrder DEF before
<1>10. DisplayAgrees'
  <2>1. (batch \o inbound)' = before \o code
    BY <1>1, <1>9 DEF code
  <2>2. Follows(d.at)' /\ Shows(d.data)' /\ Obeys(d)'
    BY <1>1, <1>3 DEF Decodes, Follows, Shows, Obeys, Current, telnetVars, displayVars,
       queueVars
  <2>3. /\ DataIn(said)' = MessageData[DataIn(said)][m]
        /\ OptionsIn(said)' = MessageOptions[OptionsIn(said)][m]
    BY <1>1, <1>8
  <2>4. /\ Run(HostStep, d, before \o code).at = "data"
        /\ Run(HostStep, d, before \o code).data = MessageData[DataIn(said)][m]
        /\ Run(HostStep, d, before \o code).options = MessageOptions[OptionsIn(said)][m]
    BY <1>4, <1>6, <1>7
  <2>5. Decodes(d)'
    BY <2>1, <2>2, <2>3, <2>4 DEF Decodes
  <2> QED
    BY <2>5 DEF DisplayAgrees
<1>11. TypeOK'
  <2>1. TelnetTypeOK' /\ LoopTypeOK' /\ QueueTypeOK'
    BY <1>1 DEF LoopInv, TypeOK, TelnetTypeOK, LoopTypeOK, QueueTypeOK, telnetVars,
       displayVars, queueVars
  <2>2. inbound' \in Seq(Byte) /\ said' \in Seq(Message)
    BY <1>1, <1>2, <1>6 DEF code
  <2>3. StreamTypeOK'
    BY <1>1, <2>2 DEF LoopInv, TypeOK, StreamTypeOK
  <2> QED
    BY <2>1, <2>3 DEF TypeOK
<1>12. QueueAgrees' /\ HostAgrees'
  <2>1. /\ Waiting' = Waiting /\ wire' = wire /\ typed' = typed
        /\ intended' = intended
    BY <1>1 DEF Waiting, queueVars
  <2> QED
    BY <1>1, <2>1 DEF LoopInv, QueueAgrees, HostAgrees
<1> QED
  BY <1>1, <1>10, <1>11, <1>12
     DEF LoopInv, Fresh, BatchDrained, OverflowEnds, queueVars

LEMMA HostSendsStays ==
  ASSUME LoopInv, NEW m \in Messages, HostSends(m)
  PROVE  LoopInv'
<1>1. /\ m \in Message /\ HostSays(m) /\ confirmed \in Nat /\ confirmed' = confirmed
      /\ said \in Seq(Message) /\ said' = Append(said, m)
  BY MessagesAssumption DEF HostSends, HostSays, LoopInv, TypeOK, StreamTypeOK
<1> DEFINE options == OptionsIn(said)
<1>2. /\ options \in Seq(OptionMessage) /\ Len(options) \in Nat
      /\ Weight(Negotiated(options)) <= Len(options) - confirmed
      /\ OptionsIn(said)' = IF m.kind = "option" THEN Append(options, m) ELSE options
      /\ m.kind = "option" <=> m \in OptionMessage
  BY <1>1, OptionsInGrow, LenProperties DEF LoopInv, Bounded
<1> HIDE DEF options
<1>3. Bounded'
  <2>1. CASE m.kind # "option"
    BY <1>1, <1>2, <2>1 DEF Bounded
  <2>2. CASE m.kind = "option"
    <3>1. m \in OptionMessage /\ Negotiated(options) \in Sound
      BY <1>2, <2>2, NegotiatedIsSound
    <3>2. Negotiated(Append(options, m)) = NegotiateStep[Negotiated(options)][m]
      BY <1>2, <3>1, NegotiatedIsSound
    <3>3. /\ Weight(Negotiated(options)) \in Nat
          /\ Weight(Negotiated(Append(options, m))) \in Nat
      BY <1>2, <3>1, WeightIsNat
    <3>4. Weight(Negotiated(Append(options, m))) <= Weight(Negotiated(options)) + 1
      BY <3>1, <3>2, CommandKeeps
    <3>5. Len(Append(options, m)) = Len(options) + 1
      BY <1>2, <3>1
    <3> QED
      BY <1>1, <1>2, <2>2, <3>3, <3>4, <3>5 DEF Bounded
  <2> QED
    BY <2>1, <2>2
<1> QED
  BY <1>1, <1>3, HostSaysStays

LEMMA HostConfirmsStays ==
  ASSUME LoopInv, HostConfirms
  PROVE  LoopInv'
<1> DEFINE seen == OptionsSeen(wire)
           options == OptionsIn(said)
           n == Negotiated(options)
           a == seen[confirmed + 1]
<1>1. pc # "start" /\ said \in Seq(Message) /\ confirmed \in Nat
  BY DEF HostConfirms, HostSays, LoopInv, TypeOK, StreamTypeOK
<1>2. seen \in Seq(OptionMessage) /\ IsPrefix(seen, n.answers)
  BY <1>1, AnswersAreCounted
<1>3. /\ confirmed < Len(seen) /\ confirmed' = confirmed + 1
      /\ HostSays(Confirm(a)) /\ said' = Append(said, Confirm(a))
  BY DEF HostConfirms, HostSays
<1>4. options \in Seq(OptionMessage) /\ n \in Sound /\ n.answers \in Seq(OptionMessage)
  BY <1>1, OptionsAreOptions, NegotiatedIsSound DEF Negotiation
<1> HIDE DEF seen, options, n
<1>5. a \in OptionMessage /\ Has(n.answers, a)
  <2>1. confirmed + 1 \in 1..Len(seen) /\ Len(seen) \in Nat
    BY <1>1, <1>2, <1>3, LenProperties
  <2>2. confirmed + 1 \in DOMAIN n.answers /\ n.answers[confirmed + 1] = a
    BY <1>2, <1>4, <2>1, PrefixElements
  <2>3. a \in OptionMessage
    BY <1>2, <2>1, ElementOfSeq
  <2> QED
    BY <2>2, <2>3 DEF Has
<1> DEFINE m == Confirm(a)
           longer == Append(options, m)
<1>6. m \in OptionMessage /\ Weight(NegotiateStep[n][m]) <= Weight(n)
  BY <1>4, <1>5, ConfirmKeeps
<1> HIDE DEF a, m
<1>7. m \in Message /\ m.kind = "option"
  BY <1>6 DEF Message, OptionMessage
<1>8. OptionsIn(said)' = longer
  BY <1>1, <1>3, <1>7, OptionsInGrow DEF m, options
<1>9. Bounded'
  <2>1. Negotiated(longer) = NegotiateStep[n][m]
    BY <1>4, <1>6, NegotiatedIsSound DEF n
  <2>2. Weight(n) \in Nat /\ Weight(Negotiated(longer)) \in Nat
    BY <1>4, <1>6, WeightIsNat DEF n
  <2>3. Len(longer) = Len(options) + 1 /\ Len(options) \in Nat
    BY <1>4, <1>6
  <2>4. Weight(n) <= Len(options) - confirmed
    BY DEF LoopInv, Bounded, n, options
  <2> HIDE DEF longer
  <2>5. Weight(Negotiated(longer)) <= Len(longer) - (confirmed + 1)
    BY <1>1, <1>6, <2>1, <2>2, <2>3, <2>4
  <2> QED
    BY <1>3, <1>8, <2>5 DEF Bounded
<1>10. confirmed' \in Nat /\ HostSays(m)
  BY <1>1, <1>3 DEF m
<1> QED
  BY <1>7, <1>9, <1>10, HostSaysStays

LEMMA StutterStays ==
  ASSUME LoopInv, UNCHANGED vars
  PROVE  LoopInv'
<1>1. /\ UNCHANGED <<state, command, suboption, suboptionFirst, suboptionLength,
                     remoteOptions, localOptions>>
      /\ UNCHANGED <<outgoing, outOffset, outOverflow, intended>>
      /\ UNCHANGED <<inbound, said, confirmed>>
      /\ UNCHANGED <<asciiMode, petsciiEscape>>
      /\ UNCHANGED <<pc, batch, wire, typed, shown>>
  BY DEF vars, telnetVars, queueVars, hostVars, displayVars
<1>2. TypeOK'
  BY <1>1 DEF LoopInv, TypeOK, TelnetTypeOK, LoopTypeOK, QueueTypeOK, StreamTypeOK
<1>3. QueueAgrees' /\ HostAgrees' /\ Bounded'
  <2>1. Waiting' = Waiting /\ wire' = wire /\ typed' = typed
    BY <1>1 DEF Waiting
  <2> QED
    BY <1>1, <2>1 DEF LoopInv, QueueAgrees, HostAgrees, Bounded
<1>4. DisplayAgrees'
  <2>1. CASE pc = "start"
    BY <1>1, <2>1 DEF DisplayAgrees
  <2>2. CASE pc # "start"
    BY <1>1, <2>2, DisplayStays DEF displayVars, telnetVars
  <2> QED
    BY <2>1, <2>2
<1> QED
  BY <1>1, <1>2, <1>3, <1>4 DEF LoopInv, Fresh, BatchDrained, OverflowEnds

LEMMA NextStays ==
  ASSUME LoopInv, [Next]_vars
  PROVE  LoopInv'
<1>1. CASE Poll \/ BatchDone \/ NoKey \/ Check \/ End
  BY <1>1, MovesStay
<1>2. CASE Start
  BY <1>2, StartStays
<1>3. CASE Receive
  BY <1>3, ReceiveStays
<1>4. ASSUME NEW n \in 0..PAYLOAD, Write(n)
      PROVE  LoopInv'
  BY <1>4, WriteStays
<1>5. ASSUME NEW n \in 0..BATCH, Read(n)
      PROVE  LoopInv'
  BY <1>5, ReadStays
<1>6. CASE Reconnect
  BY <1>6, ReconnectStays
<1>7. CASE HostConfirms
  BY <1>7, HostConfirmsStays
<1>8. ASSUME NEW key \in Keys, Press(key)
      PROVE  LoopInv'
  BY <1>8, PressStays
<1>9. ASSUME NEW m \in Messages, HostSends(m)
      PROVE  LoopInv'
  BY <1>9, HostSendsStays
<1>10. CASE UNCHANGED vars
  BY <1>10, StutterStays
<1> QED
  BY <1>1, <1>2, <1>3, <1>4, <1>5, <1>6, <1>7, <1>8, <1>9, <1>10 DEF Next, Loop

\* In every state of the loop the queue, the host's decoder, the Telnet machine
\* and the display agree about the bytes between them.
THEOREM LoopInvariance == Spec => []LoopInv
<1>1. Init => LoopInv
  BY Initially
<1>2. LoopInv /\ [Next]_vars => LoopInv'
  BY NextStays
<1> QED
  BY <1>1, <1>2, PTL DEF Spec

-----------------------------------------------------------------------------
(* The properties.                                                           *)

\* No buffer of terminal() gets more bytes than it has room for, and the Telnet
\* machine keeps to its states and its options.
THEOREM TypesHold == Spec => []TypeOK
<1>1. LoopInv => TypeOK
  BY DEF LoopInv
<1> QED
  BY <1>1, LoopInvariance, PTL

\* The transmit queue of session.c keeps what is handed to enqueue in order and
\* loses nothing of it before an overflow ends the session, whatever part of it
\* the backend's write() takes at a time.
THEOREM WireInOrderHolds == Spec => []WireInOrder
<1>1. LoopInv => WireInOrder
  <2> SUFFICES ASSUME LoopInv PROVE WireInOrder
    OBVIOUS
  <2>1. pc # "start" /\ ~outOverflow => wire \o Unsent = intended
    BY DEF LoopInv, QueueAgrees, GoodQueue, Waiting, Unsent
  <2> QED
    BY <2>1, WireIsPrefix DEF WireInOrder
<1> QED
  BY <1>1, LoopInvariance, PTL

\* What telnet_send_byte and the answers of telnet_receive put on the wire, a
\* decoder of RFC 854 takes for the bytes typed and nothing else, wherever the
\* connection has cut it off.
THEOREM TypedIsDataHolds == Spec => []TypedIsData
<1>1. LoopInv => TypedIsData
  <2> SUFFICES ASSUME LoopInv PROVE TypedIsData
    OBVIOUS
  <2>1. /\ wire \in Seq(Byte) /\ intended \in Seq(Byte) /\ HostStart \in Decoder
        /\ HostSees(intended).at = "data" /\ HostSees(intended).data = typed
    BY NothingIsHeard
       DEF LoopInv, TypeOK, QueueTypeOK, StreamTypeOK, HostAgrees, Heard, Waiting
  <2>2. /\ IsPrefix(HostSees(wire).data, HostSees(intended).data)
        /\ HostSees(wire).at = "error" => HostSees(intended).at = "error"
    BY <2>1, WireIsPrefix, MoreIsSeen
  <2> QED
    BY <2>1, <2>2 DEF TypedIsData
<1> QED
  BY <1>1, LoopInvariance, PTL

\* What the host sends as data, and nothing of its commands, is what
\* telnet_receive puts out and the display in use shows, however read() cuts it
\* into batches.
THEOREM HostDataShownHolds == Spec => []HostDataShown
<1>1. LoopInv => HostDataShown
  <2> SUFFICES ASSUME LoopInv, pc # "start" PROVE HostDataShown
    BY DEF HostDataShown, Quiet
  <2> DEFINE wanted == IF asciiMode THEN DataIn(said)
                       ELSE PetsciiShows(DataIn(said)).shown
             coming == batch \o inbound
  <2>1. PICK d \in Decoder : Decodes(d)
    BY DEF LoopInv, DisplayAgrees
  <2> DEFINE e == Run(HostStep, d, coming)
  <2>2. /\ coming \in Seq(Byte) /\ asciiMode \in BOOLEAN /\ shown \in Seq(Byte)
        /\ d.data \in Seq(Byte)
    BY DEF LoopInv, TypeOK, LoopTypeOK, StreamTypeOK, Decoder
  <2>3. Follows(d.at) /\ Shows(d.data) /\ e.at = "data" /\ e.data = DataIn(said)
    BY <2>1 DEF Decodes
  <2>4. Quiet => e = d
    <3> SUFFICES ASSUME Quiet PROVE e = d
      OBVIOUS
    <3>1. coming = <<>>
      BY DEF Quiet
    <3> HIDE DEF coming
    <3> QED
      BY <3>1, RunEmpty
  <2>5. e \in Decoder /\ IsPrefix(d.data, e.data)
    BY <2>2, HostOnlyAdds
  <2> HIDE DEF e, coming
  <2>6. IsPrefix(shown, wanted)
    <3>1. CASE asciiMode
      BY <2>3, <2>5, <3>1 DEF Shows
    <3>2. CASE ~asciiMode
      <4>1. PICK more \in Seq(Byte) : e.data = d.data \o more
        BY <2>2, <2>5, PrefixIsPart DEF Decoder
      <4>2. PetsciiShows(d.data).shown = shown
        BY <2>3, <3>2 DEF Shows
      <4> QED
        BY <2>2, <2>3, <3>2, <4>1, <4>2, PetsciiOnlyAdds
    <3> QED
      BY <3>1, <3>2
  <2>7. Quiet => shown = wanted /\ state = "DATA"
    BY <2>2, <2>3, <2>4 DEF Shows, Follows
  <2> QED
    BY <2>6, <2>7 DEF HostDataShown
<1> QED
  BY <1>1, LoopInvariance, PTL

\* negotiate() answers a confirmation of one of its own commands with nothing, or
\* with an answer that the host's own commands were still owed: what the terminal
\* has sent is bounded by what the host asked of its own accord.
THEOREM NoNegotiationLoopHolds == Spec => []NoNegotiationLoop
<1>1. LoopInv => NoNegotiationLoop
  <2> SUFFICES ASSUME LoopInv PROVE NoNegotiationLoop
    OBVIOUS
  <2>1. CASE pc = "start"
    <3>1. intended = <<>> /\ said = <<>> /\ confirmed = 0
      BY <2>1 DEF LoopInv, Fresh
    <3> QED
      BY <3>1, NothingIsHeard, NothingIsBounded DEF NoNegotiationLoop
  <2>2. CASE pc # "start"
    <3> DEFINE options == OptionsIn(said)
               handed == OptionsSeen(intended)
               answers == Negotiated(options).answers
    <3>1. /\ handed \in Seq(OptionMessage) /\ answers \in Seq(OptionMessage)
          /\ IsPrefix(handed, answers)
      BY <2>2, AnswersAreCounted
    <3>2. said \in Seq(Message) /\ confirmed \in Nat
      BY DEF LoopInv, TypeOK, StreamTypeOK
    <3>3. options \in Seq(OptionMessage)
      BY <3>2, OptionsAreOptions
    <3>4. Weight(Negotiated(options)) <= Len(options) - confirmed
      BY DEF LoopInv, Bounded
    <3> HIDE DEF handed, options
    <3>5. /\ Len(answers) <= Weight(Negotiated(options))
          /\ Weight(Negotiated(options)) \in Nat
      BY <3>3, WeightIsNat
    <3> HIDE DEF answers
    <3>6. /\ Len(handed) <= Len(answers) /\ Len(handed) \in Nat /\ Len(answers) \in Nat
          /\ Len(options) \in Nat
      BY <3>1, <3>3, PrefixElements, LenProperties
    <3>7. Len(handed) <= Len(options) - confirmed
      BY <3>2, <3>4, <3>5, <3>6
    <3> QED
      BY <3>7 DEF NoNegotiationLoop, handed, options
  <2> QED
    BY <2>1, <2>2
<1> QED
  BY <1>1, LoopInvariance, PTL

\* The options of telnet.c are those that the host asked for last, and the last
\* answer about an option that is on said so, however commands and confirmations
\* cross.
THEOREM OptionsAgreeHolds == Spec => []OptionsAgree
<1>1. LoopInv => OptionsAgree
  <2> SUFFICES ASSUME LoopInv, Quiet PROVE OptionsAgree
    BY DEF OptionsAgree
  <2> DEFINE options == OptionsIn(said)
             handed == OptionsSeen(intended)
             n == Negotiated(options)
  <2>1. PICK d \in Decoder : Decodes(d)
    BY DEF LoopInv, DisplayAgrees, Quiet
  <2>2. d.options = options
    <3> DEFINE coming == batch \o inbound
    <3>1. coming = <<>> /\ Run(HostStep, d, coming).options = options
      BY <2>1 DEF Quiet, Decodes
    <3> HIDE DEF coming
    <3> QED
      BY <3>1, RunEmpty
  <2>3. n.local = localOptions /\ n.remote = remoteOptions /\ n.answers = handed
    BY <2>1, <2>2 DEF Decodes, Obeys, Current
  <2>4. /\ options \in Seq(OptionMessage) /\ n \in Sound
        /\ n.local \subseteq LocalAccepted /\ n.remote \subseteq RemoteAccepted
    <3>1. said \in Seq(Message)
      BY DEF LoopInv, TypeOK, StreamTypeOK
    <3> QED
      BY <3>1, OptionsAreOptions, NegotiatedIsSound DEF Negotiation
  <2>5. /\ \A o \in LocalAccepted : o \in n.local <=> LastIs(options, DO, DONT, o)
        /\ \A o \in RemoteAccepted : o \in n.remote <=> LastIs(options, WILL, WONT, o)
    BY <2>4, LastDecides DEF OnIfLast
  <2> HIDE DEF n, options, handed
  <2>6. /\ \A o \in n.local :
             Has(handed, Option(WILL, o)) /\ ~Has(handed, Option(WONT, o))
        /\ \A o \in n.remote :
             Has(handed, Option(DO, o)) /\ ~Has(handed, Option(DONT, o))
    BY <2>3, <2>4 DEF Sound
  <2>7. \A v, w, o : Has(handed, Option(v, o)) /\ ~Has(handed, Option(w, o))
                       => LastIs(handed, v, w, o)
    BY DEF Has, LastIs
  <2> QED
    BY <2>3, <2>5, <2>6, <2>7 DEF OptionsAgree, options, handed
<1> QED
  BY <1>1, LoopInvariance, PTL
=============================================================================
