------------------------------ MODULE AnsiProofs ------------------------------
(* Theorems of the ANSI terminal.  What the runs of the video chip do to its   *)
(* RAM comes first, then what each function makes of the two pages, and from   *)
(* these the invariant and that the terminal implements a screen.              *)
EXTENDS AnsiTerminal, BasicLemmas

-----------------------------------------------------------------------------
(* Numbers.                                                                  *)

\* A run is cut into chunks, the last of them from one byte to CHUNK.
LEMMA Chunked ==
  ASSUME NEW n \in Nat \ {0}
  PROVE  Before(n) \in 0..(n - 1) /\ n - Before(n) \in 1..CHUNK
<1> DEFINE q == (n - 1) \div CHUNK
<1>1. /\ CHUNK \in Nat \ {0} /\ n - 1 \in Nat
      BY VdcAssumption
<1>2. q \in Nat /\ (n - 1) % CHUNK \in 0..(CHUNK - 1)
      /\ n - 1 = CHUNK * q + ((n - 1) % CHUNK)
  BY <1>1, Division
<1>3. CHUNK * q \in Nat
  BY <1>1, <1>2
<1>4. Before(n) = CHUNK * q
  BY DEF Before
<1> HIDE DEF q
<1> QED
  BY <1>1, <1>2, <1>3, <1>4

\* The smaller and the larger of two numbers.
LEMMA Least ==
  ASSUME NEW a \in Int, NEW b \in Int
  PROVE  Min({a, b}) = IF a <= b THEN a ELSE b
<1> DEFINE m == IF a <= b THEN a ELSE b
<1>1. m \in {a, b} /\ \A y \in {a, b} : m <= y
  OBVIOUS
<1>2. ASSUME NEW x \in {a, b}, \A y \in {a, b} : x <= y
      PROVE  x = m
  BY <1>2
<1> QED
  BY <1>1, <1>2 DEF Min

LEMMA Greatest ==
  ASSUME NEW a \in Int, NEW b \in Int
  PROVE  Max({a, b}) = IF a >= b THEN a ELSE b
<1> DEFINE m == IF a >= b THEN a ELSE b
<1>1. m \in {a, b} /\ \A y \in {a, b} : m >= y
  OBVIOUS
<1>2. ASSUME NEW x \in {a, b}, \A y \in {a, b} : x >= y
      PROVE  x = m
  BY <1>2
<1> QED
  BY <1>1, <1>2 DEF Max

-----------------------------------------------------------------------------
(* The runs of the video chip.                                               *)

Octet == 0..255

Memories == [Address -> Octet]

Chips ==
  [mem: Memories, copy: BOOLEAN, cursor: Address, shown: BOOLEAN,
   font: {"SYSTEM", "CP437", "PART"}, fontActive: BOOLEAN]

\* The chip with other contents.
Holding(d, m) == [d EXCEPT !.mem = m]

\* A chip that is given other contents is a chip.
LEMMA HoldingType ==
  ASSUME NEW d \in Chips, NEW m \in Memories
  PROVE  /\ Holding(d, m) \in Chips /\ Holding(d, m).mem = m
         /\ Holding(d, m).copy = d.copy /\ Holding(d, m).font = d.font
         /\ Holding(d, m).fontActive = d.fontActive
         /\ Holding(d, d.mem) = d
         /\ \A u : Holding(Holding(d, m), u) = Holding(d, u)
  BY DEF Holding, Chips

\* n bytes from one address on hold one value.
Filled(m, to, n, value) ==
  [a \in Address |-> IF a \in to..(to + n - 1) THEN value ELSE m[a]]

\* n bytes from one address on hold what stood at a higher one.
Moved(m, to, from, n) ==
  [a \in Address |-> IF a \in to..(to + n - 1) THEN m[a + (from - to)] ELSE m[a]]

\* Contents with a run filled or moved are contents.
LEMMA FilledType ==
  ASSUME NEW m \in Memories, NEW to \in Nat, NEW n \in Nat, NEW value \in Octet
  PROVE  Filled(m, to, n, value) \in Memories
  BY DEF Filled, Memories

LEMMA MovedType ==
  ASSUME NEW m \in Memories, NEW to \in Nat, NEW from \in Nat, NEW n \in Nat,
         from >= to, from + n <= MEM
  PROVE  Moved(m, to, from, n) \in Memories
<1>1. ASSUME NEW a \in Address
      PROVE  Moved(m, to, from, n)[a] \in Octet
  <2>1. CASE a \in to..(to + n - 1)
    <3>1. a + (from - to) \in Address
      BY <2>1, VdcAssumption DEF Address
    <3> QED
      BY <2>1, <3>1 DEF Moved, Memories
  <2>2. CASE a \notin to..(to + n - 1)
    BY <2>2 DEF Moved, Memories
  <2> QED
    BY <2>1, <2>2
<1> QED
  BY <1>1 DEF Moved, Memories

\* Addresses below the end of the RAM do not wrap.
LEMMA Within ==
  ASSUME NEW a \in Nat, a < MEM
  PROVE  a % MEM = a /\ a \in Address
  BY VdcAssumption DEF Address

\* A word count reaches the addresses of its run; 0 stands for CHUNK.
LEMMA BlockIs ==
  ASSUME NEW to \in Nat, NEW n \in Nat, to + n <= MEM
  PROVE  /\ n # 0 => Block(to, n) = to..(to + n - 1)
         /\ (n = 0 /\ to + CHUNK <= MEM) => Block(to, n) = to..(to + CHUNK - 1)
<1> DEFINE c == IF n = 0 THEN CHUNK ELSE n
<1> SUFFICES ASSUME to + c <= MEM
             PROVE  Block(to, n) = to..(to + c - 1)
  OBVIOUS
<1>1. c \in Nat \ {0} /\ MEM \in Nat
  BY VdcAssumption
<1>2. Block(to, n) = {(to + k) % MEM : k \in 0..(c - 1)}
  BY DEF Block
<1> HIDE DEF c
<1>3. ASSUME NEW k \in 0..(c - 1) PROVE (to + k) % MEM = to + k
  <2>1. to + k \in Nat /\ to + k < MEM
    BY <1>1
  <2> QED
    BY <2>1, Within
<1>4. ASSUME NEW a \in to..(to + c - 1)
      PROVE  a - to \in 0..(c - 1) /\ to + (a - to) = a
  BY <1>1
<1>5. \A k \in 0..(c - 1) : to + k \in to..(to + c - 1)
  BY <1>1
<1> QED
  BY <1>2, <1>3, <1>4, <1>5

\* A byte is stored at its address.
LEMMA StoreIs ==
  ASSUME NEW d, NEW to \in Nat, to < MEM, NEW value
  PROVE  Store(d, to, value) = [d EXCEPT !.mem[to] = value]
  BY Within DEF Store

\* One chunk of a fill.
LEMMA FillChunkIs ==
  ASSUME NEW d \in Chips, d.copy = FALSE, NEW to \in Nat, NEW n \in Nat, n # 0,
         n <= CHUNK, to + n <= MEM, NEW value \in Octet
  PROVE  FillChunk(d, to, value, n) = Holding(d, Filled(d.mem, to, n, value))
<1>1. CHUNK \in Nat /\ MEM \in Nat
  BY VdcAssumption
<1> DEFINE m == [d.mem EXCEPT ![to] = value]
           first == Store([d EXCEPT !.copy = FALSE], to, value)
<1>2. to \in Address /\ to < MEM
  BY <1>1 DEF Address
<1>3. first = Holding(d, m)
  <2>1. [d EXCEPT !.copy = FALSE] = d
    BY DEF Chips
  <2>2. Store(d, to, value) = [d EXCEPT !.mem = m]
    BY ZenonT(30), <1>2, StoreIs
  <2> QED
    BY <2>1, <2>2 DEF Holding
<1>4. m = [a \in Address |-> IF a = to THEN value ELSE d.mem[a]]
  BY <1>2 DEF Chips, Memories
<1>5. CASE n = 1
  <2>1. Filled(d.mem, to, n, value) = m
    <3>1. \A a \in Address : a \in to..(to + n - 1) <=> a = to
      BY <1>5 DEF Address
    <3> QED
      BY <1>4, <3>1 DEF Filled
  <2> QED
    BY <1>3, <1>5, <2>1 DEF FillChunk
<1>6. CASE n # 1
  <2>1. n - 1 \in Nat /\ n - 1 # 0 /\ to + 1 \in Nat /\ (to + 1) + (n - 1) <= MEM
    BY <1>1, <1>6
  <2>2. Block(to + 1, n - 1) = (to + 1)..(to + n - 1)
    <3>1. (to + 1) + (n - 1) - 1 = to + n - 1
      BY <1>1
    <3> QED
      BY <2>1, <3>1, BlockIs
  <2>3. WordCount(first, to + 1, 0, value, n - 1) =
          [first EXCEPT !.mem =
             [a \in Address |-> IF a \notin (to + 1)..(to + n - 1) THEN first.mem[a]
                                ELSE IF first.copy THEN first.mem[(0 + (a - (to + 1))) % MEM]
                                ELSE value]]
    BY <2>2 DEF WordCount
  <2>4. first.copy = FALSE /\ first.mem = m /\ m \in Memories
    BY <1>2, <1>3 DEF Chips, Holding, Memories
  <2>5. [a \in Address |-> IF a \notin (to + 1)..(to + n - 1) THEN first.mem[a]
                           ELSE IF first.copy THEN first.mem[(0 + (a - (to + 1))) % MEM]
                           ELSE value] = Filled(d.mem, to, n, value)
    <3>1. \A a \in Address : a \in to..(to + n - 1) <=> a = to \/ a \in (to + 1)..(to + n - 1)
      BY <1>1 DEF Address
    <3> HIDE DEF first, m
    <3> QED
      BY <1>4, <2>4, <3>1 DEF Filled
  <2>6. FillChunk(d, to, value, n) = Holding(first, Filled(d.mem, to, n, value))
    BY <1>6, <2>3, <2>5 DEF FillChunk, Holding
  <2> HIDE DEF m, first
  <2> QED
    BY <1>3, <2>4, <2>6, HoldingType
<1> QED
  BY <1>5, <1>6

\* Filling a run and then the next fills both as one.
LEMMA FilledTwice ==
  ASSUME NEW m \in Memories, NEW to \in Nat, NEW b \in Nat, NEW n \in Nat,
         NEW value \in Octet
  PROVE  Filled(Filled(m, to, b, value), to + b, n, value) = Filled(m, to, b + n, value)
<1>1. \A a \in Address : a \in to..(to + (b + n) - 1) <=>
        a \in (to + b)..(to + b + n - 1) \/ a \in to..(to + b - 1)
  BY VdcAssumption DEF Address
<1>2. \A a \in Address : Filled(m, to, b, value)[a] =
        IF a \in to..(to + b - 1) THEN value ELSE m[a]
  BY DEF Filled
<1>3. Filled(Filled(m, to, b, value), to + b, n, value) =
        [a \in Address |-> IF a \in (to + b)..(to + b + n - 1) THEN value
                           ELSE Filled(m, to, b, value)[a]]
  BY DEF Filled
<1> QED
  BY <1>1, <1>2, <1>3 DEF Filled

\* screen_fill_run fills its run, no less and no more.
THEOREM FillRunIs ==
  ASSUME NEW d \in Chips, d.copy = FALSE, NEW to \in Nat, NEW n \in Nat,
         to + n <= MEM, NEW value \in Octet
  PROVE  FillRun(d, to, value, n) = Holding(d, Filled(d.mem, to, n, value))
<1> DEFINE G(k) == Holding(d, Filled(d.mem, to, k, value))
           Step(k, before) == IF k = 0 THEN d
                              ELSE FillChunk(before, to + Before(k), value, k - Before(k))
           f == [k \in 0..n |-> G(k)]
           run == CHOOSE g : g = [k \in 0..n |-> Step(k, g[Before(k)])]
<1>1. ASSUME NEW k \in 0..n, k # 0
      PROVE  /\ Before(k) \in 0..n /\ Before(k) < k
             /\ FillChunk(G(Before(k)), to + Before(k), value, k - Before(k)) = G(k)
  <2> DEFINE b == Before(k)
             c == k - b
             p == to + b
             m == Filled(d.mem, to, b, value)
             e == Holding(d, m)
  <2>1. b \in 0..(k - 1) /\ c \in 1..CHUNK
    BY <1>1, Chunked
  <2>2. /\ b \in Nat /\ b < k /\ b \in 0..n
        /\ c \in Nat /\ c # 0 /\ c <= CHUNK /\ b + c = k
        /\ p \in Nat /\ p + c <= MEM
    <3> HIDE DEF b
    <3>1. CHUNK \in Nat /\ MEM \in Nat /\ k \in Nat /\ k <= n
      BY VdcAssumption
    <3> QED
      BY <2>1, <3>1
  <2> HIDE DEF b, c
  <2>3. d.mem \in Memories /\ m \in Memories
    BY <2>2, FilledType DEF Chips
  <2>4. Filled(m, p, c, value) = Filled(d.mem, to, k, value)
    <3>1. Filled(m, p, c, value) = Filled(d.mem, to, b + c, value)
      BY ONLY SMTT(30), <2>2, <2>3, to \in Nat, value \in Octet, FilledTwice
    <3> HIDE DEF m, p
    <3> QED
      BY <2>2, <3>1
  <2> HIDE DEF m, p
  <2>5. /\ e \in Chips /\ e.mem = m /\ e.copy = FALSE
        /\ \A u : Holding(e, u) = Holding(d, u)
    BY <2>3, HoldingType
  <2> HIDE DEF e
  <2>6. FillChunk(e, p, value, c) = Holding(e, Filled(m, p, c, value))
    BY ONLY <2>2, <2>5, value \in Octet, FillChunkIs
  <2>7. FillChunk(e, p, value, c) = G(k)
    BY <2>4, <2>5, <2>6
  <2> HIDE DEF G
  <2>8. e = G(b)
    BY DEF m, G, e
  <2> QED
    BY <2>2, <2>7, <2>8 DEF b, c, p
<1>2. G(0) = d
  <2>1. Filled(d.mem, to, 0, value) = d.mem
    BY DEF Filled, Chips, Memories
  <2> QED
    BY <2>1 DEF Chips, Holding
<1>3. f = [k \in 0..n |-> Step(k, f[Before(k)])]
  <2>1. ASSUME NEW k \in 0..n
        PROVE  G(k) = Step(k, f[Before(k)])
    <3>1. CASE k = 0
      BY <1>2, <3>1
    <3>2. CASE k # 0
      <4>1. f[Before(k)] = G(Before(k))
        BY <1>1, <3>2
      <4> HIDE DEF f, G
      <4> QED
        BY <1>1, <3>2, <4>1
    <3> QED
      BY <3>1, <3>2
  <2> HIDE DEF G, Step
  <2> QED
    BY <2>1
<1>4. run = [k \in 0..n |-> Step(k, run[Before(k)])]
  <2> HIDE DEF f, Step
  <2> QED
    BY <1>3
<1>5. FillRun(d, to, value, n) = run[n]
  BY DEF FillRun
<1> HIDE DEF run
<1>6. ASSUME {k \in 0..n : run[k] # G(k)} # {}
      PROVE  FALSE
  <2> DEFINE T == {k \in 0..n : run[k] # G(k)}
  <2>1. T \subseteq Nat /\ T # {}
    BY <1>6
  <2>2. PICK k \in T : \A j \in T : ~(j < k)
    <3> HIDE DEF T
    <3> QED
      BY <2>1, LeastOf
  <2>3. run[k] = Step(k, run[Before(k)]) /\ k \in 0..n
    <3> HIDE DEF Step
    <3> QED
      BY <1>4
  <2>4. k # 0
    BY <1>2, <2>3
  <2>5. run[Before(k)] = G(Before(k))
    <3>1. Before(k) \in 0..n /\ Before(k) < k
      BY <1>1, <2>3, <2>4
    <3> HIDE DEF G
    <3> QED
      BY <2>2, <3>1
  <2> HIDE DEF G
  <2>6. run[k] = G(k)
    BY <1>1, <2>3, <2>4, <2>5
  <2> QED
    BY <2>6
<1>7. run[n] = G(n)
  <2> HIDE DEF G
  <2> QED
    BY <1>6
<1> QED
  BY <1>5, <1>7

Copying(d) == [d EXCEPT !.copy = TRUE]

\* The copy bit leaves the contents alone.
LEMMA CopyingType ==
  ASSUME NEW d \in Chips
  PROVE  /\ Copying(d) \in Chips /\ Copying(d).mem = d.mem
         /\ \A u : Copying(Holding(Copying(d), u)) = Copying(Holding(d, u))
         /\ d.copy = FALSE => [d EXCEPT !.copy = FALSE] = d
         /\ d.copy = FALSE => [Copying(d) EXCEPT !.copy = FALSE] = d
  BY DEF Copying, Holding, Chips

\* Moving a run and then the next to lower addresses moves both as one.
LEMMA MovedTwice ==
  ASSUME NEW m \in Memories, NEW to \in Nat, NEW from \in Nat, from >= to,
         NEW b \in Nat, NEW n \in Nat, from + b + n <= MEM
  PROVE  Moved(Moved(m, to, from, b), to + b, from + b, n) = Moved(m, to, from, b + n)
<1> DEFINE u == Moved(m, to, from, b)
           v == Moved(m, to, from, b + n)
           w == Moved(u, to + b, from + b, n)
<1>1. ASSUME NEW a \in Address
      PROVE  w[a] = v[a]
  <2>1. MEM \in Nat /\ a \in Nat
    BY VdcAssumption DEF Address
  <2>2. u[a] = IF a \in to..(to + b - 1) THEN m[a + (from - to)] ELSE m[a]
    BY DEF Moved
  <2>3. v[a] = IF a \in to..(to + (b + n) - 1) THEN m[a + (from - to)] ELSE m[a]
    BY DEF Moved
  <2>4. w[a] = IF a \in (to + b)..(to + b + n - 1) THEN u[a + (from - to)] ELSE u[a]
    <3>1. (from + b) - (to + b) = from - to
      OBVIOUS
    <3> HIDE DEF u
    <3> QED
      BY <3>1 DEF Moved
  <2>5. CASE a \in (to + b)..(to + b + n - 1)
    <3> DEFINE c == a + (from - to)
    <3>1. c \in Address /\ c \notin to..(to + b - 1)
      BY <2>1, <2>5 DEF Address
    <3>2. u[c] = m[c]
      BY <3>1 DEF Moved
    <3>3. a \in to..(to + (b + n) - 1)
      BY <2>1, <2>5
    <3> HIDE DEF u, v, w
    <3> QED
      BY <2>3, <2>4, <2>5, <3>2, <3>3
  <2>6. CASE a \notin (to + b)..(to + b + n - 1)
    <3>1. a \in to..(to + (b + n) - 1) <=> a \in to..(to + b - 1)
      BY <2>1, <2>6
    <3> HIDE DEF u, v, w
    <3> QED
      BY <2>2, <2>3, <2>4, <2>6, <3>1
  <2> HIDE DEF w, v
  <2> QED
    BY <2>5, <2>6
<1>2. w = [a \in Address |-> w[a]] /\ v = [a \in Address |-> v[a]]
  BY DEF Moved
<1> HIDE DEF w, v
<1>3. w = v
  BY <1>1, <1>2
<1> QED
  BY <1>3 DEF w, v, u

\* One chunk of a copy.
LEMMA CopyChunkIs ==
  ASSUME NEW d \in Chips, NEW to \in Nat, NEW from \in Nat, from >= to,
         NEW n \in Nat, n # 0, n <= CHUNK, from + n <= MEM
  PROVE  CopyChunk(d, to, from, n) = Copying(Holding(d, Moved(d.mem, to, from, n)))
<1>1. CHUNK \in Nat \ {0} /\ MEM \in Nat \ {0} /\ to + n <= MEM
  BY VdcAssumption
<1>2. Block(to, n % CHUNK) = to..(to + n - 1)
  <2>1. CASE n = CHUNK
    <3>1. n % CHUNK = 0
      <4>1. n = CHUNK * 1 + 0
        BY <1>1, <2>1
      <4>2. n % CHUNK \in 0..(CHUNK - 1) /\ n = CHUNK * (n \div CHUNK) + (n % CHUNK)
        BY <1>1, Division
      <4>3. (CHUNK * 1 + 0) \div CHUNK = 1
        BY <1>1, Quotient
      <4> QED
        BY <1>1, <2>1, <4>1, <4>2, <4>3
    <3>2. to + 0 <= MEM /\ to + CHUNK <= MEM
      BY <1>1, <2>1
    <3> QED
      BY <2>1, <3>1, <3>2, BlockIs
  <2>2. CASE n # CHUNK
    <3>1. n < CHUNK
      BY <1>1, <2>2
    <3>2. n % CHUNK = n
      <4>1. n % CHUNK \in 0..(CHUNK - 1) /\ n = CHUNK * (n \div CHUNK) + (n % CHUNK)
        BY <1>1, Division
      <4>2. (CHUNK * 0 + n) \div CHUNK = 0
        BY <1>1, <3>1, Quotient
      <4>3. CHUNK * 0 + n = n
        BY <1>1
      <4> QED
        BY <1>1, <4>1, <4>2, <4>3
    <3> QED
      BY <1>1, <3>2, BlockIs
  <2> QED
    BY <2>1, <2>2
<1> DEFINE c == Copying(d)
           u == [a \in Address |-> IF a \notin to..(to + n - 1) THEN c.mem[a]
                                   ELSE IF c.copy THEN c.mem[(from + (a - to)) % MEM]
                                   ELSE 0]
<1>3. CopyChunk(d, to, from, n) = [c EXCEPT !.mem = u]
  BY <1>2 DEF CopyChunk, WordCount, Copying
<1>4. c.mem = d.mem /\ c.copy = TRUE
  BY DEF Copying, Chips
<1>5. u = Moved(d.mem, to, from, n)
  <2>1. ASSUME NEW a \in Address, a \in to..(to + n - 1)
        PROVE  (from + (a - to)) % MEM = a + (from - to)
    <3>1. from + (a - to) \in Nat /\ from + (a - to) < MEM
      BY <1>1, <2>1 DEF Address
    <3> QED
      BY <1>1, <3>1, <2>1, Within DEF Address
  <2> HIDE DEF c
  <2> QED
    BY <1>4, <2>1 DEF Moved
<1>6. [c EXCEPT !.mem = u] = Copying(Holding(d, u))
  <2> HIDE DEF u
  <2> QED
    BY DEF Copying, Holding, Chips
<1> HIDE DEF u, c
<1> QED
  BY <1>3, <1>5, <1>6

\* screen_copy_run copies its run to lower addresses, and leaves no copy bit.
THEOREM CopyRunIs ==
  ASSUME NEW d \in Chips, d.copy = FALSE, NEW to \in Nat, NEW from \in Nat,
         from >= to, NEW n \in Nat, from + n <= MEM
  PROVE  CopyRun(d, to, from, n) = Holding(d, Moved(d.mem, to, from, n))
<1> DEFINE G(k) == IF k = 0 THEN d ELSE Copying(Holding(d, Moved(d.mem, to, from, k)))
           Step(k, before) == IF k = 0 THEN d
                              ELSE CopyChunk(before, to + Before(k), from + Before(k),
                                             k - Before(k))
           f == [k \in 0..n |-> G(k)]
           run == CHOOSE g : g = [k \in 0..n |-> Step(k, g[Before(k)])]
<1>1. Moved(d.mem, to, from, 0) = d.mem
  BY DEF Moved, Chips, Memories
<1>2. ASSUME NEW k \in 0..n, k # 0
      PROVE  /\ Before(k) \in 0..n /\ Before(k) < k
             /\ CopyChunk(G(Before(k)), to + Before(k), from + Before(k),
                          k - Before(k)) = G(k)
  <2> DEFINE b == Before(k)
             c == k - b
             p == to + b
             q == from + b
             m == Moved(d.mem, to, from, b)
             e == G(b)
  <2>1. b \in 0..(k - 1) /\ c \in 1..CHUNK
    BY <1>2, Chunked
  <2>2. /\ b \in Nat /\ b < k /\ b \in 0..n /\ from + b <= MEM
        /\ c \in Nat /\ c # 0 /\ c <= CHUNK /\ b + c = k /\ from + b + c <= MEM
        /\ p \in Nat /\ q \in Nat /\ q >= p /\ q + c <= MEM
    <3> HIDE DEF b
    <3>1. CHUNK \in Nat /\ MEM \in Nat /\ k \in Nat /\ k <= n
      BY VdcAssumption
    <3> QED
      BY <2>1, <3>1
  <2> HIDE DEF b, c
  <2>3. d.mem \in Memories /\ m \in Memories
    BY <2>2, MovedType DEF Chips
  <2>4. Moved(m, p, q, c) = Moved(d.mem, to, from, k)
    <3>1. Moved(m, p, q, c) = Moved(d.mem, to, from, b + c)
      BY ONLY <2>2, <2>3, to \in Nat, from \in Nat, from >= to, MovedTwice
    <3> HIDE DEF m, p, q
    <3> QED
      BY <2>2, <3>1
  <2>5. e \in Chips /\ e.mem = m
        /\ \A u : Copying(Holding(e, u)) = Copying(Holding(d, u))
    <3>1. CASE b = 0
      <4>1. e = d /\ m = d.mem
        BY <1>1, <3>1
      <4> HIDE DEF e, m
      <4> QED
        BY <4>1
    <3>2. CASE b # 0
      <4> DEFINE h == Holding(d, m)
      <4>1. e = Copying(h)
        BY <3>2
      <4> HIDE DEF e, m
      <4>2. h \in Chips /\ h.mem = m /\ \A u : Holding(h, u) = Holding(d, u)
        BY <2>3, HoldingType
      <4> HIDE DEF h
      <4>3. /\ Copying(h) \in Chips /\ Copying(h).mem = m
            /\ \A u : Copying(Holding(Copying(h), u)) = Copying(Holding(h, u))
        BY <4>2, CopyingType
      <4> QED
        BY <4>1, <4>2, <4>3
    <3> QED
      BY <3>1, <3>2
  <2> HIDE DEF m, p, q, e
  <2>6. CopyChunk(e, p, q, c) = Copying(Holding(e, Moved(m, p, q, c)))
    BY ONLY <2>2, <2>5, CopyChunkIs
  <2>7. CopyChunk(e, p, q, c) = G(k)
    BY <1>2, <2>4, <2>5, <2>6
  <2> HIDE DEF G
  <2> QED
    BY <2>2, <2>7 DEF b, c, p, q, e
<1>3. f = [k \in 0..n |-> Step(k, f[Before(k)])]
  <2>1. ASSUME NEW k \in 0..n
        PROVE  G(k) = Step(k, f[Before(k)])
    <3>1. CASE k = 0
      BY <3>1
    <3>2. CASE k # 0
      <4>1. f[Before(k)] = G(Before(k))
        BY <1>2, <3>2
      <4> HIDE DEF f, G
      <4> QED
        BY <1>2, <3>2, <4>1
    <3> QED
      BY <3>1, <3>2
  <2> HIDE DEF G, Step
  <2> QED
    BY <2>1
<1>4. run = [k \in 0..n |-> Step(k, run[Before(k)])]
  <2> HIDE DEF f, Step
  <2> QED
    BY <1>3
<1>5. CopyRun(d, to, from, n) = [run[n] EXCEPT !.copy = FALSE]
  BY DEF CopyRun
<1> HIDE DEF run
<1>6. ASSUME {k \in 0..n : run[k] # G(k)} # {}
      PROVE  FALSE
  <2> DEFINE T == {k \in 0..n : run[k] # G(k)}
  <2>1. T \subseteq Nat /\ T # {}
    BY <1>6
  <2>2. PICK k \in T : \A j \in T : ~(j < k)
    <3> HIDE DEF T
    <3> QED
      BY <2>1, LeastOf
  <2>3. run[k] = Step(k, run[Before(k)]) /\ k \in 0..n
    <3> HIDE DEF Step
    <3> QED
      BY <1>4
  <2>4. k # 0
    BY <2>3
  <2>5. run[Before(k)] = G(Before(k))
    <3>1. Before(k) \in 0..n /\ Before(k) < k
      BY <1>2, <2>3, <2>4
    <3> HIDE DEF G
    <3> QED
      BY <2>2, <3>1
  <2> HIDE DEF G
  <2>6. run[k] = G(k)
    BY <1>2, <2>3, <2>4, <2>5
  <2> QED
    BY <2>6
<1>7. run[n] = G(n)
  <2> HIDE DEF G
  <2> QED
    BY <1>6
<1>8. CASE n = 0
  <2>1. [d EXCEPT !.copy = FALSE] = d /\ Holding(d, d.mem) = d
    BY CopyingType, HoldingType DEF Chips
  <2> QED
    BY <1>1, <1>5, <1>7, <1>8, <2>1
<1>9. CASE n # 0
  <2> DEFINE h == Holding(d, Moved(d.mem, to, from, n))
  <2>1. Moved(d.mem, to, from, n) \in Memories
    BY MovedType DEF Chips
  <2>2. h \in Chips /\ h.copy = FALSE
    BY <2>1, HoldingType
  <2>3. run[n] = Copying(h)
    BY <1>7, <1>9
  <2> HIDE DEF h
  <2>4. [Copying(h) EXCEPT !.copy = FALSE] = h
    BY <2>2, CopyingType
  <2> QED
    BY <1>5, <2>3, <2>4 DEF h
<1> QED
  BY <1>8, <1>9

-----------------------------------------------------------------------------
(* Parameters are octets.                                                    *)

\* All digits but the last give a smaller number.
LEMMA Tenth ==
  ASSUME NEW k \in Nat, k >= 10
  PROVE  k \div 10 \in 0..(k - 1) /\ k % 10 \in 0..9
  OBVIOUS

\* A parameter is folded into eight bits, whatever number was sent.
LEMMA DigitsType ==
  ASSUME NEW n \in Nat
  PROVE  Digits(n) \in Octet
<1> DEFINE Step(k, v) == IF k < 10 THEN k
                         ELSE IF v > 25 THEN 255 ELSE (v * 10 + (k % 10)) % 256
           Runs(m, f) == \A k \in 0..m : f[k] = Step(k, f[k \div 10])
           N == {m \in 0..n : \E f \in [0..m -> Octet] : Runs(m, f)}
           value == CHOOSE g : g = [k \in 0..n |-> Step(k, g[k \div 10])]
<1>1. ASSUME NEW k \in Nat, NEW v, k >= 10 => v \in Octet
      PROVE  Step(k, v) \in Octet
  <2>1. CASE k < 10
    BY <2>1 DEF Octet
  <2>2. CASE k >= 10
    <3>1. v * 10 + (k % 10) \in Nat
      BY <1>1, <2>2, Tenth DEF Octet
    <3>2. (v * 10 + (k % 10)) % 256 \in 0..255
      BY <3>1
    <3> QED
      BY <2>2, <3>2 DEF Octet
  <2> QED
    BY <2>1, <2>2
<1>2. ASSUME NEW k \in Nat, NEW u, NEW v, k >= 10 => u = v
      PROVE  Step(k, u) = Step(k, v)
  BY <1>2
<1> HIDE DEF Step
<1>3. 0 \in N
  <2> DEFINE f == [k \in 0..0 |-> Step(0, 0)]
  <2>1. f \in [0..0 -> Octet]
    BY <1>1
  <2>2. f[0] = Step(0, f[0 \div 10])
    BY <1>2
  <2> HIDE DEF f
  <2>3. Runs(0, f)
    BY <2>2
  <2> QED
    BY <2>1, <2>3
<1>4. ASSUME NEW m \in 1..n, m - 1 \in N
      PROVE  m \in N
  <2>1. PICK f \in [0..(m - 1) -> Octet] : Runs(m - 1, f)
    BY <1>4
  <2> DEFINE last == Step(m, f[m \div 10])
             g == [k \in 0..m |-> IF k < m THEN f[k] ELSE last]
  <2>2. last \in Octet
    <3>1. m >= 10 => f[m \div 10] \in Octet
      BY Tenth
    <3> QED
      BY <1>1, <3>1
  <2>3. g \in [0..m -> Octet]
    BY <2>2
  <2>4. ASSUME NEW k \in 0..m
        PROVE  g[k] = Step(k, g[k \div 10])
    <3>1. k >= 10 => g[k \div 10] = f[k \div 10]
      BY Tenth
    <3>2. Step(k, g[k \div 10]) = Step(k, f[k \div 10])
      BY <1>2, <3>1
    <3>3. CASE k < m
      <4>1. f[k] = Step(k, f[k \div 10])
        BY <2>1, <3>3
      <4> QED
        BY <3>2, <3>3, <4>1
    <3>4. CASE k = m
      BY <3>2, <3>4
    <3> QED
      BY <3>3, <3>4
  <2> HIDE DEF g
  <2> QED
    BY <2>3, <2>4
<1>5. n \in N
  <2> HIDE DEF N
  <2>1. 0..n \subseteq N
    BY <1>3, <1>4, UpTo
  <2> QED
    BY <2>1
<1>6. PICK f \in [0..n -> Octet] : Runs(n, f)
  BY <1>5
<1>7. f = [k \in 0..n |-> Step(k, f[k \div 10])]
  BY <1>6
<1>8. value = [k \in 0..n |-> Step(k, value[k \div 10])]
  BY <1>7
<1>9. Digits(n) = value[n]
  BY DEF Digits, Step
<1> HIDE DEF value
<1>10. ASSUME {k \in 0..n : value[k] \notin Octet} # {}
       PROVE  FALSE
  <2> DEFINE T == {k \in 0..n : value[k] \notin Octet}
  <2>1. T \subseteq Nat /\ T # {}
    BY <1>10
  <2>2. PICK k \in T : \A j \in T : ~(j < k)
    <3> HIDE DEF T
    <3> QED
      BY <2>1, LeastOf
  <2>3. value[k] = Step(k, value[k \div 10])
    BY <1>8
  <2>4. k >= 10 => value[k \div 10] \in Octet
    <3>1. k >= 10 => k \div 10 \in 0..n /\ k \div 10 < k
      BY Tenth
    <3> QED
      BY <2>2, <3>1
  <2>5. value[k] \in Octet
    BY <1>1, <2>3, <2>4
  <2> QED
    BY <2>5
<1> QED
  BY <1>9, <1>10

-----------------------------------------------------------------------------
(* The two pages.  A place is a position on a page, counted in reading order. *)

Rows == 0..(H - 1)
Cols == 0..(W - 1)
Size == W * H
Places == 0..(Size - 1)
Place(row, col) == row * W + col

\* What a host sends, and how many parameters are kept.
LEMMA HostSends ==
  /\ PARAMS \in Nat \ {0}
  /\ Attributes \subseteq 0..127 /\ 15 \in Attributes
  /\ Codes \subseteq (32..255) \ {127} /\ Numbers \subseteq Nat
  BY Zenon, ScreenAssumption

LEMMA AttributeIs == \A a \in Attributes : a \in 0..127
<1>1. Attributes \subseteq 0..127
  BY Zenon, HostSends
<1> QED
  BY Zenon, <1>1

\* The sizes of the screen and of its pages.
LEMMA Sizes ==
  /\ W \in Nat /\ W > 1 /\ H \in Nat /\ H > 1 /\ H <= 255 /\ TAB \in Nat /\ TAB > 0
  /\ CHARS \in Nat /\ ATTRS \in Nat /\ MEM \in Nat /\ Size \in Nat
  /\ CHARS + Size <= ATTRS /\ ATTRS + Size <= MEM
<1>1. /\ W \in Nat \ {0, 1} /\ H \in 2..255 /\ TAB \in Nat \ {0}
      /\ CHARS \in Nat /\ ATTRS \in Nat
      /\ CHARS + Size <= ATTRS /\ ATTRS + Size <= MEM
  BY Zenon, ScreenAssumption DEF Size
<1>2. Size \in Nat
  BY <1>1 DEF Size
<1> QED
  BY <1>1, <1>2, VdcAssumption

\* A row begins where the one before it ends.
LEMMA RowStarts ==
  ASSUME NEW row \in Int
  PROVE  row * W \in Int /\ (row + 1) * W = row * W + W
<1>1. W \in Int
  BY Sizes
<1> QED
  BY <1>1

\* A row ends before the next begins.
LEMMA RowOrder ==
  ASSUME NEW a \in Int, NEW b \in Int, a <= b
  PROVE  a * W <= b * W
<1>1. W \in Nat
  BY Sizes
<1>2. W * a <= W * b
  BY <1>1, Monotone
<1> QED
  BY <1>1, <1>2

\* A cell has a place in each page.
LEMMA PlaceType ==
  ASSUME NEW row \in Rows, NEW col \in Cols
  PROVE  /\ Place(row, col) \in Places
         /\ At(col, row) = CHARS + Place(row, col) /\ At(col, row) \in Address
         /\ AttrAt(col, row) = ATTRS + Place(row, col) /\ AttrAt(col, row) \in Address
<1>1. row \in Int /\ col \in Int /\ 0 <= row /\ row + 1 <= H /\ 0 <= col /\ col < W
  BY Sizes DEF Rows, Cols
<1>2. 0 * W <= row * W /\ (row + 1) * W <= H * W
  BY <1>1, Sizes, RowOrder
<1>3. row * W \in Int /\ (row + 1) * W = row * W + W /\ 0 * W = 0 /\ H * W = Size
  BY <1>1, Sizes, RowStarts DEF Size
<1>4. Place(row, col) \in Nat /\ Place(row, col) < Size
  BY <1>1, <1>2, <1>3, Sizes DEF Place
<1>5. At(col, row) = CHARS + Place(row, col) /\ AttrAt(col, row) = ATTRS + Place(row, col)
  BY <1>1, <1>3, Sizes DEF Place, At, AttrAt
<1> QED
  BY <1>4, <1>5, Sizes DEF Places, Address

\* A stretch of whole rows.
LEMMA PlaceInRows ==
  ASSUME NEW row \in Rows, NEW col \in Cols, NEW a \in Int, NEW b \in Int
  PROVE  Place(row, col) \in (a * W)..((b + 1) * W - 1) <=> row \in a..b
<1>1. row \in Int /\ col \in Int /\ 0 <= col /\ col < W /\ W \in Int
  BY Sizes DEF Rows, Cols
<1>2. row * W \in Int /\ (row + 1) * W = row * W + W /\ a * W \in Int /\ (b + 1) * W \in Int
  BY <1>1, RowStarts
<1>3. row >= a => a * W <= row * W
  BY <1>1, RowOrder
<1>4. row < a => (row + 1) * W <= a * W
  BY <1>1, RowOrder
<1>5. row <= b => (row + 1) * W <= (b + 1) * W
  BY <1>1, RowOrder
<1>6. row > b => (b + 1) * W <= row * W
  BY <1>1, RowOrder
<1> DEFINE p == row * W
           q == (row + 1) * W
           u == a * W
           v == (b + 1) * W
<1>7. /\ p \in Int /\ q = p + W /\ u \in Int /\ v \in Int
      /\ (row >= a => u <= p) /\ (row < a => q <= u)
      /\ (row <= b => q <= v) /\ (row > b => v <= p)
  BY <1>2, <1>3, <1>4, <1>5, <1>6
<1>8. Place(row, col) = p + col
  BY DEF Place
<1> HIDE DEF p, q, u, v
<1>9. p + col \in u..(v - 1) <=> row \in a..b
  BY <1>1, <1>7
<1> QED
  BY <1>8, <1>9 DEF u, v

\* Two cells never share a place, nor a place of the two pages.
LEMMA PlaceUnique ==
  ASSUME NEW r \in Rows, NEW c \in Cols, NEW row \in Rows, NEW col \in Cols,
         Place(r, c) = Place(row, col)
  PROVE  r = row /\ c = col
<1>1. r \in Int /\ c \in Int /\ row \in Int /\ col \in Int /\ W \in Int
      /\ 0 <= c /\ c < W /\ 0 <= col /\ col < W
  BY Sizes DEF Rows, Cols
<1>2. row * W \in Int /\ (row + 1) * W = row * W + W
  BY <1>1, RowStarts
<1>3. Place(row, col) = row * W + col /\ Place(r, c) = r * W + c
  BY DEF Place
<1>4. Place(row, col) \in (row * W)..((row + 1) * W - 1)
  BY <1>1, <1>2, <1>3
<1>5. r \in row..row
  BY <1>1, <1>4, PlaceInRows
<1>6. r = row
  BY <1>1, <1>5
<1> QED
  BY <1>1, <1>2, <1>3, <1>6

\* What is in no cell of the screen.
Outside == Address \ (Block(CHARS, Size) \cup Block(ATTRS, Size))

\* No cell is outside the pages.
LEMMA OutsideIs ==
  ASSUME NEW p \in Places
  PROVE  CHARS + p \in Address \ Outside /\ ATTRS + p \in Address \ Outside
         /\ \A q \in Places : CHARS + p # ATTRS + q
<1>1. Size # 0
  BY Sizes DEF Places
<1>2. Block(CHARS, Size) = CHARS..(CHARS + Size - 1)
  BY <1>1, Sizes, BlockIs
<1>3. Block(ATTRS, Size) = ATTRS..(ATTRS + Size - 1)
  BY <1>1, Sizes, BlockIs
<1> QED
  BY <1>2, <1>3, Sizes DEF Outside, Places, Address

-----------------------------------------------------------------------------
(* Screens, and what draws on them.                                          *)

Terminals ==
  {v \in [x: Cols, y: Rows, savedX: Cols, savedY: Rows, attr: Attributes,
          wrap: BOOLEAN, autowrap: BOOLEAN, visible: BOOLEAN, newline: BOOLEAN,
          top: Rows, bottom: Rows] : v.top < v.bottom}

Screens == {s \in [t: Terminals, vdc: Chips] : s.vdc.copy = FALSE}

CellAt(s, p) == <<s.vdc.mem[CHARS + p], s.vdc.mem[ATTRS + p]>>
Blank(s) == <<SPACE, s.t.attr + ALTERNATE>>

\* u is a screen with the font of s, and nothing was drawn outside the pages.
Draws(s, u) ==
  /\ u \in Screens
  /\ u.vdc.font = s.vdc.font /\ u.vdc.fontActive = s.vdc.fontActive
  /\ \A a \in Outside : u.vdc.mem[a] = s.vdc.mem[a]

\* u is s with the places from first to last blank.
Blanked(s, u, first, last) ==
  /\ Draws(s, u) /\ u.t = s.t
  /\ \A p \in Places : CellAt(u, p) = IF p \in first..last THEN Blank(s) ELSE CellAt(s, p)

\* The parts of a screen.
LEMMA ScreenParts ==
  ASSUME NEW s \in Screens
  PROVE  /\ s.t \in Terminals /\ s.vdc \in Chips /\ s.vdc.copy = FALSE
         /\ s.vdc.mem \in Memories /\ SPACE \in Octet /\ s.t.attr + ALTERNATE \in Octet
         /\ s = [t |-> s.t, vdc |-> s.vdc]
         /\ Draws(s, s)
<1>1. s.t \in Terminals /\ s.vdc \in Chips /\ s.vdc.copy = FALSE
      /\ s = [t |-> s.t, vdc |-> s.vdc]
  BY DEF Screens
<1>2. s.vdc.mem \in Memories
  BY <1>1 DEF Chips
<1>3. s.t.attr \in 0..127
  <2>1. s.t.attr \in Attributes
    BY <1>1 DEF Terminals
  <2> QED
    BY Zenon, <2>1, AttributeIs
<1>4. s.t.attr + ALTERNATE \in Octet /\ SPACE \in Octet
  BY <1>3 DEF ALTERNATE, SPACE, Octet
<1> QED
  BY <1>1, <1>2, <1>4 DEF Draws

\* Two drawings, one after the other, are a drawing.
LEMMA DrawsOn ==
  ASSUME NEW s, NEW u, NEW v, Draws(s, u), Draws(u, v)
  PROVE  Draws(s, v)
  BY DEF Draws

\* Other contents that differ on the pages only are drawn.
LEMMA HoldingDraws ==
  ASSUME NEW s \in Screens, NEW m \in Memories,
         \A a \in Outside : m[a] = s.vdc.mem[a]
  PROVE  Draws(s, [s EXCEPT !.vdc = Holding(s.vdc, m)])
<1> DEFINE d == Holding(s.vdc, m)
           u == [s EXCEPT !.vdc = d]
<1>1. d \in Chips /\ d.mem = m /\ d.copy = FALSE /\ d.font = s.vdc.font
      /\ d.fontActive = s.vdc.fontActive
  <2>1. s.vdc \in Chips /\ s.vdc.copy = FALSE
    BY ScreenParts
  <2> QED
    BY <2>1, HoldingType
<1> HIDE DEF d
<1>2. u \in Screens /\ u.vdc = d
  BY <1>1 DEF Screens
<1> HIDE DEF u
<1>3. Draws(s, u)
  BY <1>1, <1>2 DEF Draws
<1> QED
  BY <1>3 DEF u, d

\* A filled run changes the cells of its run and no other.
LEMMA FilledCells ==
  ASSUME NEW m \in Memories, NEW first \in Nat, NEW n \in Nat, first + n <= Size,
         NEW glyph \in Octet, NEW attr \in Octet
  PROVE  LET g == Filled(m, CHARS + first, n, glyph)
             u == Filled(g, ATTRS + first, n, attr)
         IN /\ g \in Memories /\ u \in Memories
            /\ \A a \in Outside : u[a] = m[a]
            /\ \A p \in Places : <<u[CHARS + p], u[ATTRS + p]>> =
                 IF p \in first..(first + n - 1) THEN <<glyph, attr>>
                 ELSE <<m[CHARS + p], m[ATTRS + p]>>
<1> DEFINE g == Filled(m, CHARS + first, n, glyph)
           u == Filled(g, ATTRS + first, n, attr)
<1>1. g \in Memories
  BY Sizes, FilledType
<1>2. u \in Memories
  <2> HIDE DEF g
  <2> QED
    BY <1>1, Sizes, FilledType
<1>3. \A a \in Address : g[a] = IF a \in (CHARS + first)..(CHARS + first + n - 1)
                              THEN glyph ELSE m[a]
  BY DEF Filled
<1>4. \A a \in Address : u[a] = IF a \in (ATTRS + first)..(ATTRS + first + n - 1)
                              THEN attr ELSE g[a]
  BY DEF Filled
<1> HIDE DEF g, u
<1>5. ASSUME NEW a \in Outside
      PROVE  u[a] = m[a]
  <2>1. a \in Address /\ \A p \in Places : a # CHARS + p /\ a # ATTRS + p
    BY OutsideIs DEF Outside
  <2>2. ASSUME NEW base \in Nat, \A p \in Places : a # base + p
        PROVE  a \notin (base + first)..(base + first + n - 1)
    <3> SUFFICES ASSUME a \in (base + first)..(base + first + n - 1) PROVE FALSE
      OBVIOUS
    <3>1. a - base \in Places /\ a = base + (a - base)
      BY Sizes DEF Places
    <3> QED
      BY <2>2, <3>1
  <2>3. a \notin (CHARS + first)..(CHARS + first + n - 1)
    BY <2>1, <2>2, Sizes
  <2>4. a \notin (ATTRS + first)..(ATTRS + first + n - 1)
    BY <2>1, <2>2, Sizes
  <2> QED
    BY <1>3, <1>4, <2>1, <2>3, <2>4
<1>6. ASSUME NEW p \in Places
      PROVE  <<u[CHARS + p], u[ATTRS + p]>> =
               IF p \in first..(first + n - 1) THEN <<glyph, attr>>
               ELSE <<m[CHARS + p], m[ATTRS + p]>>
  <2>1. CHARS + p \in Address /\ ATTRS + p \in Address
    BY OutsideIs
  <2>2. /\ CHARS + p \in (CHARS + first)..(CHARS + first + n - 1) <=> p \in first..(first + n - 1)
        /\ ATTRS + p \in (ATTRS + first)..(ATTRS + first + n - 1) <=> p \in first..(first + n - 1)
        /\ CHARS + p \notin (ATTRS + first)..(ATTRS + first + n - 1)
        /\ ATTRS + p \notin (CHARS + first)..(CHARS + first + n - 1)
    BY Sizes DEF Places
  <2> QED
    BY <1>3, <1>4, <2>1, <2>2
<1> QED
  BY <1>1, <1>2, <1>5, <1>6 DEF g, u

\* A fill of both pages blanks the cells of its run.
LEMMA FillIs ==
  ASSUME NEW s \in Screens, NEW col \in Nat, NEW row \in Nat, NEW n \in Nat,
         Place(row, col) + n <= Size
  PROVE  Blanked(s, Fill(s, col, row, n), Place(row, col), Place(row, col) + n - 1)
<1> DEFINE p == Place(row, col)
           d == s.vdc
           attr == s.t.attr + ALTERNATE
           g == Filled(d.mem, CHARS + p, n, SPACE)
           u == Filled(g, ATTRS + p, n, attr)
<1>1. p \in Nat /\ At(col, row) = CHARS + p /\ AttrAt(col, row) = ATTRS + p
  <2>1. 0 * W <= row * W /\ row * W \in Int /\ 0 * W = 0
    BY Sizes, RowOrder, RowStarts
  <2> QED
    BY <2>1, Sizes DEF Place, At, AttrAt
<1> HIDE DEF p
<1>2. d \in Chips /\ d.copy = FALSE /\ d.mem \in Memories /\ SPACE \in Octet
      /\ attr \in Octet
  BY ScreenParts
<1> HIDE DEF d, attr
<1>3. /\ g \in Memories /\ u \in Memories
      /\ \A a \in Outside : u[a] = d.mem[a]
      /\ \A q \in Places : <<u[CHARS + q], u[ATTRS + q]>> =
           IF q \in p..(p + n - 1) THEN <<SPACE, attr>>
           ELSE <<d.mem[CHARS + q], d.mem[ATTRS + q]>>
  BY <1>1, <1>2, FilledCells DEF p
<1>4. FillRun(d, CHARS + p, SPACE, n) = Holding(d, g)
  <2>1. CHARS + p \in Nat /\ CHARS + p + n <= MEM
    BY <1>1, Sizes DEF p
  <2> DEFINE to == CHARS + p
  <2> HIDE DEF to
  <2>2. FillRun(d, to, SPACE, n) = Holding(d, Filled(d.mem, to, n, SPACE))
    BY ONLY <1>2, <2>1, n \in Nat, FillRunIs DEF to
  <2> QED
    BY <2>2 DEF to
<1> DEFINE e == Holding(d, g)
<1>5. e \in Chips /\ e.mem = g /\ e.copy = FALSE /\ Holding(e, u) = Holding(d, u)
  BY <1>2, <1>3, HoldingType
<1>6. FillRun(e, ATTRS + p, attr, n) = Holding(e, u)
  <2> DEFINE to == ATTRS + p
  <2>1. to \in Nat /\ to + n <= MEM
    BY <1>1, Sizes DEF p
  <2> HIDE DEF to, e, g
  <2>2. FillRun(e, to, attr, n) = Holding(e, Filled(e.mem, to, n, attr))
    BY ONLY <1>2, <1>5, <2>1, n \in Nat, FillRunIs
  <2> QED
    BY <1>5, <2>2 DEF to
<1>7. Fill(s, col, row, n) = [s EXCEPT !.vdc = Holding(d, u)]
  <2> HIDE DEF u, g
  <2>1. Fill(s, col, row, n) =
          [s EXCEPT !.vdc = FillRun(FillRun(s.vdc, At(col, row), SPACE, n),
                                    AttrAt(col, row), s.t.attr + ALTERNATE, n)]
    BY DEF Fill, Screens
  <2> QED
    BY <1>1, <1>4, <1>5, <1>6, <2>1 DEF d, attr, e
<1> HIDE DEF g, u, e
<1> DEFINE f == [s EXCEPT !.vdc = Holding(d, u)]
<1>8. Draws(s, f)
  BY <1>3, HoldingDraws DEF d
<1>9. f.t = s.t /\ f.vdc.mem = u
  BY <1>2, <1>3, HoldingType DEF Screens
<1> HIDE DEF f
<1>10. Blanked(s, f, p, p + n - 1)
  BY <1>3, <1>8, <1>9 DEF Blanked, CellAt, Blank, attr, d
<1> QED
  BY <1>7, <1>10 DEF f, p

\* Blanking one run and then another blanks both.
LEMMA BlankedTwice ==
  ASSUME NEW s, NEW u, NEW v, NEW a, NEW b, NEW c, NEW d, NEW first, NEW last,
         Blanked(s, u, a, b), Blanked(u, v, c, d),
         \A p \in Places : p \in a..b \/ p \in c..d <=> p \in first..last
  PROVE  Blanked(s, v, first, last)
<1>1. Draws(s, v) /\ v.t = s.t /\ Blank(u) = Blank(s)
  BY DrawsOn DEF Blanked, Blank
<1>2. ASSUME NEW p \in Places
      PROVE  CellAt(v, p) = IF p \in first..last THEN Blank(s) ELSE CellAt(s, p)
  <2>1. CellAt(u, p) = IF p \in a..b THEN Blank(s) ELSE CellAt(s, p)
    BY DEF Blanked
  <2>2. CellAt(v, p) = IF p \in c..d THEN Blank(u) ELSE CellAt(u, p)
    BY DEF Blanked
  <2> QED
    BY <1>1, <2>1, <2>2
<1> QED
  BY <1>1, <1>2 DEF Blanked

\* clear_line blanks the cells from first to last, if there are any.
LEMMA ClearLineIs ==
  ASSUME NEW s \in Screens, NEW row \in Rows, NEW first \in Cols, NEW last \in Cols,
         first <= last
  PROVE  Blanked(s, ClearLine(s, row, first, last), Place(row, first), Place(row, last))
<1> DEFINE n == last - first + 1
<1>1. row \in Nat /\ row < H /\ first \in Nat /\ last \in Nat /\ n \in Nat
  BY Sizes DEF Rows, Cols
<1>2. ClearLine(s, row, first, last) = Fill(s, first, row, n)
  BY <1>1, Sizes DEF ClearLine
<1>3. Place(row, first) \in Places /\ Place(row, last) \in Places
      /\ Place(row, first) + n - 1 = Place(row, last)
  <2>1. row * W \in Int
    BY <1>1, RowStarts
  <2> QED
    BY <1>1, <2>1, PlaceType DEF Place
<1> HIDE DEF n
<1>4. Place(row, first) + n <= Size
  BY <1>1, <1>3, Sizes DEF Places
<1> QED
  BY <1>1, <1>2, <1>3, <1>4, FillIs

\* clear_screen blanks whole rows, if there are any.
LEMMA ClearScreenIs ==
  ASSUME NEW s \in Screens, NEW first \in Rows, NEW last \in Rows, first <= last
  PROVE  Blanked(s, ClearScreen(s, first, last), first * W, (last + 1) * W - 1)
<1> DEFINE n == (last - first + 1) * W
<1>1. first \in Nat /\ last \in Nat /\ last < H /\ 0 \in Cols /\ 0 \in Nat
  BY Sizes DEF Rows, Cols
<1>2. ClearScreen(s, first, last) = Fill(s, 0, first, n)
  BY <1>1, Sizes DEF ClearScreen
<1>3. /\ n = (last + 1) * W - first * W /\ n \in Nat /\ first * W \in Int
      /\ (last + 1) * W \in Int /\ (last + 1) * W <= Size
  <2>1. first * W <= (last + 1) * W /\ (last + 1) * W <= H * W
    BY <1>1, Sizes, RowOrder
  <2>2. first * W \in Int /\ (last + 1) * W \in Int /\ H * W = Size
    BY <1>1, Sizes, RowStarts DEF Size
  <2>3. n = (last + 1) * W - first * W
    <3>1. first \in Int /\ last \in Int /\ W \in Int
      BY <1>1, Sizes
    <3> QED
      BY <3>1
  <2> HIDE DEF n
  <2> QED
    BY <2>1, <2>2, <2>3
<1>4. Place(first, 0) = first * W
  BY <1>3 DEF Place
<1> HIDE DEF n
<1>5. Place(first, 0) + n <= Size /\ Place(first, 0) + n - 1 = (last + 1) * W - 1
  BY <1>3, <1>4, Sizes
<1> QED
  BY <1>1, <1>2, <1>3, <1>4, <1>5, FillIs

\* A stretch that holds the cursor is blank.
Erased(s, u) ==
  \E first \in 0..Place(s.t.y, s.t.x), last \in Place(s.t.y, s.t.x)..(Size - 1) :
    Blanked(s, u, first, last)

\* The cursor and the region are on the screen.
LEMMA CursorParts ==
  ASSUME NEW s \in Screens
  PROVE  /\ s.t.x \in Cols /\ s.t.y \in Rows /\ s.t.top \in Rows /\ s.t.bottom \in Rows
         /\ s.t.savedX \in Cols /\ s.t.savedY \in Rows /\ s.t.top < s.t.bottom
         /\ s.t.attr \in Attributes
         /\ s.t.wrap \in BOOLEAN /\ s.t.autowrap \in BOOLEAN /\ s.t.newline \in BOOLEAN
         /\ s.t.visible \in BOOLEAN
         /\ 0 \in Cols /\ W - 1 \in Cols /\ 0 \in Rows /\ H - 1 \in Rows
  BY Sizes DEF Screens, Terminals, Rows, Cols

\* ESC[K blanks the part of the row it names.
LEMMA EraseLineErases ==
  ASSUME NEW s \in Screens, NEW mode
  PROVE  Erased(s, EraseLine(s, mode))
<1> DEFINE x == s.t.x
           y == s.t.y
           p == Place(y, x)
<1>1. x \in Cols /\ y \in Rows /\ 0 \in Cols /\ W - 1 \in Cols
  BY CursorParts
<1> HIDE DEF x, y
<1>2. 0 <= x /\ x <= W - 1
  BY <1>1, Sizes DEF Cols
<1> DEFINE a == Place(y, 0)
           b == Place(y, W - 1)
<1>3. a \in 0..p /\ b \in p..(Size - 1) /\ p \in 0..p /\ p \in p..(Size - 1)
  <2>1. a \in Places /\ b \in Places /\ p \in Places
    BY <1>1, PlaceType
  <2>2. y * W \in Int /\ x \in Int
    BY <1>1, RowStarts DEF Rows, Cols
  <2>3. a <= p /\ p <= b
    BY <1>1, <1>2, <2>2, Sizes DEF Place
  <2> HIDE DEF a, b, p
  <2> QED
    BY <2>1, <2>3, Sizes DEF Places
<1>4. CASE mode = 0
  <2>1. Blanked(s, EraseLine(s, mode), p, b)
    BY <1>1, <1>2, <1>4, ClearLineIs DEF EraseLine, x, y
  <2> HIDE DEF a, b
  <2> QED
    BY <1>3, <2>1 DEF Erased, x, y
<1>5. CASE mode = 1
  <2>1. Blanked(s, EraseLine(s, mode), a, p)
    BY <1>1, <1>2, <1>5, ClearLineIs DEF EraseLine, x, y
  <2> HIDE DEF a, b
  <2> QED
    BY <1>3, <2>1 DEF Erased, x, y
<1>6. CASE mode # 0 /\ mode # 1
  <2>1. 0 <= W - 1
    BY <1>2, Sizes
  <2>2. Blanked(s, EraseLine(s, mode), a, b)
    BY <1>1, <1>6, <2>1, ClearLineIs DEF EraseLine, y
  <2> HIDE DEF a, b
  <2> QED
    BY <1>3, <2>2 DEF Erased, x, y
<1> QED
  BY <1>4, <1>5, <1>6

\* ESC[J blanks the part of the screen it names.
LEMMA EraseDisplayErases ==
  ASSUME NEW s \in Screens, NEW mode
  PROVE  Erased(s, EraseDisplay(s, mode))
<1> DEFINE x == s.t.x
           y == s.t.y
           p == Place(y, x)
           v == EraseDisplay(s, mode)
<1>1. x \in Cols /\ y \in Rows /\ 0 \in Cols /\ W - 1 \in Cols /\ 0 \in Rows /\ H - 1 \in Rows
  BY CursorParts
<1> HIDE DEF x, y
<1>2. /\ x \in Int /\ 0 <= x /\ x <= W - 1 /\ y \in Int /\ 0 <= y /\ y <= H - 1
      /\ W \in Int /\ H \in Int
  BY <1>1, Sizes DEF Cols, Rows
<1> DEFINE k == y * W
           e == (y + 1) * W
<1>3. /\ k \in Int /\ e = k + W /\ 0 <= k /\ e <= Size /\ 0 * W = 0 /\ (0 + 1) * W = W
      /\ ((H - 1) + 1) * W = Size /\ ((y - 1) + 1) * W = k
  <2>1. k \in Int /\ e = k + W
    BY <1>2, RowStarts
  <2>2. 0 * W <= k /\ e <= H * W
    BY <1>2, RowOrder
  <2>3. 0 * W = 0 /\ (0 + 1) * W = W /\ H * W = Size /\ (H - 1) + 1 = H /\ (y - 1) + 1 = y
    BY <1>2, Sizes DEF Size
  <2> HIDE DEF k, e
  <2> QED
    BY <2>1, <2>2, <2>3 DEF k
<1>4. p = k + x /\ Place(y, W - 1) = k + (W - 1) /\ Place(y, 0) = k + 0
  BY DEF Place
<1> HIDE DEF k, p
<1>5. p \in 0..p /\ p \in p..(Size - 1) /\ 0 \in 0..p /\ Size - 1 \in p..(Size - 1)
      /\ e - 1 \in p..(Size - 1) /\ Size \in Int
  BY <1>2, <1>3, <1>4, Sizes
<1>6. CASE mode = 0
  <2> DEFINE u == ClearLine(s, y, x, W - 1)
  <2>1. v = ClearScreen(u, y + 1, H - 1)
    BY <1>6 DEF EraseDisplay, x, y
  <2>2. Blanked(s, u, p, e - 1)
    <3>1. Blanked(s, u, Place(y, x), Place(y, W - 1))
      BY <1>1, <1>2, ClearLineIs
    <3>2. Place(y, W - 1) = e - 1 /\ Place(y, x) = p
      BY <1>2, <1>3, <1>4 DEF p
    <3> QED
      BY <3>1, <3>2
  <2> HIDE DEF u
  <2>3. CASE y = H - 1
    <3>1. v = u
      BY <1>2, <2>1, <2>3 DEF ClearScreen
    <3> QED
      BY <1>5, <2>2, <3>1 DEF Erased, p, x, y
  <2>4. CASE y # H - 1
    <3>1. y + 1 \in Rows /\ y + 1 <= H - 1
      BY <1>2, <2>4, Sizes DEF Rows
    <3>2. u \in Screens
      BY <2>2 DEF Blanked, Draws
    <3>3. Blanked(u, v, e, Size - 1)
      <4>1. Blanked(u, v, (y + 1) * W, ((H - 1) + 1) * W - 1)
        BY <1>1, <2>1, <3>1, <3>2, ClearScreenIs
      <4> QED
        BY <1>3, <4>1
    <3> HIDE DEF v, e
    <3>4. \A q \in Places : q \in p..(e - 1) \/ q \in e..(Size - 1) <=> q \in p..(Size - 1)
      BY <1>2, <1>3, <1>4, <1>5 DEF Places
    <3>5. Blanked(s, v, p, Size - 1)
      BY <2>2, <3>3, <3>4, BlankedTwice
    <3> QED
      BY <1>5, <3>5 DEF Erased, p, x, y, v
  <2> HIDE DEF v
  <2> QED
    BY <2>3, <2>4 DEF v
<1>7. CASE mode = 1
  <2> DEFINE above == IF y = 0 THEN 0 ELSE y - 1
             u == ClearScreen(s, 0, above)
             last == IF y = 0 THEN e - 1 ELSE p
  <2>1. v = ClearLine(u, y, 0, x)
    <3>1. Max({y - 1, 0}) = above
      BY <1>2, Greatest
    <3> QED
      BY <1>7, <3>1 DEF EraseDisplay, x, y
  <2>2. above \in Rows /\ 0 <= above
    BY <1>1, <1>2, Sizes DEF Rows
  <2>3. Blanked(s, u, 0, (above + 1) * W - 1)
    <3>1. Blanked(s, u, 0 * W, (above + 1) * W - 1)
      BY <1>1, <2>2, ClearScreenIs
    <3> QED
      BY <1>3, <3>1
  <2>4. Blanked(u, v, k, p)
    <3>1. u \in Screens
      BY <2>3 DEF Blanked, Draws
    <3> HIDE DEF u, v
    <3>2. Blanked(u, v, Place(y, 0), Place(y, x))
      BY <1>1, <1>2, <2>1, <3>1, ClearLineIs
    <3>3. Place(y, 0) = k
      BY <1>3, <1>4
    <3> QED
      BY <3>2, <3>3 DEF p
  <2>5. (above + 1) * W = IF y = 0 THEN e ELSE k
    BY <1>3
  <2> DEFINE c == (above + 1) * W
  <2> HIDE DEF above, u, v, e, c
  <2>6. \A q \in Places : q \in 0..(c - 1) \/ q \in k..p <=> q \in 0..last
    <3>1. CASE y = 0
      <4>1. c = e /\ last = e - 1 /\ k = 0
        <5>1. k = 0
          BY <1>3, <3>1 DEF k
        <5> QED
          BY <2>5, <3>1, <5>1 DEF c
      <4> QED
        BY <1>2, <1>3, <1>4, <4>1 DEF Places
    <3>2. CASE y # 0
      <4>1. c = k /\ last = p
        BY <2>5, <3>2 DEF c
      <4> QED
        BY <1>2, <1>3, <1>4, <4>1 DEF Places
    <3> QED
      BY <3>1, <3>2
  <2>7. last \in p..(Size - 1)
    BY <1>5
  <2> HIDE DEF last
  <2>8. Blanked(s, v, 0, last)
    BY <2>3, <2>4, <2>6, BlankedTwice DEF c
  <2> QED
    BY <1>5, <2>7, <2>8 DEF Erased, p, x, y, v
<1>8. CASE mode # 0 /\ mode # 1
  <2>1. v = ClearScreen(s, 0, H - 1)
    BY <1>8 DEF EraseDisplay
  <2>2. Blanked(s, v, 0 * W, ((H - 1) + 1) * W - 1)
    BY <1>1, <1>2, <2>1, ClearScreenIs
  <2>3. Blanked(s, v, 0, Size - 1)
    BY <1>3, <2>2
  <2> HIDE DEF v
  <2> QED
    BY <1>5, <2>3 DEF Erased, p, x, y, v
<1> HIDE DEF v
<1> QED
  BY <1>6, <1>7, <1>8 DEF v

\* Moving rows up moves their cells and touches no other.
LEMMA MovedCells ==
  ASSUME NEW m \in Memories, NEW to \in Nat, NEW from \in Nat, from >= to,
         NEW n \in Nat, from + n <= Size
  PROVE  LET g == Moved(m, CHARS + to, CHARS + from, n)
             u == Moved(g, ATTRS + to, ATTRS + from, n)
         IN /\ g \in Memories /\ u \in Memories
            /\ \A a \in Outside : u[a] = m[a]
            /\ \A p \in Places : <<u[CHARS + p], u[ATTRS + p]>> =
                 IF p \in to..(to + n - 1)
                 THEN <<m[CHARS + (p + (from - to))], m[ATTRS + (p + (from - to))]>>
                 ELSE <<m[CHARS + p], m[ATTRS + p]>>
<1> DEFINE g == Moved(m, CHARS + to, CHARS + from, n)
           u == Moved(g, ATTRS + to, ATTRS + from, n)
<1>1. g \in Memories
  BY Sizes, MovedType
<1>2. u \in Memories
  <2> HIDE DEF g
  <2> QED
    BY <1>1, Sizes, MovedType
<1>3. \A a \in Address : g[a] = IF a \in (CHARS + to)..(CHARS + to + n - 1)
                              THEN m[a + (from - to)] ELSE m[a]
  <2>1. (CHARS + from) - (CHARS + to) = from - to
    BY Sizes
  <2> QED
    BY <2>1 DEF Moved
<1>4. \A a \in Address : u[a] = IF a \in (ATTRS + to)..(ATTRS + to + n - 1)
                              THEN g[a + (from - to)] ELSE g[a]
  <2>1. (ATTRS + from) - (ATTRS + to) = from - to
    BY Sizes
  <2> HIDE DEF g
  <2> QED
    BY <2>1 DEF Moved
<1> HIDE DEF g, u
<1>5. ASSUME NEW a \in Outside
      PROVE  u[a] = m[a]
  <2>1. a \in Address /\ \A p \in Places : a # CHARS + p /\ a # ATTRS + p
    BY OutsideIs DEF Outside
  <2>2. ASSUME NEW base \in Nat, \A p \in Places : a # base + p
        PROVE  a \notin (base + to)..(base + to + n - 1)
    <3> SUFFICES ASSUME a \in (base + to)..(base + to + n - 1) PROVE FALSE
      OBVIOUS
    <3>1. a - base \in Places /\ a = base + (a - base)
      BY Sizes DEF Places
    <3> QED
      BY <2>2, <3>1
  <2>3. a \notin (CHARS + to)..(CHARS + to + n - 1)
    BY <2>1, <2>2, Sizes
  <2>4. a \notin (ATTRS + to)..(ATTRS + to + n - 1)
    BY <2>1, <2>2, Sizes
  <2> QED
    BY <1>3, <1>4, <2>1, <2>3, <2>4
<1>6. ASSUME NEW p \in Places
      PROVE  <<u[CHARS + p], u[ATTRS + p]>> =
               IF p \in to..(to + n - 1)
               THEN <<m[CHARS + (p + (from - to))], m[ATTRS + (p + (from - to))]>>
               ELSE <<m[CHARS + p], m[ATTRS + p]>>
  <2>1. CHARS + p \in Address /\ ATTRS + p \in Address
    BY OutsideIs
  <2>2. /\ CHARS + p \in (CHARS + to)..(CHARS + to + n - 1) <=> p \in to..(to + n - 1)
        /\ ATTRS + p \in (ATTRS + to)..(ATTRS + to + n - 1) <=> p \in to..(to + n - 1)
        /\ CHARS + p \notin (ATTRS + to)..(ATTRS + to + n - 1)
        /\ ATTRS + p \notin (CHARS + to)..(CHARS + to + n - 1)
    BY Sizes DEF Places
  <2>3. CASE p \in to..(to + n - 1)
    <3> DEFINE q == p + (from - to)
    <3>1. q \in Places /\ CHARS + p + (from - to) = CHARS + q
          /\ ATTRS + p + (from - to) = ATTRS + q
      BY <2>3, Sizes DEF Places
    <3> HIDE DEF q
    <3>2. ATTRS + q \in Address /\ CHARS + q \in Address
      BY <3>1, OutsideIs
    <3>3. ATTRS + q \notin (CHARS + to)..(CHARS + to + n - 1)
      BY <3>1, Sizes DEF Places
    <3>4. g[ATTRS + q] = m[ATTRS + q]
      BY <1>3, <3>2, <3>3
    <3>5. u[ATTRS + p] = m[ATTRS + q]
      BY <1>4, <2>1, <2>2, <2>3, <3>1, <3>4
    <3>6. u[CHARS + p] = m[CHARS + q]
      BY <1>3, <1>4, <2>1, <2>2, <2>3, <3>1
    <3> QED
      BY <2>3, <3>5, <3>6 DEF q
  <2>4. CASE p \notin to..(to + n - 1)
    BY <1>3, <1>4, <2>1, <2>2, <2>4
  <2> QED
    BY <2>3, <2>4
<1> QED
  BY <1>1, <1>2, <1>5, <1>6 DEF g, u

\* The region has moved up n rows.
Scrolled(s, u, n) ==
  /\ Draws(s, u) /\ u.t = s.t
  /\ \A r \in Rows, c \in Cols :
       CellAt(u, Place(r, c)) =
         IF r \notin s.t.top..s.t.bottom THEN CellAt(s, Place(r, c))
         ELSE IF r + n <= s.t.bottom THEN CellAt(s, Place(r + n, c)) ELSE Blank(s)

\* Copying n places of both pages down from a higher one.
LEMMA CopyIs ==
  ASSUME NEW s \in Screens, NEW to \in Nat, NEW from \in Nat, from >= to,
         NEW n \in Nat, from + n <= Size
  PROVE  LET chars == CopyRun(s.vdc, CHARS + to, CHARS + from, n)
             u == [s EXCEPT !.vdc = CopyRun(chars, ATTRS + to, ATTRS + from, n)]
         IN /\ Draws(s, u) /\ u.t = s.t
            /\ \A p \in Places : CellAt(u, p) =
                 IF p \in to..(to + n - 1) THEN CellAt(s, p + (from - to))
                 ELSE CellAt(s, p)
<1> DEFINE d == s.vdc
           g == Moved(d.mem, CHARS + to, CHARS + from, n)
           m == Moved(g, ATTRS + to, ATTRS + from, n)
           e == Holding(d, g)
           u == [s EXCEPT !.vdc = Holding(d, m)]
<1>1. d \in Chips /\ d.copy = FALSE /\ d.mem \in Memories
  BY ScreenParts
<1> HIDE DEF d
<1>2. /\ g \in Memories /\ m \in Memories
      /\ \A a \in Outside : m[a] = d.mem[a]
      /\ \A p \in Places : <<m[CHARS + p], m[ATTRS + p]>> =
           IF p \in to..(to + n - 1)
           THEN <<d.mem[CHARS + (p + (from - to))], d.mem[ATTRS + (p + (from - to))]>>
           ELSE <<d.mem[CHARS + p], d.mem[ATTRS + p]>>
  BY SMTT(30), <1>1, MovedCells
<1>3. ASSUME NEW c \in Chips, c.copy = FALSE, NEW base \in Nat, base + Size <= MEM
      PROVE  CopyRun(c, base + to, base + from, n) =
               Holding(c, Moved(c.mem, base + to, base + from, n))
  <2> DEFINE q == base + to
             r == base + from
  <2>1. q \in Nat /\ r \in Nat /\ r >= q /\ r + n <= MEM
    BY <1>3, Sizes
  <2> HIDE DEF q, r
  <2>2. CopyRun(c, q, r, n) = Holding(c, Moved(c.mem, q, r, n))
    BY ONLY <1>3, <2>1, n \in Nat, CopyRunIs
  <2> QED
    BY <2>2 DEF q, r
<1>4. CopyRun(d, CHARS + to, CHARS + from, n) = e
  <2>1. CHARS \in Nat /\ CHARS + Size <= MEM
    BY Sizes
  <2> QED
    BY ONLY <1>1, <1>3, <2>1
<1> HIDE DEF g, m
<1>5. e \in Chips /\ e.mem = g /\ e.copy = FALSE /\ Holding(e, m) = Holding(d, m)
  BY <1>1, <1>2, HoldingType
<1> HIDE DEF e
<1>6. CopyRun(e, ATTRS + to, ATTRS + from, n) = Holding(d, m)
  <2>1. CopyRun(e, ATTRS + to, ATTRS + from, n) =
          Holding(e, Moved(e.mem, ATTRS + to, ATTRS + from, n))
    BY <1>3, <1>5, Sizes
  <2> QED
    BY <1>5, <2>1 DEF m
<1>7. Draws(s, u)
  BY <1>2, HoldingDraws DEF d
<1>8. u.t = s.t /\ u.vdc.mem = m
  <2> DEFINE h == Holding(d, m)
  <2>1. h.mem = m /\ h \in Chips
    BY <1>1, <1>2, HoldingType
  <2> HIDE DEF h
  <2>2. [s EXCEPT !.vdc = h].t = s.t /\ [s EXCEPT !.vdc = h].vdc = h
    BY DEF Screens
  <2> QED
    BY <2>1, <2>2 DEF h
<1> HIDE DEF u
<1>9. \A p \in Places : CellAt(u, p) =
        IF p \in to..(to + n - 1) THEN CellAt(s, p + (from - to)) ELSE CellAt(s, p)
  BY <1>2, <1>8 DEF CellAt, d
<1> QED
  BY <1>4, <1>6, <1>7, <1>8, <1>9 DEF u, d

\* scroll_up moves the region up and blanks the rows that come in.
LEMMA ScrollUpScrolls ==
  ASSUME NEW s \in Screens, NEW lines \in Nat, lines >= 1
  PROVE  \E n \in 1..(s.t.bottom - s.t.top + 1) :
           /\ (lines = 1 => n = 1)
           /\ Scrolled(s, ScrollUp(s, lines), n)
<1> DEFINE top == s.t.top
           bottom == s.t.bottom
           n == IF lines <= bottom - top + 1 THEN lines ELSE bottom - top + 1
           rows == bottom - top + 1 - n
           length == rows * W
           a == top * W
           b == (top + n) * W
           moved == [s EXCEPT !.vdc = CopyRun(CopyRun(s.vdc, CHARS + a, CHARS + b, length),
                                              ATTRS + a, ATTRS + b, length)]
           u == IF length = 0 THEN s ELSE moved
           v == ClearScreen(u, bottom - n + 1, bottom)
<1>1. top \in Rows /\ bottom \in Rows /\ top < bottom
  BY CursorParts
<1> HIDE DEF top, bottom
<1>2. top \in Int /\ bottom \in Int /\ 0 <= top /\ bottom < H /\ W \in Nat /\ W > 0
      /\ H \in Int
  BY <1>1, Sizes DEF Rows
<1>3. n \in 1..(bottom - top + 1) /\ (lines = 1 => n = 1)
  BY <1>1, <1>2
<1>4. Min({lines, bottom - top + 1}) = n
  BY <1>2, Least
<1> HIDE DEF n
<1>5. n \in Int /\ 1 <= n /\ n <= bottom - top + 1 /\ rows \in Nat
      /\ bottom - n \in Int /\ bottom - n + 1 \in Rows /\ bottom - n + 1 <= bottom
  BY <1>2, <1>3 DEF Rows
<1>6. /\ a \in Int /\ b \in Int /\ length \in Int /\ 0 <= a /\ a <= b /\ 0 <= length
      /\ b = a + n * W /\ n * W \in Int /\ b + length <= Size
      /\ a + length = (bottom - n + 1) * W
  <2>1. /\ a \in Int /\ b \in Int /\ length \in Int /\ n * W \in Int
        /\ (bottom - n + 1) * W \in Int /\ (bottom + 1) * W \in Int
    BY <1>2, <1>5, RowStarts
  <2>2. b = a + n * W /\ (bottom - n + 1) * W = (bottom + 1) * W - n * W
    BY <1>2, <1>5
  <2>3. length = (bottom - n + 1) * W - a
    <3>1. rows = (bottom - n + 1) - top
      BY <1>2, <1>5
    <3>2. ((bottom - n + 1) - top) * W = (bottom - n + 1) * W - top * W
      BY <1>2, <1>5
    <3> HIDE DEF rows
    <3> QED
      BY <3>1, <3>2
  <2>4. 0 * W <= a /\ 0 * W <= n * W /\ 0 * W <= length /\ (bottom + 1) * W <= H * W
        /\ 0 * W = 0 /\ H * W = Size
    BY <1>2, <1>5, Sizes, RowOrder DEF Size
  <2> HIDE DEF a, b, length
  <2> QED
    BY <2>1, <2>2, <2>3, <2>4
<1>7. ScrollUp(s, lines) = v
  <2>1. At(0, top) = CHARS + a /\ AttrAt(0, top) = ATTRS + a
        /\ At(0, top + n) = CHARS + b /\ AttrAt(0, top + n) = ATTRS + b
    <3>1. CHARS \in Int /\ ATTRS \in Int
      BY Sizes
    <3> HIDE DEF a, b
    <3>2. \A p \in Int : CHARS + p + 0 = CHARS + p /\ ATTRS + p + 0 = ATTRS + p
      BY <3>1
    <3> QED
      BY <1>6, <3>2 DEF At, AttrAt, a, b
  <2>2. ScrollUp(s, lines) =
          LET chars == CopyRun(s.vdc, At(0, top), At(0, top + n), length)
              w == [s EXCEPT !.vdc = CopyRun(chars, AttrAt(0, top), AttrAt(0, top + n), length)]
          IN ClearScreen(IF length = 0 THEN s ELSE w, bottom - n + 1, bottom)
    BY <1>4 DEF ScrollUp, top, bottom, Screens
  <2> HIDE DEF a, b, length
  <2> QED
    BY <2>1, <2>2
<1>8. /\ Draws(s, u) /\ u.t = s.t
      /\ \A p \in Places : CellAt(u, p) =
           IF p \in a..(a + length - 1) THEN CellAt(s, p + n * W) ELSE CellAt(s, p)
  <2>1. a \in Nat /\ b \in Nat /\ b >= a /\ length \in Nat /\ b - a = n * W
    BY <1>6
  <2> HIDE DEF a, b, length
  <2>2. /\ Draws(s, moved) /\ moved.t = s.t
        /\ \A p \in Places : CellAt(moved, p) =
             IF p \in a..(a + length - 1) THEN CellAt(s, p + n * W) ELSE CellAt(s, p)
    BY <1>6, <2>1, CopyIs
  <2>3. CASE length = 0
    <3>1. \A p \in Places : p \notin a..(a + length - 1)
      BY <1>6, <2>3
    <3> QED
      BY <2>3, <3>1, ScreenParts
  <2>4. CASE length # 0
    <3> HIDE DEF moved
    <3> QED
      BY <2>2, <2>4
  <2> QED
    BY <2>3, <2>4
<1>9. u \in Screens
  BY <1>8 DEF Draws
<1> HIDE DEF u
<1>10. Blanked(u, v, (bottom - n + 1) * W, (bottom + 1) * W - 1)
  BY <1>1, <1>5, <1>9, ClearScreenIs
<1> HIDE DEF v
<1>11. Draws(s, v) /\ v.t = s.t /\ Blank(u) = Blank(s)
  BY <1>8, <1>10, DrawsOn DEF Blanked, Blank
<1>12. ASSUME NEW r \in Rows, NEW c \in Cols
       PROVE  CellAt(v, Place(r, c)) =
                IF r \notin top..bottom THEN CellAt(s, Place(r, c))
                ELSE IF r + n <= bottom THEN CellAt(s, Place(r + n, c)) ELSE Blank(s)
  <2> DEFINE p == Place(r, c)
  <2>1. p \in Places /\ r \in Int /\ c \in Int
    BY Sizes, PlaceType DEF Rows, Cols
  <2>2. p \in a..(a + length - 1) <=> r \in top..(bottom - n)
    <3>1. p \in (top * W)..((bottom - n + 1) * W - 1) <=> r \in top..(bottom - n)
      BY <1>2, <1>5, PlaceInRows
    <3> HIDE DEF p
    <3> QED
      BY <1>6, <3>1
  <2>3. p \in ((bottom - n + 1) * W)..((bottom + 1) * W - 1) <=> r \in (bottom - n + 1)..bottom
    BY <1>2, <1>5, PlaceInRows
  <2>4. p + n * W = Place(r + n, c)
    BY <1>2, <1>5, <2>1 DEF Place
  <2> HIDE DEF p
  <2>5. CellAt(u, p) = IF r \in top..(bottom - n) THEN CellAt(s, Place(r + n, c))
                       ELSE CellAt(s, p)
    BY <1>8, <2>1, <2>2, <2>4
  <2>6. CellAt(v, p) = IF r \in (bottom - n + 1)..bottom THEN Blank(s) ELSE CellAt(u, p)
    BY <1>10, <1>11, <2>1, <2>3 DEF Blanked
  <2>7. /\ r \in top..(bottom - n) <=> r \in top..bottom /\ r + n <= bottom
        /\ r \in (bottom - n + 1)..bottom <=> r \in top..bottom /\ ~(r + n <= bottom)
    BY <1>2, <1>5, <2>1
  <2> QED
    BY <2>5, <2>6, <2>7 DEF p
<1>13. Scrolled(s, v, n)
  BY <1>11, <1>12 DEF Scrolled, top, bottom
<1> QED
  BY <1>3, <1>7, <1>13 DEF top, bottom

-----------------------------------------------------------------------------
(* Functions that steer the cursor and the modes.                            *)

\* u is s with the cursor or the modes changed, and no character more waiting
\* for the next line.
Steers(s, u) ==
  /\ u \in Screens /\ u.vdc = s.vdc
  /\ u.t.top = s.t.top /\ u.t.bottom = s.t.bottom
  /\ (u.t.wrap => s.t.wrap)

\* Steering the cursor draws nothing.
LEMMA SteersDraws ==
  ASSUME NEW s \in Screens, NEW u, Steers(s, u)
  PROVE  Draws(s, u)
  BY DEF Steers, Draws

LEMMA SteersOn ==
  ASSUME NEW s, NEW u, NEW v, Steers(s, u), Steers(u, v)
  PROVE  Steers(s, v)
  BY DEF Steers

\* Any change of the terminal that keeps its type and its region steers.
LEMMA WithTerminal ==
  ASSUME NEW s \in Screens, NEW v \in Terminals
  PROVE  /\ [s EXCEPT !.t = v] \in Screens
         /\ [s EXCEPT !.t = v].t = v /\ [s EXCEPT !.t = v].vdc = s.vdc
  BY DEF Screens

\* A cursor in another column, in another row, or without its wrap flag.
LEMMA WithX ==
  ASSUME NEW s \in Screens, NEW x \in Cols
  PROVE  Steers(s, [s EXCEPT !.t.x = x])
<1>1. s.t \in Terminals
  BY ScreenParts
<1> DEFINE v == [s.t EXCEPT !.x = x]
<1>2. v \in Terminals /\ v.top = s.t.top /\ v.bottom = s.t.bottom /\ v.wrap = s.t.wrap
  BY <1>1 DEF Terminals
<1> HIDE DEF v
<1>3. Steers(s, [s EXCEPT !.t = v])
  BY <1>2, WithTerminal DEF Steers
<1> QED
  BY <1>3 DEF v

LEMMA WithY ==
  ASSUME NEW s \in Screens, NEW y \in Rows
  PROVE  Steers(s, [s EXCEPT !.t.y = y])
<1>1. s.t \in Terminals
  BY ScreenParts
<1> DEFINE v == [s.t EXCEPT !.y = y]
<1>2. v \in Terminals /\ v.top = s.t.top /\ v.bottom = s.t.bottom /\ v.wrap = s.t.wrap
  BY <1>1 DEF Terminals
<1> HIDE DEF v
<1>3. Steers(s, [s EXCEPT !.t = v])
  BY <1>2, WithTerminal DEF Steers
<1> QED
  BY <1>3 DEF v

LEMMA WithoutWrap ==
  ASSUME NEW s \in Screens
  PROVE  LET f == [s EXCEPT !.t.wrap = FALSE]
         IN /\ Steers(s, f) /\ f.t.wrap = FALSE
            /\ f.t.x = s.t.x /\ f.t.y = s.t.y /\ f.t.attr = s.t.attr
            /\ f.t.newline = s.t.newline /\ f.t.autowrap = s.t.autowrap
<1>1. s.t \in Terminals
  BY ScreenParts
<1> DEFINE v == [s.t EXCEPT !.wrap = FALSE]
<1>2. /\ v \in Terminals /\ v.top = s.t.top /\ v.bottom = s.t.bottom /\ v.wrap = FALSE
      /\ v.x = s.t.x /\ v.y = s.t.y /\ v.attr = s.t.attr /\ v.newline = s.t.newline
      /\ v.autowrap = s.t.autowrap
  BY <1>1 DEF Terminals
<1> HIDE DEF v
<1> DEFINE f == [s EXCEPT !.t = v]
<1>3. f.t = v /\ Steers(s, f)
  BY <1>2, WithTerminal DEF Steers
<1> HIDE DEF f
<1>4. /\ Steers(s, f) /\ f.t.wrap = FALSE
      /\ f.t.x = s.t.x /\ f.t.y = s.t.y /\ f.t.attr = s.t.attr
      /\ f.t.newline = s.t.newline /\ f.t.autowrap = s.t.autowrap
  BY <1>2, <1>3
<1> QED
  BY <1>4 DEF f, v

\* The moves of the cursor keep it on the screen.
LEMMA UpSteers ==
  ASSUME NEW s \in Screens, NEW n \in Nat
  PROVE  Steers(s, Up(s, n))
<1>1. s.t.y \in Rows
  BY CursorParts
<1>2. Max({s.t.y - n, 0}) \in Rows
  <2>1. s.t.y \in Int /\ 0 <= s.t.y /\ s.t.y <= H - 1 /\ H \in Int
    BY <1>1, Sizes DEF Rows
  <2>2. Max({s.t.y - n, 0}) = IF s.t.y - n >= 0 THEN s.t.y - n ELSE 0
    BY <2>1, Greatest
  <2> QED
    BY <2>1, <2>2 DEF Rows
<1>3. Up(s, n) = [s EXCEPT !.t.y = Max({s.t.y - n, 0})]
  BY DEF Up, Screens, Terminals
<1> QED
  BY <1>2, <1>3, WithY

LEMMA DownSteers ==
  ASSUME NEW s \in Screens, NEW n \in Nat
  PROVE  Steers(s, Down(s, n))
<1>1. s.t.y \in Rows
  BY CursorParts
<1>2. Min({s.t.y + n, H - 1}) \in Rows
  <2>1. s.t.y \in Int /\ 0 <= s.t.y /\ s.t.y <= H - 1 /\ H \in Int
    BY <1>1, Sizes DEF Rows
  <2>2. Min({s.t.y + n, H - 1}) = IF s.t.y + n <= H - 1 THEN s.t.y + n ELSE H - 1
    <3> DEFINE a == s.t.y + n
               b == H - 1
    <3>1. a \in Int /\ b \in Int
      BY <2>1
    <3> HIDE DEF a, b
    <3>2. Min({a, b}) = IF a <= b THEN a ELSE b
      BY <3>1, Least
    <3> QED
      BY <3>2 DEF a, b
  <2> QED
    BY <2>1, <2>2 DEF Rows
<1>3. Down(s, n) = [s EXCEPT !.t.y = Min({s.t.y + n, H - 1})]
  BY DEF Down, Screens, Terminals
<1> QED
  BY <1>2, <1>3, WithY

LEMMA RightSteers ==
  ASSUME NEW s \in Screens, NEW n \in Nat
  PROVE  Steers(s, Right(s, n))
<1>1. s.t.x \in Cols
  BY CursorParts
<1>2. Min({s.t.x + n, W - 1}) \in Cols
  <2>1. s.t.x \in Int /\ 0 <= s.t.x /\ s.t.x <= W - 1 /\ W \in Int
    BY <1>1, Sizes DEF Cols
  <2>2. Min({s.t.x + n, W - 1}) = IF s.t.x + n <= W - 1 THEN s.t.x + n ELSE W - 1
    <3> DEFINE a == s.t.x + n
               b == W - 1
    <3>1. a \in Int /\ b \in Int
      BY <2>1
    <3> HIDE DEF a, b
    <3>2. Min({a, b}) = IF a <= b THEN a ELSE b
      BY <3>1, Least
    <3> QED
      BY <3>2 DEF a, b
  <2> QED
    BY <2>1, <2>2 DEF Cols
<1>3. Right(s, n) = [s EXCEPT !.t.x = Min({s.t.x + n, W - 1})]
  BY DEF Right, Screens, Terminals
<1> QED
  BY <1>2, <1>3, WithX

LEMMA LeftSteers ==
  ASSUME NEW s \in Screens, NEW n \in Nat
  PROVE  Steers(s, Left(s, n))
<1>1. s.t.x \in Cols
  BY CursorParts
<1>2. Max({s.t.x - n, 0}) \in Cols
  <2>1. s.t.x \in Int /\ 0 <= s.t.x /\ s.t.x <= W - 1 /\ W \in Int
    BY <1>1, Sizes DEF Cols
  <2>2. Max({s.t.x - n, 0}) = IF s.t.x - n >= 0 THEN s.t.x - n ELSE 0
    BY <2>1, Greatest
  <2> QED
    BY <2>1, <2>2 DEF Cols
<1>3. Left(s, n) = [s EXCEPT !.t.x = Max({s.t.x - n, 0})]
  BY DEF Left, Screens, Terminals
<1> QED
  BY <1>2, <1>3, WithX

LEMMA StartSteers ==
  ASSUME NEW s \in Screens
  PROVE  Steers(s, Start(s))
  BY CursorParts, WithX DEF Start

\* So do the place that is saved and the one that is restored,
LEMMA SavesCursorSteers ==
  ASSUME NEW s \in Screens
  PROVE  Steers(s, SavesCursor(s))
<1>1. s.t \in Terminals
  BY ScreenParts
<1> DEFINE q == [s.t EXCEPT !.savedX = s.t.x]
           v == [q EXCEPT !.savedY = s.t.y]
<1>2. q \in Terminals /\ q.top = s.t.top /\ q.bottom = s.t.bottom /\ q.wrap = s.t.wrap
  BY <1>1 DEF Terminals
<1> HIDE DEF q
<1>3. v \in Terminals /\ v.top = s.t.top /\ v.bottom = s.t.bottom /\ v.wrap = s.t.wrap
  BY <1>1, <1>2 DEF Terminals
<1>4. SavesCursor(s) = [s EXCEPT !.t = v]
  BY DEF SavesCursor, q, Screens
<1> HIDE DEF v
<1> QED
  BY <1>3, <1>4, WithTerminal DEF Steers

LEMMA RestoresCursorSteers ==
  ASSUME NEW s \in Screens
  PROVE  Steers(s, RestoresCursor(s))
<1>1. s.t.savedX \in Cols /\ s.t.savedY \in Rows
  BY CursorParts
<1> DEFINE u == [s EXCEPT !.t.x = s.t.savedX]
           v == [u EXCEPT !.t.y = s.t.savedY]
<1>2. Steers(s, u)
  BY <1>1, WithX
<1>3. RestoresCursor(s) = v
  BY DEF RestoresCursor
<1> HIDE DEF u
<1>4. Steers(u, v)
  <2>1. u \in Screens
    BY <1>2 DEF Steers
  <2> QED
    BY <1>1, <2>1, WithY
<1> HIDE DEF v
<1> QED
  BY <1>2, <1>3, <1>4, SteersOn

\* the place a host asks for, and the modes.
LEMMA CursorToSteers ==
  ASSUME NEW s \in Screens, NEW row \in Nat, row >= 1, NEW col \in Nat, col >= 1
  PROVE  Steers(s, CursorTo(s, row, col))
<1> DEFINE y == Min({row, H}) - 1
           x == Min({col, W}) - 1
<1>1. y \in Rows /\ x \in Cols
  BY Sizes, Least DEF Rows, Cols
<1> DEFINE u == [s EXCEPT !.t.y = y]
           v == [u EXCEPT !.t.x = x]
<1>2. Steers(s, u)
  BY <1>1, WithY
<1>3. CursorTo(s, row, col) = v
  BY DEF CursorTo
<1> HIDE DEF u, x, y
<1>4. Steers(u, v)
  <2>1. u \in Screens
    BY <1>2 DEF Steers
  <2> QED
    BY <1>1, <2>1, WithX
<1> HIDE DEF v
<1> QED
  BY <1>2, <1>3, <1>4, SteersOn

LEMMA SetModeSteers ==
  ASSUME NEW s \in Screens, NEW mode, NEW on \in BOOLEAN
  PROVE  Steers(s, SetMode(s, mode, on))
<1>1. s.t \in Terminals
  BY ScreenParts
<1>2. ASSUME NEW v \in Terminals, v.top = s.t.top, v.bottom = s.t.bottom, v.wrap = s.t.wrap
      PROVE  Steers(s, [s EXCEPT !.t = v])
  BY <1>2, WithTerminal DEF Steers
<1>3. Steers(s, [s EXCEPT !.t.autowrap = on])
  <2> DEFINE v == [s.t EXCEPT !.autowrap = on]
  <2>1. v \in Terminals /\ v.top = s.t.top /\ v.bottom = s.t.bottom /\ v.wrap = s.t.wrap
    BY <1>1 DEF Terminals
  <2> HIDE DEF v
  <2> QED
    BY <1>2, <2>1 DEF v
<1>4. Steers(s, [s EXCEPT !.t.visible = on])
  <2> DEFINE v == [s.t EXCEPT !.visible = on]
  <2>1. v \in Terminals /\ v.top = s.t.top /\ v.bottom = s.t.bottom /\ v.wrap = s.t.wrap
    BY <1>1 DEF Terminals
  <2> HIDE DEF v
  <2> QED
    BY <1>2, <2>1 DEF v
<1>5. Steers(s, [s EXCEPT !.t.newline = on])
  <2> DEFINE v == [s.t EXCEPT !.newline = on]
  <2>1. v \in Terminals /\ v.top = s.t.top /\ v.bottom = s.t.bottom /\ v.wrap = s.t.wrap
    BY <1>1 DEF Terminals
  <2> HIDE DEF v
  <2> QED
    BY <1>2, <2>1 DEF v
<1>6. Steers(s, s)
  BY DEF Steers
<1>7. \/ SetMode(s, mode, on) = s
      \/ SetMode(s, mode, on) = [s EXCEPT !.t.autowrap = on]
      \/ SetMode(s, mode, on) = [s EXCEPT !.t.visible = on]
      \/ SetMode(s, mode, on) = [s EXCEPT !.t.newline = on]
  BY DEF SetMode
<1> QED
  BY <1>3, <1>4, <1>5, <1>6, <1>7

\* u is s with another region and the cursor at home.
Regions(s, u) ==
  /\ u \in Screens /\ u.vdc = s.vdc
  /\ u.t.x = 0 /\ u.t.y = 0 /\ (u.t.wrap => s.t.wrap)

\* A region that is set has two rows at least and takes the cursor home.
LEMMA SetRegionRegions ==
  ASSUME NEW s \in Screens, NEW first \in Nat, first >= 1, NEW last \in Nat
  PROVE  Regions(s, SetRegion(s, first, last))
<1> DEFINE valid == first < last /\ last <= H
           top == IF valid THEN first - 1 ELSE 0
           bottom == IF valid THEN last - 1 ELSE H - 1
<1>1. top \in Rows /\ bottom \in Rows /\ top < bottom /\ 0 \in Rows /\ 0 \in Cols
  BY Sizes DEF Rows, Cols
<1>2. SetRegion(s, first, last) =
        [s EXCEPT !.t.top = top, !.t.bottom = bottom, !.t.x = 0, !.t.y = 0]
  BY DEF SetRegion
<1> HIDE DEF top, bottom
<1>3. s.t \in Terminals
  BY ScreenParts
<1> DEFINE v == [s.t EXCEPT !.top = top, !.bottom = bottom, !.x = 0, !.y = 0]
<1>4. v \in Terminals /\ v.x = 0 /\ v.y = 0 /\ v.wrap = s.t.wrap
  BY <1>1, <1>3 DEF Terminals
<1>5. SetRegion(s, first, last) = [s EXCEPT !.t = v]
  BY <1>2 DEF Screens
<1> HIDE DEF v
<1> QED
  BY <1>4, <1>5, WithTerminal DEF Regions

-----------------------------------------------------------------------------
(* Line feeds and characters.                                                *)

NextRow(s) == IF s.t.y = s.t.bottom THEN s.t.y ELSE Min({s.t.y + 1, H - 1})

\* The cells after a line feed.
FedCell(s, r, c) ==
  IF s.t.y = s.t.bottom /\ r \in s.t.top..s.t.bottom
  THEN IF r + 1 <= s.t.bottom THEN CellAt(s, Place(r + 1, c)) ELSE Blank(s)
  ELSE CellAt(s, Place(r, c))

\* A line was fed.
Feeds(s, u) ==
  /\ Draws(s, u)
  /\ u.t.x = (IF s.t.newline THEN 0 ELSE s.t.x) /\ u.t.y = NextRow(s) /\ u.t.wrap = FALSE
  /\ u.t.top = s.t.top /\ u.t.bottom = s.t.bottom /\ u.t.attr = s.t.attr
  /\ \A r \in Rows, c \in Cols : CellAt(u, Place(r, c)) = FedCell(s, r, c)

\* The row after the last is the last.
LEMMA NextRowType ==
  ASSUME NEW s \in Screens
  PROVE  NextRow(s) \in Rows
<1>1. s.t.y \in Rows
  BY CursorParts
<1> DEFINE a == s.t.y + 1
           b == H - 1
<1>2. a \in Int /\ b \in Int /\ a >= 0 /\ b >= 0
  BY <1>1, Sizes DEF Rows
<1>3. Min({a, b}) \in Rows
  <2> HIDE DEF a
  <2> QED
    BY <1>2, Least, Sizes DEF Rows
<1> QED
  BY <1>1, <1>3 DEF NextRow

\* line_feed goes down a row, or scrolls at the bottom of the region.
LEMMA LineFeedFeeds ==
  ASSUME NEW s \in Screens
  PROVE  Feeds(s, LineFeed(s))
<1> DEFINE x == IF s.t.newline THEN 0 ELSE s.t.x
           w == [s EXCEPT !.t.wrap = FALSE]
           f == [w EXCEPT !.t.x = x]
           u == LineFeed(s)
<1>1. /\ s.t.x \in Cols /\ s.t.y \in Rows /\ s.t.top \in Rows /\ s.t.bottom \in Rows
      /\ 0 \in Cols
  BY CursorParts
<1>2. x \in Cols
  BY <1>1
<1>3. w \in Screens /\ w.vdc = s.vdc /\ w.t = [s.t EXCEPT !.wrap = FALSE]
  BY ScreenParts DEF Screens, Terminals
<1>4. [s EXCEPT !.t.wrap = FALSE, !.t.x = IF s.t.newline THEN 0 ELSE @] = f
  BY <1>3 DEF Screens, Terminals
<1> HIDE DEF x, w
<1>5. f.t = [w.t EXCEPT !.x = x] /\ f.vdc = w.vdc /\ f \in Screens
  <2>1. f \in Screens
    BY <1>2, <1>3, WithX DEF Steers
  <2> QED
    BY <1>3, <2>1 DEF Screens
<1> HIDE DEF f
<1>6. /\ f.t.x = x /\ f.t.y = s.t.y /\ f.t.wrap = FALSE /\ f.t.top = s.t.top
      /\ f.t.bottom = s.t.bottom /\ f.t.attr = s.t.attr /\ f.vdc = s.vdc
  BY <1>3, <1>5, ScreenParts DEF Terminals
<1>7. Draws(s, f) /\ Blank(f) = Blank(s) /\ \A p : CellAt(f, p) = CellAt(s, p)
  BY <1>5, <1>6 DEF Draws, Blank, CellAt
<1>8. u = IF s.t.y = s.t.bottom THEN ScrollUp(f, 1)
          ELSE [f EXCEPT !.t.y = Min({f.t.y + 1, H - 1})]
  BY <1>4, <1>5 DEF LineFeed, Screens, Terminals
<1> HIDE DEF u
<1>9. CASE s.t.y = s.t.bottom
  <2>1. Scrolled(f, u, 1)
    <3>1. u = ScrollUp(f, 1)
      BY <1>8, <1>9
    <3> DEFINE one == 1
    <3>2. one \in Nat /\ one >= 1 /\ one = 1
      OBVIOUS
    <3> HIDE DEF one
    <3>3. PICK n \in 1..(f.t.bottom - f.t.top + 1) :
            (one = 1 => n = 1) /\ Scrolled(f, ScrollUp(f, one), n)
      BY <1>5, <3>2, ScrollUpScrolls
    <3> QED
      BY <3>1, <3>2, <3>3
  <2>2. Draws(f, u) /\ u.t = f.t
    BY <2>1 DEF Scrolled
  <2>3. Draws(s, u)
    BY <1>7, <2>2, DrawsOn
  <2>4. \A r \in Rows, c \in Cols : CellAt(u, Place(r, c)) = FedCell(s, r, c)
    BY <1>6, <1>7, <1>9, <2>1 DEF Scrolled, FedCell
  <2>5. NextRow(s) = s.t.y
    BY <1>9 DEF NextRow
  <2> QED
    BY <1>6, <2>2, <2>3, <2>4, <2>5 DEF Feeds, x, u
<1>10. CASE s.t.y # s.t.bottom
  <2> DEFINE y == NextRow(s)
  <2>1. y \in Rows /\ u = [f EXCEPT !.t.y = y]
    BY <1>6, <1>8, <1>10, NextRowType DEF NextRow
  <2> HIDE DEF y
  <2>2. u.vdc = f.vdc /\ u \in Screens /\ u.t = [f.t EXCEPT !.y = y]
    <3>1. u \in Screens
      BY <1>5, <2>1, WithY DEF Steers
    <3> QED
      BY <1>5, <2>1, <3>1 DEF Screens
  <2>3. /\ u.t.y = y /\ u.t.x = x /\ u.t.wrap = FALSE /\ u.t.top = s.t.top
        /\ u.t.bottom = s.t.bottom /\ u.t.attr = s.t.attr
    BY <1>5, <1>6, <2>2, ScreenParts DEF Terminals
  <2>4. Draws(s, u) /\ \A p : CellAt(u, p) = CellAt(s, p)
    BY <1>6, <2>2 DEF Draws, CellAt
  <2> QED
    BY <1>10, <2>3, <2>4 DEF Feeds, FedCell, x, y, u
<1> QED
  BY <1>9, <1>10

PutRow(s) == IF s.t.wrap THEN NextRow(s) ELSE s.t.y
PutCol(s) == IF s.t.wrap THEN 0 ELSE s.t.x

\* A character was put, after a line feed at the end of a line.
Puts(s, u, cell) ==
  /\ Draws(s, u)
  /\ u.t.y = PutRow(s) /\ u.t.x = Min({PutCol(s) + 1, W - 1})
  /\ (u.t.wrap => PutCol(s) = W - 1)
  /\ u.t.top = s.t.top /\ u.t.bottom = s.t.bottom
  /\ \A r \in Rows, c \in Cols :
       CellAt(u, Place(r, c)) =
         IF r = PutRow(s) /\ c = PutCol(s) THEN cell
         ELSE IF s.t.wrap THEN FedCell(s, r, c) ELSE CellAt(s, Place(r, c))

\* Where a character goes, after the line feed.
LEMMA PutLine ==
  ASSUME NEW s \in Screens
  PROVE  LET f == IF s.t.wrap THEN LineFeed([s EXCEPT !.t.x = 0]) ELSE s
         IN /\ Draws(s, f) /\ f.t.y = PutRow(s) /\ f.t.x = PutCol(s) /\ f.t.wrap = FALSE
            /\ f.t.top = s.t.top /\ f.t.bottom = s.t.bottom /\ f.t.attr = s.t.attr
            /\ \A r \in Rows, c \in Cols :
                 CellAt(f, Place(r, c)) =
                   IF s.t.wrap THEN FedCell(s, r, c) ELSE CellAt(s, Place(r, c))
<1> DEFINE z == [s EXCEPT !.t.x = 0]
           f == LineFeed(z)
<1>1. s.t.wrap \in BOOLEAN /\ 0 \in Cols
  BY CursorParts
<1>2. z \in Screens /\ z.vdc = s.vdc /\ z.t = [s.t EXCEPT !.x = 0]
  <2>1. z \in Screens /\ z.vdc = s.vdc
    BY <1>1, WithX DEF Steers
  <2> QED
    BY <2>1 DEF Screens
<1> HIDE DEF z
<1>3. /\ z.t.x = 0 /\ z.t.y = s.t.y /\ z.t.top = s.t.top /\ z.t.bottom = s.t.bottom
      /\ z.t.attr = s.t.attr
  BY <1>2, ScreenParts DEF Terminals
<1>4. /\ NextRow(z) = NextRow(s) /\ Blank(z) = Blank(s)
      /\ \A p : CellAt(z, p) = CellAt(s, p)
      /\ Draws(s, z)
  BY <1>2, <1>3 DEF NextRow, Blank, CellAt, Draws
<1>5. \A r, c : FedCell(z, r, c) = FedCell(s, r, c)
  BY <1>3, <1>4 DEF FedCell
<1>6. Feeds(z, f)
  BY <1>2, LineFeedFeeds
<1> HIDE DEF f
<1>7. CASE s.t.wrap
  <2>1. Draws(s, f)
    BY <1>4, <1>6, DrawsOn DEF Feeds
  <2>2. f.t.y = PutRow(s) /\ f.t.x = PutCol(s) /\ f.t.wrap = FALSE
        /\ f.t.top = s.t.top /\ f.t.bottom = s.t.bottom /\ f.t.attr = s.t.attr
    BY <1>3, <1>4, <1>6, <1>7 DEF Feeds, PutRow, PutCol
  <2>3. \A r \in Rows, c \in Cols : CellAt(f, Place(r, c)) = FedCell(s, r, c)
    BY <1>5, <1>6 DEF Feeds
  <2> QED
    BY <1>7, <2>1, <2>2, <2>3 DEF f, z
<1>8. CASE ~s.t.wrap
  BY <1>1, <1>8, ScreenParts DEF PutRow, PutCol
<1> QED
  BY <1>7, <1>8

\* A code and an attribute are bytes.
LEMMA CodeType ==
  ASSUME NEW value \in Codes
  PROVE  value % 128 \in Octet
<1>1. value \in Nat
  BY HostSends
<1> QED
  BY <1>1 DEF Octet

LEMMA AttributeType ==
  ASSUME NEW value \in Codes, NEW attr \in Attributes
  PROVE  attr + (IF value < 128 THEN ALTERNATE ELSE 0) \in Octet
<1>1. attr \in 0..127
  BY Zenon, AttributeIs
<1> QED
  BY <1>1 DEF Octet, ALTERNATE

\* A run of one byte.
LEMMA FilledOne ==
  ASSUME NEW m \in Memories, NEW a \in Address, NEW v
  PROVE  Filled(m, a, 1, v) = [m EXCEPT ![a] = v]
<1>1. \A b \in Address : b \in a..(a + 1 - 1) <=> b = a
  BY VdcAssumption DEF Address
<1> QED
  BY <1>1 DEF Filled, Memories

\* put writes one cell, after a line feed if the row before was full.
LEMMA PutPuts ==
  ASSUME NEW s \in Screens, NEW value \in Codes
  PROVE  \E cell \in Cells : Puts(s, Put(s, value), cell)
<1> DEFINE f == IF s.t.wrap THEN LineFeed([s EXCEPT !.t.x = 0]) ELSE s
           x == f.t.x
           y == f.t.y
           p == Place(y, x)
           d == f.vdc
           glyph == value % 128
           attr == f.t.attr + (IF value < 128 THEN ALTERNATE ELSE 0)
           cell == <<glyph, attr>>
           g == Filled(d.mem, CHARS + p, 1, glyph)
           m == Filled(g, ATTRS + p, 1, attr)
           put == [f EXCEPT !.vdc = Holding(d, m)]
           u == Put(s, value)
<1>1. /\ Draws(s, f) /\ y = PutRow(s) /\ x = PutCol(s) /\ f.t.wrap = FALSE
      /\ f.t.top = s.t.top /\ f.t.bottom = s.t.bottom /\ f.t.attr = s.t.attr
      /\ \A r \in Rows, c \in Cols :
           CellAt(f, Place(r, c)) =
             IF s.t.wrap THEN FedCell(s, r, c) ELSE CellAt(s, Place(r, c))
  BY PutLine
<1>2. u = LET glyph_ == Store(f.vdc, At(f.t.x, f.t.y), value % 128)
              attr_ == f.t.attr + (IF value < 128 THEN ALTERNATE ELSE 0)
              put_ == [f EXCEPT !.vdc = Store(glyph_, AttrAt(f.t.x, f.t.y), attr_)]
          IN IF f.t.x = W - 1 THEN [put_ EXCEPT !.t.wrap = f.t.autowrap]
             ELSE [put_ EXCEPT !.t.x = @ + 1]
  BY DEF Put
<1> HIDE DEF f
<1>3. f \in Screens
  BY <1>1 DEF Draws
<1>4. x \in Cols /\ y \in Rows /\ f.t.attr \in Attributes /\ f.t.autowrap \in BOOLEAN
  BY <1>3, CursorParts
<1>5. glyph \in Octet /\ attr \in Octet /\ cell \in Cells
  BY <1>4, CodeType, AttributeType DEF Cells
<1>6. d \in Chips /\ d.mem \in Memories
  BY <1>3, ScreenParts
<1>7. /\ At(x, y) = CHARS + p /\ CHARS + p \in Address /\ AttrAt(x, y) = ATTRS + p
      /\ ATTRS + p \in Address /\ p \in Places /\ p \in Nat /\ p + 1 <= Size
  BY <1>4, PlaceType, Sizes DEF Places
<1> HIDE DEF p
<1>8. /\ g \in Memories /\ m \in Memories
      /\ \A a \in Outside : m[a] = d.mem[a]
      /\ \A q \in Places : <<m[CHARS + q], m[ATTRS + q]>> =
           IF q \in p..(p + 1 - 1) THEN cell ELSE <<d.mem[CHARS + q], d.mem[ATTRS + q]>>
  <2> HIDE DEF glyph, attr, d
  <2> QED
    BY <1>5, <1>6, <1>7, FilledCells
<1>9. Store(d, At(x, y), glyph) = Holding(d, g)
  <2>1. CHARS + p \in Nat /\ CHARS + p < MEM
    BY <1>7, Sizes DEF Address
  <2> HIDE DEF glyph, d
  <2>2. g = [d.mem EXCEPT ![CHARS + p] = glyph]
    BY <1>6, <1>7, FilledOne
  <2>3. Store(d, CHARS + p, glyph) = [d EXCEPT !.mem = [d.mem EXCEPT ![CHARS + p] = glyph]]
    BY ZenonT(30), <2>1, StoreIs
  <2> QED
    BY <1>7, <2>2, <2>3 DEF Holding
<1>10. Store(Holding(d, g), AttrAt(x, y), attr) = Holding(d, m)
  <2>1. ATTRS + p \in Nat /\ ATTRS + p < MEM
    BY <1>7, Sizes DEF Address
  <2> DEFINE e == Holding(d, g)
  <2> HIDE DEF attr, d, g
  <2>2. e \in Chips /\ e.mem = g /\ Holding(e, m) = Holding(d, m)
    BY <1>6, <1>8, HoldingType
  <2>3. m = [g EXCEPT ![ATTRS + p] = attr]
    BY <1>7, <1>8, FilledOne
  <2> HIDE DEF e, m
  <2>4. Store(e, ATTRS + p, attr) = [e EXCEPT !.mem = [e.mem EXCEPT ![ATTRS + p] = attr]]
    BY ZenonT(30), <2>1, StoreIs
  <2> QED
    BY <1>7, <2>2, <2>3, <2>4 DEF Holding, e
<1> HIDE DEF g, m
<1>11. Draws(f, put)
  BY <1>3, <1>8, HoldingDraws
<1>12. put.t = f.t /\ put.vdc.mem = m /\ put \in Screens
  <2> DEFINE h == Holding(d, m)
  <2>1. h.mem = m
    BY <1>6, <1>8, HoldingType
  <2> HIDE DEF h
  <2>2. [f EXCEPT !.vdc = h].t = f.t /\ [f EXCEPT !.vdc = h].vdc = h
    BY <1>3 DEF Screens
  <2>3. put \in Screens
    BY <1>11 DEF Draws
  <2> QED
    BY <2>1, <2>2, <2>3 DEF h
<1>13. ASSUME NEW r \in Rows, NEW c \in Cols
       PROVE  CellAt(put, Place(r, c)) =
                IF r = y /\ c = x THEN cell ELSE CellAt(f, Place(r, c))
  <2>1. Place(r, c) \in Places
    BY PlaceType
  <2>2. Place(r, c) \in p..(p + 1 - 1) <=> Place(r, c) = p
    BY <1>7, <2>1 DEF Places
  <2>3. Place(r, c) = p <=> r = y /\ c = x
    BY <1>4, PlaceUnique DEF p
  <2> HIDE DEF cell, put
  <2> QED
    BY <1>8, <1>12, <2>1, <2>2, <2>3 DEF CellAt
<1>14. u = IF x = W - 1 THEN [put EXCEPT !.t.wrap = f.t.autowrap]
           ELSE [put EXCEPT !.t.x = put.t.x + 1]
  <2> HIDE DEF u
  <2>1. put = [f EXCEPT !.vdc = Store(Store(f.vdc, At(f.t.x, f.t.y), value % 128),
                                     AttrAt(f.t.x, f.t.y), attr)]
    BY <1>9, <1>10
  <2>2. [put EXCEPT !.t.x = @ + 1] = [put EXCEPT !.t.x = put.t.x + 1]
    BY <1>12 DEF Screens, Terminals
  <2> HIDE DEF put
  <2> QED
    BY <1>2, <2>1, <2>2
<1> HIDE DEF u, put, cell
<1> DEFINE next == IF x = W - 1 THEN x ELSE x + 1
<1>15. next = Min({PutCol(s) + 1, W - 1}) /\ next \in Cols
  <2> DEFINE a == x + 1
             b == W - 1
  <2>1. a \in Int /\ b \in Int /\ x \in Int /\ 0 <= x /\ x <= b /\ 0 <= b
    BY <1>4, Sizes DEF Cols
  <2> HIDE DEF a, b
  <2>2. Min({a, b}) = IF a <= b THEN a ELSE b
    BY <2>1, Least
  <2> QED
    BY <1>1, <2>1, <2>2 DEF a, b, Cols
<1>16. /\ u \in Screens /\ u.vdc = put.vdc /\ u.t.x = next /\ u.t.y = y
       /\ (u.t.wrap => x = W - 1) /\ u.t.top = f.t.top /\ u.t.bottom = f.t.bottom
  <2>1. CASE x = W - 1
    <3> DEFINE v == [put.t EXCEPT !.wrap = f.t.autowrap]
    <3>1. /\ v \in Terminals /\ v.x = x /\ v.y = y /\ v.top = f.t.top
          /\ v.bottom = f.t.bottom
      BY <1>3, <1>4, <1>12, ScreenParts DEF Terminals
    <3>2. u = [put EXCEPT !.t = v]
      BY <1>12, <1>14, <2>1 DEF Screens
    <3> HIDE DEF v
    <3> QED
      BY <1>12, <2>1, <3>1, <3>2, WithTerminal
  <2>2. CASE x # W - 1
    <3> DEFINE v == [put.t EXCEPT !.x = next]
    <3>1. /\ v \in Terminals /\ v.x = next /\ v.y = y /\ v.top = f.t.top
          /\ v.bottom = f.t.bottom /\ v.wrap = FALSE
      <4> HIDE DEF next
      <4> QED
        BY <1>1, <1>3, <1>12, <1>15, ScreenParts DEF Terminals
    <3>2. u = [put EXCEPT !.t = v]
      BY <1>12, <1>14, <2>2 DEF Screens
    <3> HIDE DEF v, next
    <3> QED
      BY <1>12, <3>1, <3>2, WithTerminal
  <2> QED
    BY <2>1, <2>2
<1>17. Draws(s, u)
  <2>1. Draws(f, u)
    BY <1>11, <1>16 DEF Draws
  <2> QED
    BY <1>1, <2>1, DrawsOn
<1>18. \A q : CellAt(u, q) = CellAt(put, q)
  BY <1>16 DEF CellAt
<1> HIDE DEF next
<1>19. Puts(s, u, cell)
  BY <1>1, <1>13, <1>15, <1>16, <1>17, <1>18 DEF Puts
<1> QED
  BY <1>5, <1>19 DEF u, cell

-----------------------------------------------------------------------------
(* What a function of the host does to the screen.                           *)

\* A stretch that holds the cursor was erased.
Clears(s, u) ==
  /\ Draws(s, u)
  /\ u.t.x = s.t.x /\ u.t.y = s.t.y /\ u.t.wrap = FALSE
  /\ u.t.top = s.t.top /\ u.t.bottom = s.t.bottom
  /\ \E first \in 0..Place(s.t.y, s.t.x), last \in Place(s.t.y, s.t.x)..(Size - 1) :
       \A p \in Places :
         CellAt(u, p) = IF p \in first..last THEN Blank(s) ELSE CellAt(s, p)

\* The region was scrolled.
Scrolls(s, u) ==
  /\ Draws(s, u)
  /\ u.t.x = s.t.x /\ u.t.y = s.t.y /\ u.t.wrap = FALSE
  /\ u.t.top = s.t.top /\ u.t.bottom = s.t.bottom
  /\ \E n \in 1..(s.t.bottom - s.t.top + 1) :
       \A r \in Rows, c \in Cols :
         CellAt(u, Place(r, c)) =
           IF r \notin s.t.top..s.t.bottom THEN CellAt(s, Place(r, c))
           ELSE IF r + n <= s.t.bottom THEN CellAt(s, Place(r + n, c)) ELSE Blank(s)

\* A line was fed, wherever on it the cursor stands.
FeedsLine(s, u) ==
  /\ Draws(s, u)
  /\ u.t.x \in {0, s.t.x} /\ u.t.y = NextRow(s) /\ u.t.wrap = FALSE
  /\ u.t.top = s.t.top /\ u.t.bottom = s.t.bottom
  /\ \A r \in Rows, c \in Cols : CellAt(u, Place(r, c)) = FedCell(s, r, c)

Parsers ==
  [state: {"TEXT", "ESC", "CSI", "STRING", "STRING_ESC"}, params: [1..PARAMS -> Octet],
   count: 1..PARAMS, private: BOOLEAN]

\* A parameter is a number of eight bits.
LEMMA ParameterType ==
  ASSUME parser \in Parsers, NEW n \in Nat, n >= 1, NEW fallback \in Nat, fallback >= 1
  PROVE  Parameter(n, fallback) \in Nat /\ Parameter(n, fallback) >= 1
<1>1. PARAMS \in Nat
  BY HostSends
<1>2. CASE n > parser.count \/ parser.params[n] = 0
  BY <1>2 DEF Parameter
<1>3. CASE ~(n > parser.count \/ parser.params[n] = 0)
  <2>1. parser.count \in 1..PARAMS /\ parser.params \in [1..PARAMS -> Octet]
    BY DEF Parsers
  <2>2. n \in 1..PARAMS
    BY <1>1, <1>3, <2>1
  <2>3. parser.params[n] \in Octet
    BY <2>1, <2>2
  <2>4. parser.params[n] \in Nat /\ parser.params[n] >= 1
    BY <1>3, <2>3 DEF Octet
  <2> QED
    BY <1>3, <2>4 DEF Parameter
<1> QED
  BY <1>2, <1>3

\* Each control sequence erases, scrolls, steers or sets a region.
LEMMA CsiShows ==
  ASSUME parser \in Parsers, NEW s \in Screens, NEW final
  PROVE  LET u == Csi(s, final)
         IN \/ Steers(s, u) \/ Clears(s, u) \/ Scrolls(s, u)
            \/ Regions(s, u) /\ u.t.wrap = FALSE
<1> DEFINE f == [s EXCEPT !.t.wrap = FALSE]
           n == Parameter(1, 1)
           mode == parser.params[1]
           u == Csi(s, final)
<1>1. /\ Steers(s, f) /\ f.t.wrap = FALSE
      /\ f.t.x = s.t.x /\ f.t.y = s.t.y /\ f.t.attr = s.t.attr
  BY WithoutWrap
<1>2. n \in Nat /\ n >= 1
  BY ParameterType
<1>3. Parameter(2, 1) \in Nat /\ Parameter(2, 1) >= 1 /\ Parameter(2, H) \in Nat
  BY ParameterType, Sizes
<1>4. u = CASE final = "A" -> Up(f, n)
            [] final = "B" -> Down(f, n)
            [] final = "C" -> Right(f, n)
            [] final = "D" -> Left(f, n)
            [] final = "E" -> Down(Start(f), n)
            [] final = "F" -> Up(Start(f), n)
            [] final = "G" -> CursorTo(f, f.t.y + 1, n)
            [] final \in {"H", "f"} -> CursorTo(f, n, Parameter(2, 1))
            [] final = "J" -> EraseDisplay(f, mode)
            [] final = "K" -> EraseLine(f, mode)
            [] final = "S" -> ScrollUp(f, n)
            [] final = "s" -> SavesCursor(f)
            [] final = "u" -> RestoresCursor(f)
            [] final = "r" -> SetRegion(f, n, Parameter(2, H))
            [] final = "h" -> SetMode(f, mode, TRUE)
            [] final = "l" -> SetMode(f, mode, FALSE)
            [] OTHER -> f
  BY DEF Csi
<1> HIDE DEF f, n, mode, u
<1>5. f \in Screens /\ f.vdc = s.vdc /\ f.t.top = s.t.top /\ f.t.bottom = s.t.bottom
  BY <1>1 DEF Steers
<1>6. Draws(s, f) /\ Blank(f) = Blank(s) /\ \A p : CellAt(f, p) = CellAt(s, p)
  BY <1>1, <1>5, SteersDraws DEF Blank, CellAt
<1>7. ASSUME NEW v, Steers(f, v)
      PROVE  Steers(s, v)
  BY <1>1, <1>7, SteersOn
<1>8. ASSUME NEW v, Erased(f, v)
      PROVE  Clears(s, v)
  <2>1. PICK first \in 0..Place(f.t.y, f.t.x), last \in Place(f.t.y, f.t.x)..(Size - 1) :
          Blanked(f, v, first, last)
    BY <1>8 DEF Erased
  <2>2. Draws(s, v) /\ v.t = f.t
    BY <1>6, <2>1, DrawsOn DEF Blanked
  <2> QED
    BY <1>1, <1>5, <1>6, <2>1, <2>2 DEF Clears, Blanked
<1>9. Scrolls(s, ScrollUp(f, n))
  <2> DEFINE v == ScrollUp(f, n)
  <2>1. PICK k \in 1..(f.t.bottom - f.t.top + 1) : Scrolled(f, v, k)
    BY <1>2, <1>5, ScrollUpScrolls
  <2> HIDE DEF v
  <2>2. Draws(s, v) /\ v.t = f.t
    BY <1>6, <2>1, DrawsOn DEF Scrolled
  <2> QED
    BY <1>1, <1>5, <1>6, <2>1, <2>2 DEF Scrolls, Scrolled, v
<1>10. Steers(f, Start(f)) /\ Start(f) \in Screens
  BY <1>5, StartSteers DEF Steers
<1>11. Steers(f, Down(Start(f), n)) /\ Steers(f, Up(Start(f), n))
  BY <1>2, <1>10, DownSteers, UpSteers, SteersOn
<1>12. Steers(f, CursorTo(f, f.t.y + 1, n))
  <2>1. f.t.y + 1 \in Nat /\ f.t.y + 1 >= 1
    BY <1>5, CursorParts DEF Rows
  <2> QED
    BY <1>2, <1>5, <2>1, CursorToSteers
<1>13. Steers(f, CursorTo(f, n, Parameter(2, 1)))
  BY <1>2, <1>3, <1>5, CursorToSteers
<1>14. LET v == SetRegion(f, n, Parameter(2, H)) IN Regions(s, v) /\ v.t.wrap = FALSE
  <2> DEFINE v == SetRegion(f, n, Parameter(2, H))
  <2>1. Regions(f, v)
    BY <1>2, <1>3, <1>5, SetRegionRegions
  <2> HIDE DEF v
  <2>2. v \in Screens /\ v.vdc = s.vdc /\ v.t.x = 0 /\ v.t.y = 0 /\ ~v.t.wrap
    BY <1>1, <1>5, <2>1 DEF Regions
  <2>3. v.t.wrap = FALSE
    BY <2>2, CursorParts
  <2> QED
    BY <2>2, <2>3 DEF Regions, v
<1> QED
  BY <1>4, <1>5, <1>7, <1>8, <1>9, <1>11, <1>12, <1>13, <1>14, <1>1, <1>2,
     UpSteers, DownSteers, RightSteers, LeftSteers, EraseDisplayErases,
     EraseLineErases, SavesCursorSteers, RestoresCursorSteers, SetModeSteers
  DEF u

\* So does each control character, and each escape.
LEMMA FeedsIsLine ==
  ASSUME NEW s \in Screens, NEW u, Feeds(s, u)
  PROVE  FeedsLine(s, u)
  BY CursorParts DEF Feeds, FeedsLine

LEMMA ControlShows ==
  ASSUME NEW s \in Screens, NEW value
  PROVE  LET u == Control(s, value) IN Steers(s, u) \/ FeedsLine(s, u)
<1> DEFINE f == [s EXCEPT !.t.wrap = FALSE]
           tab == TAB - (s.t.x % TAB)
           u == Control(s, value)
<1>1. Steers(s, f) /\ f \in Screens
  BY WithoutWrap DEF Steers
<1>2. u = CASE value = "BS" -> Left(f, 1)
            [] value = "HT" -> Right(s, tab)
            [] value = "LF" -> LineFeed(s)
            [] value = "CR" -> Start(f)
            [] OTHER -> s
  BY DEF Control
<1>3. tab \in Nat
  <2>1. s.t.x \in Nat /\ TAB \in Nat \ {0}
    BY CursorParts, Sizes DEF Cols
  <2>2. s.t.x % TAB \in 0..(TAB - 1)
    BY <2>1, Division
  <2> QED
    BY <2>1, <2>2
<1> HIDE DEF f, tab, u
<1>4. Steers(s, s)
  BY DEF Steers
<1>5. Steers(f, Left(f, 1)) /\ Steers(f, Start(f)) /\ Steers(s, Right(s, tab))
  BY <1>1, <1>3, LeftSteers, StartSteers, RightSteers
<1>6. Steers(s, Left(f, 1)) /\ Steers(s, Start(f))
  BY <1>1, <1>5, SteersOn
<1>7. FeedsLine(s, LineFeed(s))
  BY LineFeedFeeds, FeedsIsLine
<1> QED
  BY <1>2, <1>4, <1>5, <1>6, <1>7 DEF u

LEMMA EscapeShows ==
  ASSUME NEW s \in Screens, NEW value
  PROVE  LET u == Escape(s, value) IN Steers(s, u) \/ FeedsLine(s, u)
<1> DEFINE z == Start(s)
           u == Escape(s, value)
<1>1. u = CASE value = "7" -> SavesCursor(s)
            [] value = "8" -> RestoresCursor(s)
            [] value = "D" -> LineFeed(s)
            [] value = "E" -> LineFeed(z)
            [] value = "M" -> Up(s, 1)
            [] OTHER -> s
  BY DEF Escape
<1>2. z \in Screens /\ z.vdc = s.vdc /\ z.t = [s.t EXCEPT !.x = 0]
  <2>1. z \in Screens /\ z.vdc = s.vdc
    BY StartSteers DEF Steers
  <2> QED
    BY <2>1 DEF Start, Screens
<1> HIDE DEF z, u
<1>3. /\ z.t.x = 0 /\ z.t.y = s.t.y /\ z.t.top = s.t.top /\ z.t.bottom = s.t.bottom
      /\ z.t.attr = s.t.attr
  BY <1>2, ScreenParts DEF Terminals
<1>4. /\ NextRow(z) = NextRow(s) /\ Blank(z) = Blank(s) /\ \A p : CellAt(z, p) = CellAt(s, p)
      /\ Draws(s, z)
  BY <1>2, <1>3 DEF NextRow, Blank, CellAt, Draws
<1>5. \A r, c : FedCell(z, r, c) = FedCell(s, r, c)
  BY <1>3, <1>4 DEF FedCell
<1>6. FeedsLine(s, LineFeed(z))
  <2> DEFINE v == LineFeed(z)
  <2>1. Feeds(z, v)
    BY <1>2, LineFeedFeeds
  <2> HIDE DEF v
  <2>2. Draws(s, v)
    BY <1>4, <2>1, DrawsOn DEF Feeds
  <2> QED
    BY <1>3, <1>4, <1>5, <2>1, <2>2 DEF FeedsLine, Feeds, v
<1>7. FeedsLine(s, LineFeed(s))
  BY LineFeedFeeds, FeedsIsLine
<1>8. Steers(s, s) /\ Steers(s, Up(s, 1))
  BY UpSteers DEF Steers
<1> QED
  BY <1>1, <1>6, <1>7, <1>8, SavesCursorSteers, RestoresCursorSteers DEF u

-----------------------------------------------------------------------------
(* The invariant.                                                            *)

Now == [t |-> t, vdc |-> vdc]

Types ==
  /\ phase \in {"MENU", "PREVIEW", "TERMINAL", "MESSAGE"}
  /\ Now \in Screens /\ parser \in Parsers
  /\ batch \in BOOLEAN /\ pending \in BOOLEAN /\ heard \in BOOLEAN

\* The chip's font is the one on the screen, and fontActive tells which.
Fonts ==
  IF phase \in {"MENU", "MESSAGE"}
  THEN vdc.font = "SYSTEM" /\ vdc.fontActive = FALSE
  ELSE vdc.font = "CP437" /\ vdc.fontActive = TRUE

Untouched ==
  \A a \in Outside : \E contents \in Drawn : vdc.mem[a] = contents[a]

IInv == Types /\ Fonts /\ Untouched

\* The font is restored if it was loaded, and nothing else changes.
LEMMA RestoreFontIs ==
  ASSUME NEW d \in Chips
  PROVE  LET e == RestoreFont(d)
         IN /\ e \in Chips /\ e.mem = d.mem /\ e.copy = d.copy
            /\ d.fontActive = TRUE => e.font = "SYSTEM" /\ e.fontActive = FALSE
            /\ d.fontActive = FALSE => e = d
<1> DEFINE q == [d EXCEPT !.font = "SYSTEM"]
           e == [q EXCEPT !.fontActive = FALSE]
<1>1. q \in Chips /\ q.mem = d.mem /\ q.copy = d.copy /\ q.font = "SYSTEM"
  BY DEF Chips
<1>2. [d EXCEPT !.font = "SYSTEM", !.fontActive = FALSE] = e
  OBVIOUS
<1> HIDE DEF q
<1>3. e \in Chips /\ e.mem = d.mem /\ e.copy = d.copy /\ e.font = "SYSTEM" /\ e.fontActive = FALSE
  BY <1>1 DEF Chips
<1> HIDE DEF e
<1>4. RestoreFont(d) = IF d.fontActive THEN e ELSE d
  BY <1>2 DEF RestoreFont
<1>5. d.fontActive \in BOOLEAN
  BY DEF Chips
<1> QED
  BY <1>3, <1>4, <1>5

\* Only a whole file leaves its font in the chip.
LEMMA LoadFontIs ==
  ASSUME NEW d \in Chips, d.font = "SYSTEM", d.fontActive = FALSE, NEW file \in FontFile
  PROVE  LET e == LoadFont(d, file)
         IN /\ e \in Chips /\ e.mem = d.mem /\ e.copy = d.copy
            /\ IF file = "WHOLE" THEN e.font = "CP437" /\ e.fontActive = TRUE
               ELSE e.font = "SYSTEM" /\ e.fontActive = FALSE
<1> DEFINE font == IF file = "SHORT" THEN "PART" ELSE "CP437"
           q == [d EXCEPT !.fontActive = TRUE]
           loaded == [q EXCEPT !.font = font]
           e == LoadFont(d, file)
<1>1. RestoreFont(d) = d
  BY RestoreFontIs
<1>2. q \in Chips /\ q.mem = d.mem /\ q.copy = d.copy /\ q.fontActive = TRUE
  BY DEF Chips
<1>3. [d EXCEPT !.fontActive = TRUE, !.font = font] = loaded
  OBVIOUS
<1> HIDE DEF q
<1>4. /\ loaded \in Chips /\ loaded.mem = d.mem /\ loaded.copy = d.copy
      /\ loaded.fontActive = TRUE /\ loaded.font = font
  BY <1>2 DEF Chips
<1>5. e = CASE file = "MISSING"          -> d
            [] file \in {"SHORT", "LONG"} -> RestoreFont(loaded)
            [] file = "WHOLE"            -> loaded
  BY <1>1, <1>3 DEF LoadFont
<1> HIDE DEF loaded, e
<1>6. /\ RestoreFont(loaded) \in Chips /\ RestoreFont(loaded).mem = d.mem
      /\ RestoreFont(loaded).copy = d.copy /\ RestoreFont(loaded).font = "SYSTEM"
      /\ RestoreFont(loaded).fontActive = FALSE
  BY <1>4, RestoreFontIs
<1>7. CASE file = "WHOLE"
  <2>1. e = loaded
    BY <1>5, <1>7
  <2> QED
    BY <1>4, <1>7, <2>1 DEF e
<1>8. CASE file = "MISSING"
  <2>1. e = d
    BY <1>5, <1>8
  <2> QED
    BY <1>8, <2>1 DEF e
<1>9. CASE file \in {"SHORT", "LONG"}
  <2>1. e = RestoreFont(loaded)
    BY <1>5, <1>9
  <2> QED
    BY <1>6, <1>9, <2>1 DEF e
<1> QED
  BY <1>7, <1>8, <1>9 DEF FontFile

\* Setting the cursor leaves RAM and font alone.
LEMMA SetCursorIs ==
  ASSUME NEW d \in Chips, NEW at \in Address, NEW visible \in BOOLEAN
  PROVE  LET e == SetCursor(d, at, visible)
         IN /\ e \in Chips /\ e.mem = d.mem /\ e.copy = d.copy
            /\ e.font = d.font /\ e.fontActive = d.fontActive
<1> DEFINE q == [d EXCEPT !.cursor = at]
           e == [q EXCEPT !.shown = visible]
<1>1. /\ q \in Chips /\ q.mem = d.mem /\ q.copy = d.copy
      /\ q.font = d.font /\ q.fontActive = d.fontActive
  BY DEF Chips
<1>2. SetCursor(d, at, visible) = e
  BY DEF SetCursor
<1> HIDE DEF q
<1>3. /\ e \in Chips /\ e.mem = d.mem /\ e.copy = d.copy
      /\ e.font = d.font /\ e.fontActive = d.fontActive
  BY <1>1 DEF Chips
<1> QED
  BY <1>2, <1>3

\* A new terminal is a terminal, without parameters.
LEMMA NewTerminalIs ==
  /\ NewTerminal \in Terminals /\ NewTerminal.x = 0 /\ NewTerminal.y = 0
  /\ NewTerminal.wrap = FALSE /\ NewTerminal.top = 0 /\ NewTerminal.bottom = H - 1
  /\ NewTerminal.attr = 15
  BY Sizes, HostSends DEF NewTerminal, Terminals, Rows, Cols

LEMMA TextIs ==
  Text \in Parsers
<1>1. 1 \in 1..PARAMS /\ 0 \in Octet
  BY HostSends DEF Octet
<1> QED
  BY <1>1 DEF Text, Parsers

\* A chip with any drawn contents.
LEMMA NewVdcIs ==
  ASSUME NEW contents \in Drawn
  PROVE  LET d == NewVdc(contents)
         IN /\ d \in Chips /\ d.mem = contents /\ d.copy = FALSE
            /\ d.font = "SYSTEM" /\ d.fontActive = FALSE
<1>1. contents \in Memories
  BY DrawnAssumption DEF Memories, Octet
<1>2. 0 \in Address
  BY VdcAssumption DEF Address
<1> QED
  BY <1>1, <1>2 DEF NewVdc, Chips

\* The invariant holds in the initial states.
LEMMA InitInvariant ==
  Init => IInv
<1> SUFFICES ASSUME Init PROVE IInv
  OBVIOUS
<1>1. parser \in Parsers
  BY TextIs DEF Init
<1>2. CASE /\ phase = "MENU" /\ t = NewTerminal
           /\ \E contents \in Drawn : vdc = NewVdc(contents)
           /\ batch = FALSE /\ pending = FALSE /\ heard = FALSE
  <2>1. PICK contents \in Drawn : vdc = NewVdc(contents)
    BY <1>2
  <2>2. /\ vdc \in Chips /\ vdc.mem = contents /\ vdc.copy = FALSE
        /\ vdc.font = "SYSTEM" /\ vdc.fontActive = FALSE
    BY <2>1, NewVdcIs
  <2>3. Now \in Screens
    BY <1>2, <2>2, NewTerminalIs DEF Now, Screens
  <2> QED
    BY <1>1, <1>2, <2>2, <2>3 DEF IInv, Types, Fonts, Untouched
<1>3. CASE /\ phase = "TERMINAL" /\ batch = TRUE /\ pending = TRUE /\ heard = TRUE
           /\ \E contents \in Drawn : vdc = LoadFont(NewVdc(contents), "WHOLE")
           /\ \E x \in 0..(W - 1), y, top, bottom \in 0..(H - 1) :
                /\ top < bottom
                /\ \E wrap \in {FALSE, x = W - 1} :
                     t = [NewTerminal EXCEPT !.x = x, !.y = y, !.top = top,
                            !.bottom = bottom, !.wrap = wrap]
  <2>1. PICK contents \in Drawn : vdc = LoadFont(NewVdc(contents), "WHOLE")
    BY <1>3
  <2>2. /\ vdc \in Chips /\ vdc.mem = contents /\ vdc.copy = FALSE
        /\ vdc.font = "CP437" /\ vdc.fontActive = TRUE
    <3> DEFINE d == NewVdc(contents)
    <3>1. /\ d \in Chips /\ d.mem = contents /\ d.copy = FALSE
          /\ d.font = "SYSTEM" /\ d.fontActive = FALSE
      BY NewVdcIs
    <3>2. "WHOLE" \in FontFile
      BY DEF FontFile
    <3> HIDE DEF d
    <3>3. LET e == LoadFont(d, "WHOLE")
          IN /\ e \in Chips /\ e.mem = d.mem /\ e.copy = d.copy
             /\ e.font = "CP437" /\ e.fontActive = TRUE
      BY <3>1, <3>2, LoadFontIs
    <3> QED
      BY <2>1, <3>1, <3>3 DEF d
  <2>3. PICK x \in 0..(W - 1), y \in 0..(H - 1), top \in 0..(H - 1), bottom \in 0..(H - 1) :
          /\ top < bottom
          /\ \E wrap \in {FALSE, x = W - 1} :
               t = [NewTerminal EXCEPT !.x = x, !.y = y, !.top = top,
                      !.bottom = bottom, !.wrap = wrap]
    BY <1>3
  <2>4. PICK wrap \in BOOLEAN :
          t = [NewTerminal EXCEPT !.x = x, !.y = y, !.top = top, !.bottom = bottom,
                 !.wrap = wrap]
    BY <2>3
  <2>5. t \in Terminals
    BY <2>3, <2>4, NewTerminalIs DEF Terminals, Rows, Cols
  <2>6. Now \in Screens
    BY <2>2, <2>5 DEF Now, Screens
  <2> QED
    BY <1>1, <1>3, <2>2, <2>6 DEF IInv, Types, Fonts, Untouched
<1> QED
  BY <1>2, <1>3 DEF Init

-----------------------------------------------------------------------------
(* A byte of the host.                                                       *)

Shows(s, u) ==
  \/ Steers(s, u) \/ Clears(s, u) \/ Scrolls(s, u) \/ FeedsLine(s, u)
  \/ Regions(s, u) /\ u.t.wrap = FALSE
  \/ \E cell \in Cells : Puts(s, u, cell)

\* Whatever a byte shows, it draws on the pages alone.
LEMMA ShowsDraws ==
  ASSUME NEW s \in Screens, NEW u, Shows(s, u)
  PROVE  Draws(s, u)
<1>1. Regions(s, u) => Draws(s, u)
  BY DEF Regions, Draws
<1> QED
  BY <1>1, SteersDraws DEF Shows, Clears, Scrolls, FeedsLine, Puts

\* The terminal and the chip are those of the screen.
LEMMA NowIs ==
  ASSUME IInv
  PROVE  /\ Now \in Screens /\ Now.t = t /\ Now.vdc = vdc
         /\ t \in Terminals /\ vdc \in Chips /\ vdc.copy = FALSE
         /\ t.x \in Cols /\ t.y \in Rows /\ t.top \in Rows /\ t.bottom \in Rows
         /\ t.top < t.bottom /\ t.visible \in BOOLEAN
         /\ At(t.x, t.y) \in Address
<1>1. Now \in Screens /\ Now.t = t /\ Now.vdc = vdc
  BY DEF IInv, Types, Now
<1>2. t.x \in Cols /\ t.y \in Rows /\ t.top \in Rows /\ t.bottom \in Rows
      /\ t.top < t.bottom /\ t.visible \in BOOLEAN
  BY <1>1, CursorParts
<1> QED
  BY <1>1, <1>2, ScreenParts, PlaceType

\* Hiding the cursor when an update begins leaves the pages alone.
LEMMA BegunIs ==
  ASSUME IInv
  PROVE  /\ Begun \in Screens /\ Draws(Now, Begun) /\ Begun.t = t
         /\ \A p : CellAt(Begun, p) = CellAt(Now, p)
<1> DEFINE d == IF batch THEN vdc ELSE SetCursor(vdc, At(t.x, t.y), FALSE)
<1>1. /\ d \in Chips /\ d.mem = vdc.mem /\ d.copy = FALSE
      /\ d.font = vdc.font /\ d.fontActive = vdc.fontActive
  BY NowIs, SetCursorIs
<1>2. Begun = [t |-> t, vdc |-> d]
  BY DEF Begun
<1> HIDE DEF d
<1>3. Begun.t = t /\ Begun.vdc = d /\ Begun \in Screens
  BY <1>1, <1>2, NowIs DEF Screens
<1> QED
  BY <1>1, <1>3, NowIs DEF Draws, CellAt

\* Every byte makes a screen that one of the abstract steps describes, and
\* leaves a parser.
LEMMA ByteShows ==
  ASSUME IInv, Byte
  PROVE  /\ \E u : Becomes(u) /\ Shows(Begun, u)
         /\ parser' \in Parsers
         /\ UNCHANGED phase /\ batch' \in BOOLEAN /\ pending' \in BOOLEAN /\ heard' \in BOOLEAN
<1>1. Begun \in Screens
  BY BegunIs
<1>2. ASSUME NEW u, Does(u), Shows(Begun, u)
      PROVE  /\ \E v : Becomes(v) /\ Shows(Begun, v)
             /\ parser' \in Parsers
             /\ UNCHANGED phase /\ batch' \in BOOLEAN /\ pending' \in BOOLEAN
             /\ heard' \in BOOLEAN
  BY <1>2, TextIs DEF Does, Hears
<1>3. Shows(Begun, Begun)
  BY <1>1 DEF Shows, Steers
<1>4. ASSUME NEW q \in Parsers, Continues(q)
      PROVE  /\ \E v : Becomes(v) /\ Shows(Begun, v)
             /\ parser' \in Parsers
             /\ UNCHANGED phase /\ batch' \in BOOLEAN /\ pending' \in BOOLEAN
             /\ heard' \in BOOLEAN
  BY <1>3, <1>4 DEF Continues, Hears
<1>5. parser \in Parsers
  BY DEF IInv, Types
<1>6. ASSUME NEW state \in {"ESC", "STRING", "STRING_ESC"}
      PROVE  [parser EXCEPT !.state = state] \in Parsers
  BY <1>5 DEF Parsers
<1>7. CASE Character
  <2>1. PICK value \in Codes : Does(Put(Begun, value))
    BY <1>7 DEF Character
  <2>2. Shows(Begun, Put(Begun, value))
    BY <1>1, PutPuts DEF Shows
  <2> QED
    BY <1>2, <2>1, <2>2
<1>8. CASE Controls
  <2>1. PICK value \in {"BS", "HT", "LF", "CR", "ENQ"} : Does(Control(Begun, value))
    BY <1>8 DEF Controls
  <2>2. Shows(Begun, Control(Begun, value))
    BY <1>1, ControlShows DEF Shows
  <2> QED
    BY <1>2, <2>1, <2>2
<1>9. CASE Escapes \/ StringBegins \/ StringEscape \/ StringGoesOn
  <2>1. \E state \in {"ESC", "STRING", "STRING_ESC"} :
          Continues([parser EXCEPT !.state = state])
    BY <1>9 DEF Escapes, StringBegins, StringEscape, StringGoesOn, Enters
  <2> QED
    BY <1>4, <1>6, <2>1
<1>10. CASE EscapeEnds
  <2>1. PICK value \in {"7", "8", "D", "E", "M", "Z"} : Does(Escape(Begun, value))
    BY <1>10 DEF EscapeEnds
  <2>2. Shows(Begun, Escape(Begun, value))
    BY <1>1, EscapeShows DEF Shows
  <2> QED
    BY <1>2, <2>1, <2>2
<1>11. CASE CsiBegins
  <2> DEFINE q == [state |-> "CSI", params |-> [n \in 1..PARAMS |-> 0], count |-> 1,
                   private |-> FALSE]
  <2>1. q \in Parsers
    <3>1. 1 \in 1..PARAMS /\ 0 \in Octet
      BY HostSends DEF Octet
    <3> QED
      BY <3>1 DEF Parsers
  <2> QED
    BY <1>4, <1>11, <2>1 DEF CsiBegins
<1>12. CASE CsiNumber
  <2>1. PICK n \in Numbers : Continues([parser EXCEPT !.params[parser.count] = Digits(n)])
    BY <1>12 DEF CsiNumber
  <2> DEFINE q == [parser EXCEPT !.params[parser.count] = Digits(n)]
  <2>2. Digits(n) \in Octet
    BY DigitsType, HostSends
  <2>3. q \in Parsers
    BY <1>5, <2>2 DEF Parsers
  <2> QED
    BY <1>4, <2>1, <2>3
<1>13. CASE CsiNext
  <2> DEFINE q == [parser EXCEPT !.count = parser.count + 1]
  <2>1. parser.count + 1 \in 1..PARAMS
    BY <1>5, <1>13, HostSends DEF CsiNext, Parsers
  <2>2. q \in Parsers
    BY <1>5, <2>1 DEF Parsers
  <2>3. Continues(q)
    BY <1>5, <1>13 DEF CsiNext, Parsers
  <2> QED
    BY <1>4, <2>2, <2>3
<1>14. CASE CsiMark
  <2>1. [parser EXCEPT !.private = TRUE] \in Parsers
    BY <1>5 DEF Parsers
  <2> QED
    BY <1>4, <1>14, <2>1 DEF CsiMark
<1>15. CASE CsiEnds
  <2>1. PICK final \in Finals : Does(Csi(Begun, final))
    BY <1>15 DEF CsiEnds
  <2>2. Shows(Begun, Csi(Begun, final))
    BY <1>1, <1>5, CsiShows DEF Shows
  <2> QED
    BY <1>2, <2>1, <2>2
<1>16. CASE Sgr
  <2>1. PICK attr \in Attributes : Does([Begun EXCEPT !.t.wrap = FALSE, !.t.attr = attr])
    BY <1>16 DEF Sgr
  <2> DEFINE f == [Begun EXCEPT !.t.wrap = FALSE]
             v == [f.t EXCEPT !.attr = attr]
             u == [f EXCEPT !.t = v]
  <2>2. Steers(Begun, f) /\ f \in Screens
    BY <1>1, WithoutWrap DEF Steers
  <2>3. [Begun EXCEPT !.t.wrap = FALSE, !.t.attr = attr] = u
    BY <1>1 DEF Screens, Terminals
  <2> HIDE DEF f
  <2>4. v \in Terminals /\ v.top = f.t.top /\ v.bottom = f.t.bottom /\ v.wrap = f.t.wrap
    BY <2>2, ScreenParts DEF Terminals
  <2> HIDE DEF v
  <2>5. Steers(f, u)
    BY <2>2, <2>4, WithTerminal DEF Steers
  <2> HIDE DEF u
  <2>6. Shows(Begun, u)
    BY <2>2, <2>5, SteersOn DEF Shows
  <2> QED
    BY <1>2, <2>1, <2>3, <2>6
<1>17. CASE StringEnds
  BY <1>2, <1>3, <1>17 DEF StringEnds
<1> QED
  BY <1>7, <1>8, <1>9, <1>10, <1>11, <1>12, <1>13, <1>14, <1>15, <1>16, <1>17 DEF Byte

-----------------------------------------------------------------------------
(* The invariant is kept.                                                    *)

\* A terminal's screen has become u.
LEMMA DrawsKeeps ==
  ASSUME IInv, NEW u, Draws(Now, u), Becomes(u), UNCHANGED phase
  PROVE  Now' \in Screens /\ Fonts' /\ Untouched'
<1>1. Now' = u
  <2>1. u = [t |-> u.t, vdc |-> u.vdc]
    BY ScreenParts DEF Draws
  <2>2. t' = u.t /\ vdc' = u.vdc
    BY DEF Becomes
  <2> QED
    BY <2>1, <2>2 DEF Now
<1>2. Now' \in Screens
  BY <1>1 DEF Draws
<1>3. vdc'.font = vdc.font /\ vdc'.fontActive = vdc.fontActive
      /\ \A a \in Outside : vdc'.mem[a] = vdc.mem[a]
  BY NowIs DEF Draws, Becomes
<1>4. Fonts'
  BY <1>3 DEF IInv, Fonts
<1>5. Untouched'
  BY <1>3 DEF IInv, Untouched
<1> QED
  BY <1>2, <1>4, <1>5

\* A cleared terminal: what is entered, and what is left behind.
LEMMA Cleared ==
  ASSUME IInv, NEW d \in Chips, d.mem = vdc.mem, d.copy = FALSE, NEW u,
         u = ClearScreen([t |-> NewTerminal, vdc |-> d], 0, H - 1)
  PROVE  /\ u \in Screens /\ u.t = NewTerminal
         /\ u.vdc.font = d.font /\ u.vdc.fontActive = d.fontActive
         /\ \A a \in Outside : u.vdc.mem[a] = vdc.mem[a]
         /\ \A p \in Places : CellAt(u, p) = <<SPACE, 15 + ALTERNATE>>
<1> DEFINE s == [t |-> NewTerminal, vdc |-> d]
<1>1. s \in Screens /\ s.t = NewTerminal /\ s.vdc = d
  BY NewTerminalIs DEF Screens
<1> HIDE DEF s
<1>2. 0 \in Rows /\ H - 1 \in Rows /\ 0 <= H - 1
  BY Sizes DEF Rows
<1>3. Blanked(s, u, 0 * W, ((H - 1) + 1) * W - 1)
  BY <1>1, <1>2, ClearScreenIs DEF s
<1>4. 0 * W = 0 /\ ((H - 1) + 1) * W = Size
  BY Sizes DEF Size
<1>5. \A p \in Places : p \in (0 * W)..(((H - 1) + 1) * W - 1)
  BY <1>4 DEF Places
<1>6. Blank(s) = <<SPACE, 15 + ALTERNATE>>
  BY <1>1, NewTerminalIs DEF Blank
<1> QED
  BY <1>1, <1>3, <1>5, <1>6 DEF Blanked, Draws

\* Every step keeps the invariant.
LEMMA NextInvariant ==
  IInv /\ [Next]_vars => IInv'
<1> SUFFICES ASSUME IInv, [Next]_vars PROVE IInv'
  OBVIOUS
<1>1. CASE Byte
  <2>1. PICK u : Becomes(u) /\ Shows(Begun, u)
    BY <1>1, ByteShows
  <2>2. Draws(Now, u)
    BY <2>1, BegunIs, ShowsDraws, DrawsOn
  <2>3. parser' \in Parsers /\ UNCHANGED phase /\ batch' \in BOOLEAN
        /\ pending' \in BOOLEAN /\ heard' \in BOOLEAN
    BY <1>1, ByteShows
  <2>4. Now' \in Screens /\ Fonts' /\ Untouched'
    BY <2>1, <2>2, <2>3, DrawsKeeps
  <2> QED
    BY <2>3, <2>4 DEF IInv, Types
<1>2. CASE Quiet
  <2> DEFINE d == IF ~batch \/ ~In("TEXT") THEN vdc
                  ELSE SetCursor(vdc, At(t.x, t.y), t.visible)
             u == [t |-> t, vdc |-> d]
  <2>1. vdc' = d /\ t' = t /\ UNCHANGED phase /\ parser' = parser /\ heard' = heard
        /\ pending' = FALSE /\ batch' \in {batch, FALSE}
    BY <1>2 DEF Quiet
  <2>2. /\ d \in Chips /\ d.mem = vdc.mem /\ d.copy = FALSE
        /\ d.font = vdc.font /\ d.fontActive = vdc.fontActive
    BY NowIs, SetCursorIs
  <2> HIDE DEF d
  <2>3. u \in Screens /\ u.t = t /\ u.vdc = d
    BY <2>2, NowIs DEF Screens
  <2> HIDE DEF u
  <2>4. Draws(Now, u) /\ Becomes(u)
    BY <2>1, <2>2, <2>3, NowIs DEF Draws, Becomes
  <2>5. Now' \in Screens /\ Fonts' /\ Untouched'
    BY <2>1, <2>4, DrawsKeeps
  <2> QED
    BY <2>1, <2>5 DEF IInv, Types
<1>3. CASE Leave
  <2> DEFINE hidden == SetCursor(vdc, At(t.x, t.y), FALSE)
             d == RestoreFont(hidden)
             u == ClearScreen([t |-> NewTerminal, vdc |-> d], 0, H - 1)
  <2>1. /\ phase = "TERMINAL" /\ phase' = "MESSAGE" /\ Becomes(u) /\ parser' = Text
        /\ batch' = FALSE /\ pending' = FALSE /\ heard' = FALSE
    BY <1>3 DEF Leave
  <2>2. /\ hidden \in Chips /\ hidden.mem = vdc.mem /\ hidden.copy = FALSE
        /\ hidden.fontActive = TRUE
    BY <2>1, NowIs, SetCursorIs DEF IInv, Fonts
  <2> HIDE DEF hidden
  <2>3. /\ d \in Chips /\ d.mem = vdc.mem /\ d.copy = FALSE
        /\ d.font = "SYSTEM" /\ d.fontActive = FALSE
    BY <2>2, RestoreFontIs
  <2> HIDE DEF d
  <2>4. /\ u \in Screens /\ u.vdc.font = "SYSTEM" /\ u.vdc.fontActive = FALSE
        /\ \A a \in Outside : u.vdc.mem[a] = vdc.mem[a]
    BY <2>3, Cleared
  <2> HIDE DEF u
  <2>5. Now' = u /\ vdc' = u.vdc
    BY <2>1, <2>4, ScreenParts DEF Becomes, Now
  <2> QED
    BY <2>1, <2>4, <2>5, TextIs DEF IInv, Types, Fonts, Untouched
<1>4. CASE Return
  <2>1. /\ phase \in {"PREVIEW", "MESSAGE"} /\ phase' = "MENU"
        /\ vdc' = (IF phase = "PREVIEW" THEN RestoreFont(vdc) ELSE vdc)
        /\ UNCHANGED <<t, parser, batch, pending, heard>>
    BY <1>4 DEF Return
  <2>2. /\ vdc' \in Chips /\ vdc'.mem = vdc.mem /\ vdc'.copy = FALSE
        /\ vdc'.font = "SYSTEM" /\ vdc'.fontActive = FALSE
    BY <2>1, NowIs, RestoreFontIs DEF IInv, Fonts
  <2>3. Now' \in Screens
    BY <2>1, <2>2, NowIs DEF Now, Screens
  <2> QED
    BY <2>1, <2>2, <2>3 DEF IInv, Types, Fonts, Untouched
<1>5. ASSUME NEW file \in FontFile, Preview(file)
      PROVE  IInv'
  <2>1. /\ phase = "MENU" /\ phase' = (IF file = "WHOLE" THEN "PREVIEW" ELSE "MESSAGE")
        /\ vdc' = LoadFont(vdc, file)
        /\ UNCHANGED <<t, parser, batch, pending, heard>>
    BY <1>5 DEF Preview
  <2>2. /\ vdc' \in Chips /\ vdc'.mem = vdc.mem /\ vdc'.copy = FALSE
        /\ IF file = "WHOLE" THEN vdc'.font = "CP437" /\ vdc'.fontActive = TRUE
           ELSE vdc'.font = "SYSTEM" /\ vdc'.fontActive = FALSE
    BY <2>1, NowIs, LoadFontIs DEF IInv, Fonts
  <2>3. Now' \in Screens
    BY <2>1, <2>2, NowIs DEF Now, Screens
  <2> QED
    BY <2>1, <2>2, <2>3 DEF IInv, Types, Fonts, Untouched
<1>6. ASSUME NEW file \in FontFile, Enter(file)
      PROVE  IInv'
  <2> DEFINE loaded == LoadFont(vdc, file)
             d == SetCursor(loaded, At(0, 0), FALSE)
             u == ClearScreen([t |-> NewTerminal, vdc |-> d], 0, H - 1)
  <2>1. phase = "MENU" /\ pending' = FALSE /\ heard' = FALSE
    BY <1>6 DEF Enter
  <2>2. /\ loaded \in Chips /\ loaded.mem = vdc.mem /\ loaded.copy = FALSE
        /\ IF file = "WHOLE" THEN loaded.font = "CP437" /\ loaded.fontActive = TRUE
           ELSE loaded.font = "SYSTEM" /\ loaded.fontActive = FALSE
    BY <2>1, NowIs, LoadFontIs DEF IInv, Fonts
  <2>3. CASE file = "WHOLE"
    <3>1. phase' = "TERMINAL" /\ batch' = TRUE /\ parser' = Text /\ Becomes(u)
      BY <1>6, <2>3 DEF Enter
    <3> HIDE DEF loaded
    <3>2. At(0, 0) \in Address
      BY PlaceType, Sizes DEF Rows, Cols
    <3>3. /\ d \in Chips /\ d.mem = vdc.mem /\ d.copy = FALSE
          /\ d.font = "CP437" /\ d.fontActive = TRUE
      BY <2>2, <2>3, <3>2, SetCursorIs
    <3> HIDE DEF d
    <3>4. /\ u \in Screens /\ u.vdc.font = "CP437" /\ u.vdc.fontActive = TRUE
          /\ \A a \in Outside : u.vdc.mem[a] = vdc.mem[a]
      BY <3>3, Cleared
    <3> HIDE DEF u
    <3>5. Now' = u /\ vdc' = u.vdc
      BY <3>1, <3>4, ScreenParts DEF Becomes, Now
    <3> QED
      BY <2>1, <3>1, <3>4, <3>5, TextIs DEF IInv, Types, Fonts, Untouched
  <2>4. CASE file # "WHOLE"
    <3>1. phase' = "MESSAGE" /\ vdc' = loaded /\ UNCHANGED <<t, parser, batch>>
      BY <1>6, <2>4 DEF Enter
    <3> HIDE DEF loaded
    <3>2. Now' \in Screens
      BY <2>2, <3>1, NowIs DEF Now, Screens
    <3> QED
      BY <2>1, <2>2, <2>4, <3>1, <3>2 DEF IInv, Types, Fonts, Untouched
  <2> QED
    BY <2>3, <2>4
<1>7. CASE UNCHANGED vars
  BY <1>7 DEF vars, IInv, Types, Fonts, Untouched, Now
<1> QED
  BY <1>1, <1>2, <1>3, <1>4, <1>5, <1>6, <1>7 DEF Next

\* Every reachable state satisfies the invariant.
THEOREM InvariantHolds == Spec => []IInv
<1>1. Init => IInv
  BY InitInvariant
<1>2. IInv /\ [Next]_vars => IInv'
  BY NextInvariant
<1> QED
  BY <1>1, <1>2, PTL DEF Spec

\* The variables keep their types, the cursor and the region stay on the screen,
\* and whatever the host sends, nothing but the two pages is written to.
THEOREM TypesHold == Spec => []TypeOK
<1>1. IInv => TypeOK
  <2> SUFFICES ASSUME IInv PROVE TypeOK
    OBVIOUS
  <2>1. /\ t \in Terminals /\ vdc \in Chips /\ vdc.copy = FALSE /\ parser \in Parsers
        /\ phase \in {"MENU", "PREVIEW", "TERMINAL", "MESSAGE"}
        /\ {batch, pending, heard} \subseteq BOOLEAN
    BY NowIs DEF IInv, Types
  <2>2. /\ {t.x, t.savedX} \subseteq 0..(W - 1)
        /\ {t.y, t.savedY, t.top, t.bottom} \subseteq 0..(H - 1) /\ t.top < t.bottom
        /\ t.attr \in 0..127 /\ {t.wrap, t.autowrap, t.visible, t.newline} \subseteq BOOLEAN
    <3>1. /\ t.x \in Cols /\ t.savedX \in Cols /\ t.y \in Rows /\ t.savedY \in Rows
          /\ t.top \in Rows /\ t.bottom \in Rows /\ t.top < t.bottom
          /\ t.attr \in Attributes /\ t.wrap \in BOOLEAN /\ t.autowrap \in BOOLEAN
          /\ t.visible \in BOOLEAN /\ t.newline \in BOOLEAN
      BY NowIs, CursorParts
    <3>2. {t.x, t.savedX} \subseteq Cols /\ {t.y, t.savedY, t.top, t.bottom} \subseteq Rows
          /\ {t.wrap, t.autowrap, t.visible, t.newline} \subseteq BOOLEAN
      BY <3>1
    <3>3. t.attr \in 0..127
      <4>1. t.attr \in Attributes
        BY <3>1
      <4> QED
        BY Zenon, <4>1, AttributeIs
    <3> QED
      BY <3>1, <3>2, <3>3 DEF Rows, Cols
  <2>3. /\ parser.state \in {"TEXT", "ESC", "CSI", "STRING", "STRING_ESC"}
        /\ parser.count \in 1..PARAMS /\ parser.params \in [1..PARAMS -> 0..255]
    BY <2>1 DEF Parsers, Octet
  <2>4. /\ {vdc.copy, vdc.shown} \subseteq BOOLEAN
        /\ vdc.mem \in [Address -> 0..255] /\ vdc.cursor \in Address
    BY <2>1 DEF Chips, Memories, Octet
  <2>5. \A a \in Address \ (Block(CHARS, W * H) \cup Block(ATTRS, W * H)) :
          \E contents \in Drawn : vdc.mem[a] = contents[a]
    BY DEF IInv, Untouched, Outside, Size
  <2> QED
    BY <2>1, <2>2, <2>3, <2>4, <2>5 DEF TypeOK
<1> QED
  BY <1>1, InvariantHolds, PTL

\* The menu and the messages are read in the system's font, the host's characters
\* in CP437, whatever became of the font file.
THEOREM RightFontHolds == Spec => []RightFont
<1>1. IInv => RightFont
  BY DEF IInv, Fonts, RightFont
<1> QED
  BY <1>1, InvariantHolds, PTL

-----------------------------------------------------------------------------
(* The terminal implements a screen.                                         *)

GridOf(s) == [r \in Rows |-> [c \in Cols |-> CellAt(s, Place(r, c))]]

\* What the abstract screen reads of the pages.
LEMMA GridIs ==
  Grid = GridOf(Now)
<1>1. \A r \in Rows, c \in Cols :
        <<vdc.mem[At(c, r)], vdc.mem[AttrAt(c, r)]>> = CellAt(Now, Place(r, c))
  BY PlaceType DEF CellAt, Now
<1> QED
  BY <1>1 DEF Grid, GridOf, Rows, Cols

LEMMA GlassIs ==
  /\ Glass!Row = Rows /\ Glass!Col = Cols /\ Glass!LastCol = W - 1
  /\ \A r, c : Glass!Position(r, c) = Place(r, c)
  /\ Place(H - 1, W - 1) = Size - 1
<1>1. (H - 1) * W + W = H * W /\ H * W = Size
  BY Sizes, RowStarts DEF Size
<1>2. (H - 1) * W \in Int
  BY Sizes, RowStarts
<1>3. Place(H - 1, W - 1) = Size - 1
  BY <1>1, <1>2, Sizes DEF Place
<1> QED
  BY <1>3 DEF Glass!Row, Glass!Col, Glass!LastCol, Glass!Position, Rows, Cols, Place

\* The cells of a grid.
LEMMA GridCells ==
  ASSUME NEW s, NEW r \in Rows, NEW c \in Cols
  PROVE  GridOf(s)[r][c] = CellAt(s, Place(r, c))
  BY DEF GridOf

\* Each of the relations is a step of the abstract screen, or none.
LEMMA ClearsImplements ==
  ASSUME NEW s \in Screens, s.t = t, Grid = GridOf(s), NEW u, Clears(s, u),
         t' = u.t, Grid' = GridOf(u)
  PROVE  Glass!Erase
<1>1. PICK first \in 0..Place(s.t.y, s.t.x), last \in Place(s.t.y, s.t.x)..(Size - 1) :
        \A p \in Places :
          CellAt(u, p) = IF p \in first..last THEN Blank(s) ELSE CellAt(s, p)
  BY DEF Clears
<1>2. Blank(s) \in Blanks
  BY CursorParts DEF Blank, Blanks
<1>3. Grid' = [r \in Rows |-> [c \in Cols |->
                IF Place(r, c) \in first..last THEN Blank(s) ELSE Grid[r][c]]]
  <2>1. \A r \in Rows, c \in Cols : CellAt(u, Place(r, c)) =
          IF Place(r, c) \in first..last THEN Blank(s) ELSE Grid[r][c]
    BY <1>1, PlaceType, GridCells
  <2> QED
    BY <2>1 DEF GridOf
<1>4. ~(t.wrap)' /\ UNCHANGED <<t.x, t.y, t.top, t.bottom>>
  BY DEF Clears
<1> QED
  BY <1>1, <1>2, <1>3, <1>4, GlassIs DEF Glass!Erase

\* What the abstract screen makes of its rows when they move up.
LEMMA ScrolledUpIs ==
  ASSUME NEW first, NEW last, NEW n, NEW blank
  PROVE  Glass!ScrolledUp(first, last, n, blank) =
           [r \in Rows |-> [c \in Cols |->
              IF r \notin first..last THEN Grid[r][c]
              ELSE IF r + n <= last THEN Grid[r + n][c] ELSE blank]]
  BY DEF Glass!ScrolledUp, Glass!Row, Glass!Col, Rows, Cols

LEMMA ScrollsImplements ==
  ASSUME NEW s \in Screens, s.t = t, Grid = GridOf(s), NEW u, Scrolls(s, u),
         t' = u.t, Grid' = GridOf(u)
  PROVE  Glass!Scroll
<1>1. PICK n \in 1..(s.t.bottom - s.t.top + 1) :
        \A r \in Rows, c \in Cols :
          CellAt(u, Place(r, c)) =
            IF r \notin s.t.top..s.t.bottom THEN CellAt(s, Place(r, c))
            ELSE IF r + n <= s.t.bottom THEN CellAt(s, Place(r + n, c)) ELSE Blank(s)
  BY DEF Scrolls
<1>2. Blank(s) \in Blanks
  BY CursorParts DEF Blank, Blanks
<1>3. t.top \in Rows /\ t.bottom \in Rows
  BY CursorParts
<1>4. Grid' = Glass!ScrolledUp(t.top, t.bottom, n, Blank(s))
  <2>1. ASSUME NEW r \in Rows, NEW c \in Cols
        PROVE  CellAt(u, Place(r, c)) =
                 IF r \notin t.top..t.bottom THEN Grid[r][c]
                 ELSE IF r + n <= t.bottom THEN Grid[r + n][c] ELSE Blank(s)
    <3>1. Grid[r][c] = CellAt(s, Place(r, c))
      BY GridCells
    <3>2. r + n <= t.bottom => r + n \in Rows
      BY <1>3, Sizes DEF Rows
    <3>3. r + n <= t.bottom => Grid[r + n][c] = CellAt(s, Place(r + n, c))
      BY <3>2, GridCells
    <3> QED
      BY <1>1, <3>1, <3>3
  <2> QED
    BY <2>1, ScrolledUpIs DEF GridOf
<1>5. ~(t.wrap)' /\ UNCHANGED <<t.x, t.y, t.top, t.bottom>>
  BY DEF Scrolls
<1> QED
  BY <1>1, <1>2, <1>4, <1>5 DEF Glass!Scroll

\* Both have the same row after a row.
LEMMA NextRowIs ==
  ASSUME NEW s, s.t = t
  PROVE  Glass!NextRow = NextRow(s)
  BY DEF Glass!NextRow, NextRow, Glass!Min, Min

\* A line feed makes of the grid what the abstract screen says.
LEMMA FedIs ==
  ASSUME NEW s \in Screens, s.t = t, Grid = GridOf(s), NEW r \in Rows, NEW c \in Cols
  PROVE  Glass!Fed(Blank(s))[r][c] = FedCell(s, r, c)
<1>1. t.top \in Rows /\ t.bottom \in Rows
  BY CursorParts
<1>2. Grid[r][c] = CellAt(s, Place(r, c))
  BY GridCells
<1>3. r + 1 <= t.bottom => Grid[r + 1][c] = CellAt(s, Place(r + 1, c))
  <2>1. r + 1 <= t.bottom => r + 1 \in Rows
    BY <1>1, Sizes DEF Rows
  <2> QED
    BY <2>1, GridCells
<1>4. Glass!ScrolledUp(t.top, t.bottom, 1, Blank(s))[r][c] =
        IF r \notin t.top..t.bottom THEN Grid[r][c]
        ELSE IF r + 1 <= t.bottom THEN Grid[r + 1][c] ELSE Blank(s)
  BY ScrolledUpIs
<1>5. Glass!Fed(Blank(s)) = IF t.y = t.bottom THEN Glass!ScrolledUp(t.top, t.bottom, 1, Blank(s))
                            ELSE Grid
  BY DEF Glass!Fed
<1> QED
  BY <1>2, <1>3, <1>4, <1>5 DEF FedCell

\* Rows and columns of what a line feed makes.
LEMMA FedShape ==
  ASSUME NEW s \in Screens, Grid = GridOf(s), NEW blank
  PROVE  LET g == Glass!Fed(blank) IN g = [r \in Rows |-> [c \in Cols |-> g[r][c]]]
<1>1. GridOf(s) = [r \in Rows |-> [c \in Cols |-> GridOf(s)[r][c]]]
  BY DEF GridOf
<1> DEFINE g == Glass!ScrolledUp(t.top, t.bottom, 1, blank)
<1>2. g = [r \in Rows |-> [c \in Cols |-> g[r][c]]]
  BY ScrolledUpIs
<1>3. Glass!Fed(blank) = IF t.y = t.bottom THEN g ELSE Grid
  BY DEF Glass!Fed
<1> HIDE DEF g
<1> QED
  BY <1>1, <1>2, <1>3

LEMMA FeedsImplements ==
  ASSUME NEW s \in Screens, s.t = t, Grid = GridOf(s), NEW u, FeedsLine(s, u),
         t' = u.t, Grid' = GridOf(u)
  PROVE  Glass!LineFeed
<1>1. Blank(s) \in Blanks
  BY CursorParts DEF Blank, Blanks
<1> DEFINE g == Glass!Fed(Blank(s))
<1>2. Grid' = g
  <2>1. g = [r \in Rows |-> [c \in Cols |-> g[r][c]]]
    BY FedShape
  <2>2. \A r \in Rows, c \in Cols : g[r][c] = CellAt(u, Place(r, c))
    BY FedIs DEF FeedsLine
  <2> HIDE DEF g
  <2> QED
    BY <2>1, <2>2 DEF GridOf
<1>3. /\ (t.y)' = Glass!NextRow /\ (t.x)' \in {0, t.x} /\ ~(t.wrap)'
      /\ UNCHANGED <<t.top, t.bottom>>
  BY NextRowIs DEF FeedsLine
<1> QED
  BY <1>1, <1>2, <1>3 DEF Glass!LineFeed

LEMMA PutsImplements ==
  ASSUME NEW s \in Screens, s.t = t, Grid = GridOf(s), NEW u, NEW cell \in Cells,
         Puts(s, u, cell), t' = u.t, Grid' = GridOf(u)
  PROVE  Glass!Character
<1> DEFINE row == PutRow(s)
           col == PutCol(s)
           g == IF t.wrap THEN Glass!Fed(Blank(s)) ELSE Grid
           h == [g EXCEPT ![row][col] = cell]
<1>1. Blank(s) \in Blanks /\ t.wrap \in BOOLEAN
  BY CursorParts DEF Blank, Blanks
<1>2. row = (IF t.wrap THEN Glass!NextRow ELSE t.y) /\ col = (IF t.wrap THEN 0 ELSE t.x)
  BY NextRowIs DEF PutRow, PutCol
<1>3. row \in Rows /\ col \in Cols
  BY CursorParts, NextRowType DEF PutRow, PutCol
<1> HIDE DEF row, col
<1>4. g = [r \in Rows |-> [c \in Cols |-> g[r][c]]]
  <2>1. GridOf(s) = [r \in Rows |-> [c \in Cols |-> GridOf(s)[r][c]]]
    BY DEF GridOf
  <2> DEFINE f == Glass!Fed(Blank(s))
  <2>2. f = [r \in Rows |-> [c \in Cols |-> f[r][c]]]
    BY FedShape
  <2> HIDE DEF f
  <2> QED
    BY <2>1, <2>2 DEF f
<1>5. ASSUME NEW r \in Rows, NEW c \in Cols
      PROVE  CellAt(u, Place(r, c)) = IF r = row /\ c = col THEN cell ELSE g[r][c]
  <2>1. g[r][c] = IF t.wrap THEN FedCell(s, r, c) ELSE CellAt(s, Place(r, c))
    BY <1>1, FedIs, GridCells
  <2> HIDE DEF g
  <2> QED
    BY <2>1 DEF Puts, row, col
<1> HIDE DEF g
<1>6. h = [r \in Rows |-> [c \in Cols |-> IF r = row /\ c = col THEN cell ELSE g[r][c]]]
  BY <1>3, <1>4
<1> HIDE DEF h
<1>7. Grid' = h
  BY <1>5, <1>6 DEF GridOf
<1>8. /\ (t.y)' = row /\ (t.x)' = Min({col + 1, W - 1}) /\ ((t.wrap)' => col = W - 1)
      /\ UNCHANGED <<t.top, t.bottom>>
  BY DEF Puts, row, col
<1>9. (t.x)' = Glass!Min({col + 1, Glass!LastCol}) /\ ((t.wrap)' => col = Glass!LastCol)
  BY <1>8, GlassIs DEF Glass!Min, Min
<1> QED
  BY <1>1, <1>2, <1>7, <1>8, <1>9 DEF Glass!Character, g, h

LEMMA SteersImplements ==
  ASSUME NEW s \in Screens, s.t = t, Grid = GridOf(s), NEW u, Steers(s, u),
         t' = u.t, Grid' = GridOf(u)
  PROVE  Glass!Move
<1>1. Grid' = Grid
  BY DEF Steers, GridOf, CellAt
<1>2. (t.x)' \in Cols /\ (t.y)' \in Rows /\ ((t.wrap)' => t.wrap)
      /\ UNCHANGED <<t.top, t.bottom>>
  <2>1. u.t.x \in Cols /\ u.t.y \in Rows
    BY CursorParts DEF Steers
  <2> QED
    BY <2>1 DEF Steers
<1> QED
  BY <1>1, <1>2, GlassIs DEF Glass!Move

LEMMA RegionsImplements ==
  ASSUME NEW s \in Screens, s.t = t, Grid = GridOf(s), NEW u, Regions(s, u),
         u.t.wrap = FALSE, t' = u.t, Grid' = GridOf(u)
  PROVE  Glass!SetRegion
<1>1. Grid' = Grid
  BY DEF Regions, GridOf, CellAt
<1>2. (t.top)' \in Rows /\ (t.bottom)' \in Rows /\ (t.top)' < (t.bottom)'
  <2>1. u.t.top \in Rows /\ u.t.bottom \in Rows /\ u.t.top < u.t.bottom
    BY CursorParts DEF Regions
  <2> QED
    BY <2>1
<1>3. (t.x)' = 0 /\ (t.y)' = 0 /\ ~(t.wrap)'
  BY DEF Regions
<1> QED
  BY <1>1, <1>2, <1>3, GlassIs DEF Glass!SetRegion

LEMMA ClearedImplements ==
  ASSUME NEW u, u.t = NewTerminal, t' = u.t, Grid' = GridOf(u),
         \A p \in Places : CellAt(u, p) = <<SPACE, 15 + ALTERNATE>>
  PROVE  Glass!Enter
<1> DEFINE blank == <<SPACE, 15 + ALTERNATE>>
<1>1. blank \in Blanks
  BY HostSends DEF Blanks
<1>2. Grid' = [r \in Rows |-> [c \in Cols |-> blank]]
  BY PlaceType DEF GridOf
<1>3. (t.x)' = 0 /\ (t.y)' = 0 /\ (t.top)' = 0 /\ (t.bottom)' = H - 1 /\ ~(t.wrap)'
  BY NewTerminalIs
<1> QED
  BY <1>1, <1>2, <1>3, GlassIs DEF Glass!Enter

\* The screen begins as a screen,
LEMMA InitImplements ==
  Init => Glass!Init
<1> SUFFICES ASSUME Init PROVE Glass!Init
  OBVIOUS
<1>1. IInv
  BY InitInvariant
<1>2. PICK contents \in Drawn : vdc.mem = contents
  <2>1. ASSUME NEW contents \in Drawn
        PROVE  /\ NewVdc(contents).mem = contents
               /\ LoadFont(NewVdc(contents), "WHOLE").mem = contents
    <3> DEFINE d == NewVdc(contents)
    <3>1. /\ d \in Chips /\ d.mem = contents /\ d.font = "SYSTEM" /\ d.fontActive = FALSE
      BY NewVdcIs
    <3>2. "WHOLE" \in FontFile
      BY DEF FontFile
    <3> HIDE DEF d
    <3>3. LoadFont(d, "WHOLE").mem = d.mem
      BY <3>1, <3>2, LoadFontIs
    <3> QED
      BY <3>1, <3>3 DEF d
  <2>2. \E contents \in Drawn :
          vdc = NewVdc(contents) \/ vdc = LoadFont(NewVdc(contents), "WHOLE")
    BY DEF Init
  <2> QED
    BY <2>1, <2>2
<1>3. Grid \in [Rows -> [Cols -> Cells]]
  <2>1. \A row \in Rows, col \in Cols :
          <<vdc.mem[At(col, row)], vdc.mem[AttrAt(col, row)]>> \in Cells
    BY <1>2, DrawnAssumption DEF Rows, Cols
  <2> QED
    BY <2>1 DEF Grid, Rows, Cols
<1>4. t.wrap \in BOOLEAN
  BY <1>1, NowIs, CursorParts
<1> QED
  BY <1>1, <1>3, <1>4, NowIs, GlassIs DEF Glass!Init

\* What the chip holds after a step.
LEMMA GridNext ==
  ASSUME NEW u, vdc' = u.vdc
  PROVE  Grid' = GridOf(u)
<1>1. \A r \in Rows, c \in Cols :
        <<vdc'.mem[At(c, r)], vdc'.mem[AttrAt(c, r)]>> = CellAt(u, Place(r, c))
  BY PlaceType DEF CellAt
<1> QED
  BY <1>1 DEF Grid, GridOf, Rows, Cols

\* Nothing drawn and nothing moved.
LEMMA SameGrid ==
  ASSUME vdc'.mem = vdc.mem, t' = t
  PROVE  UNCHANGED Glass!vars
<1>1. Grid' = Grid
  BY DEF Grid, At, AttrAt
<1> QED
  BY <1>1 DEF Glass!vars

\* and every step is one of its steps, or changes nothing of it.
LEMMA NextImplements ==
  IInv /\ [Next]_vars => [Glass!Next]_Glass!vars
<1> SUFFICES ASSUME IInv, [Next]_vars PROVE Glass!Next \/ UNCHANGED Glass!vars
  OBVIOUS
<1>1. CASE Byte
  <2>1. PICK u : Becomes(u) /\ Shows(Begun, u)
    BY <1>1, ByteShows
  <2> DEFINE s == Begun
  <2>2. s \in Screens /\ s.t = t /\ \A p : CellAt(s, p) = CellAt(Now, p)
    BY BegunIs
  <2> HIDE DEF s
  <2>3. Grid = GridOf(s)
    BY <2>2, GridIs DEF GridOf
  <2>4. t' = u.t /\ Grid' = GridOf(u)
    BY <2>1, GridNext DEF Becomes
  <2>5. Shows(s, u)
    BY <2>1 DEF s
  <2>6. CASE Steers(s, u)
    BY <2>2, <2>3, <2>4, <2>6, SteersImplements DEF Glass!Next
  <2>7. CASE Clears(s, u)
    BY <2>2, <2>3, <2>4, <2>7, ClearsImplements DEF Glass!Next
  <2>8. CASE Scrolls(s, u)
    BY <2>2, <2>3, <2>4, <2>8, ScrollsImplements DEF Glass!Next
  <2>9. CASE FeedsLine(s, u)
    BY <2>2, <2>3, <2>4, <2>9, FeedsImplements DEF Glass!Next
  <2>10. CASE Regions(s, u) /\ u.t.wrap = FALSE
    BY <2>2, <2>3, <2>4, <2>10, RegionsImplements DEF Glass!Next
  <2>11. CASE \E cell \in Cells : Puts(s, u, cell)
    BY <2>2, <2>3, <2>4, <2>11, PutsImplements DEF Glass!Next
  <2> QED
    BY <2>5, <2>6, <2>7, <2>8, <2>9, <2>10, <2>11 DEF Shows
<1>2. CASE Quiet
  <2>1. t' = t /\ vdc'.mem = vdc.mem
    BY <1>2, NowIs, SetCursorIs DEF Quiet
  <2> QED
    BY <2>1, SameGrid
<1>3. CASE Leave
  <2> DEFINE hidden == SetCursor(vdc, At(t.x, t.y), FALSE)
             d == RestoreFont(hidden)
             u == ClearScreen([t |-> NewTerminal, vdc |-> d], 0, H - 1)
  <2>1. t' = u.t /\ vdc' = u.vdc
    BY <1>3 DEF Leave, Becomes
  <2>2. hidden \in Chips /\ hidden.mem = vdc.mem /\ hidden.copy = FALSE
    BY NowIs, SetCursorIs
  <2> HIDE DEF hidden
  <2>3. d \in Chips /\ d.mem = vdc.mem /\ d.copy = FALSE
    BY <2>2, RestoreFontIs
  <2> HIDE DEF d
  <2>4. u.t = NewTerminal /\ \A p \in Places : CellAt(u, p) = <<SPACE, 15 + ALTERNATE>>
    BY <2>3, Cleared
  <2> HIDE DEF u
  <2> QED
    BY <2>1, <2>4, GridNext, ClearedImplements DEF Glass!Next
<1>4. CASE Return
  <2>1. t' = t /\ vdc'.mem = vdc.mem
    BY <1>4, NowIs, RestoreFontIs DEF Return
  <2> QED
    BY <2>1, SameGrid
<1>5. ASSUME NEW file \in FontFile, Preview(file)
      PROVE  UNCHANGED Glass!vars
  <2>1. t' = t /\ vdc' = LoadFont(vdc, file) /\ phase = "MENU"
    BY <1>5 DEF Preview
  <2>2. vdc'.mem = vdc.mem
    BY <2>1, NowIs, LoadFontIs DEF IInv, Fonts
  <2> QED
    BY <2>1, <2>2, SameGrid
<1>6. ASSUME NEW file \in FontFile, Enter(file)
      PROVE  Glass!Next \/ UNCHANGED Glass!vars
  <2> DEFINE loaded == LoadFont(vdc, file)
             d == SetCursor(loaded, At(0, 0), FALSE)
             u == ClearScreen([t |-> NewTerminal, vdc |-> d], 0, H - 1)
  <2>1. phase = "MENU"
    BY <1>6 DEF Enter
  <2>2. loaded \in Chips /\ loaded.mem = vdc.mem /\ loaded.copy = FALSE
    BY <2>1, NowIs, LoadFontIs DEF IInv, Fonts
  <2>3. CASE file = "WHOLE"
    <3>1. t' = u.t /\ vdc' = u.vdc
      BY <1>6, <2>3 DEF Enter, Becomes
    <3> HIDE DEF loaded
    <3>2. At(0, 0) \in Address
      BY PlaceType, Sizes DEF Rows, Cols
    <3>3. d \in Chips /\ d.mem = vdc.mem /\ d.copy = FALSE
      BY <2>2, <3>2, SetCursorIs
    <3> HIDE DEF d
    <3>4. u.t = NewTerminal /\ \A p \in Places : CellAt(u, p) = <<SPACE, 15 + ALTERNATE>>
      BY <3>3, Cleared
    <3> HIDE DEF u
    <3> QED
      BY <3>1, <3>4, GridNext, ClearedImplements DEF Glass!Next
  <2>4. CASE file # "WHOLE"
    <3>1. t' = t /\ vdc' = loaded
      BY <1>6, <2>4 DEF Enter
    <3> QED
      BY <2>2, <3>1, SameGrid
  <2> QED
    BY <2>3, <2>4
<1>7. CASE UNCHANGED vars
  BY <1>7, SameGrid DEF vars
<1> QED
  BY <1>1, <1>2, <1>3, <1>4, <1>5, <1>6, <1>7 DEF Next

\* What the chip's pages hold is what a terminal's screen promises: no byte of the
\* host changes more of it than one step of the abstract screen does.
THEOREM ScreenImplemented == Spec => ImplementsScreen
<1>1. Init => Glass!Init
  BY InitImplements
<1>2. IInv /\ [Next]_vars => [Glass!Next]_Glass!vars
  BY NextImplements
<1> QED
  BY <1>1, <1>2, InvariantHolds, PTL DEF Spec, ImplementsScreen, Glass!Spec
=============================================================================
