----------------------------- MODULE ConnectionProofs -----------------------------
(***************************************************************************)
(* The echo, and the size of the window, for any keys, sizes and options   *)
(* that the terminal's program turns on and off, and for any number of     *)
(* elements under way.                                                     *)
(*                                                                         *)
(* The echo is an invariant by itself.  For the size, what is under way of *)
(* NAWS is in one of ten phases, which every element that is written or    *)
(* read leads to another of them; the elements of the other options are    *)
(* not seen (Only).                                                        *)
(***************************************************************************)
EXTENDS ConnectionInvariant, WiresProofs

Size == window_dimension \X window_dimension
WindowSize == {<<>>} \cup Size

Report(size) ==
    subnegotiation("naws", <<size[1] \div 256, size[1] % 256, size[2] \div 256, size[2] % 256>>)

-------------------------------------------------------------------------------
(***************************************************************************)
(* A size, and its report.                                                 *)
(***************************************************************************)
LEMMA Interval ==
    ASSUME NEW k \in Nat, NEW n
    PROVE  n \in 0..k <=> n \in Int /\ 0 <= n /\ n <= k
BY SMT

LEMMA Dimensions ==
    ASSUME NEW n
    PROVE  n \in window_dimension <=> n \in Int /\ 0 <= n /\ n <= 256 * 256 - 1
<1> DEFINE k == 256 * 256 - 1
<1>1. k \in Nat
  BY SMT
<1>2. window_dimension = 0..k
  BY DEF window_dimension
<1> HIDE DEF k
<1>3. n \in window_dimension <=> n \in Int /\ 0 <= n /\ n <= k
  BY <1>1, <1>2, Interval
<1>. QED BY <1>3 DEF k

LEMMA Halves ==
    ASSUME NEW n \in window_dimension
    PROVE  /\ n \div 256 \in Byte /\ n % 256 \in Byte
           /\ ((n \div 256) * 256) + (n % 256) = n
<1>1. n \in Int /\ 0 <= n /\ n <= 256 * 256 - 1
  BY Dimensions
<1>2. /\ n % 256 \in 0..255 /\ n \div 256 \in Int
      /\ ((n \div 256) * 256) + (n % 256) = n
  BY <1>1, SMT
<1>3. n \div 256 >= 0 /\ n \div 256 <= 255
  BY <1>1, <1>2, SMT
<1>. QED BY <1>2, <1>3, SMT DEF Byte

LEMMA Joined ==
    ASSUME NEW a \in Byte, NEW b \in Byte
    PROVE  a * 256 + b \in window_dimension
<1>1. a \in Int /\ 0 <= a /\ a <= 255 /\ b \in Int /\ 0 <= b /\ b <= 255
  BY SMT DEF Byte
<1>2. a * 256 \in Int /\ 0 <= a * 256 /\ a * 256 <= 255 * 256
  BY <1>1, SMT
<1>3. ASSUME NEW c \in Int, 0 <= c, c <= 255 * 256 PROVE c + b \in window_dimension
  <2>1. c + b \in Int /\ 0 <= c + b /\ c + b <= 256 * 256 - 1
    BY <1>1, <1>3, SMT
  <2>. QED BY <2>1, Dimensions
<1>. QED BY <1>2, <1>3

LEMMA SizeReported ==
    ASSUME NEW size \in Size
    PROVE  /\ size # <<>>
           /\ report_window_size(size) = <<Report(size)>>
           /\ Report(size) \in Naws /\ Report(size) \in element
           /\ Report(size).kind = "subnegotiation"
           /\ Report(size).of = "naws"
           /\ window_size_read(Report(size).content) = size
<1> DEFINE a == size[1]
           b == size[2]
           c == <<a \div 256, a % 256, b \div 256, b % 256>>
<1>1. a \in window_dimension /\ b \in window_dimension /\ size = <<a, b>>
  BY DEF Size
<1>2. size # <<>>
  BY <1>1, SMT
<1>3. /\ a \div 256 \in Byte /\ a % 256 \in Byte
      /\ b \div 256 \in Byte /\ b % 256 \in Byte
  BY <1>1, Halves
<1>4. c \in Seq(Byte) /\ Len(c) = 4
      /\ c[1] = a \div 256 /\ c[2] = a % 256 /\ c[3] = b \div 256 /\ c[4] = b % 256
  BY <1>3, SMT
<1>5. Report(size) = subnegotiation("naws", c)
  BY DEF Report
<1> HIDE DEF c
<1>6. /\ Report(size) \in Naws /\ Report(size) \in element
      /\ Report(size).kind = "subnegotiation"
      /\ Report(size).of = "naws" /\ Report(size).content = c
  BY <1>4, <1>5 DEF subnegotiation, Naws, element, Options
<1>7. report_window_size(size) = <<Report(size)>>
  BY <1>2 DEF report_window_size, Report
<1>8. c[1] * 256 + c[2] = a /\ c[3] * 256 + c[4] = b
  BY <1>1, <1>4, Halves
<1>9. window_size_read(c) = size
  BY <1>1, <1>4, <1>8 DEF window_size_read
<1>. QED BY <1>2, <1>6, <1>7, <1>9

LEMMA ReportType ==
    ASSUME NEW size \in WindowSize
    PROVE  report_window_size(size) \in Seq(Naws) /\ report_window_size(size) \in Seq(element)
<1>1. CASE size = <<>>
  BY <1>1, EmptySeq DEF report_window_size
<1>2. CASE size # <<>>
  <2>1. size \in Size
    BY <1>2 DEF WindowSize
  <2> DEFINE x == Report(size)
  <2>2. x \in Naws /\ x \in element /\ report_window_size(size) = <<x>>
    BY <2>1, SizeReported
  <2> HIDE DEF x
  <2>3. <<x>> \in Seq(Naws) /\ <<x>> \in Seq(element)
    BY <2>2, SMT
  <2>. QED BY <2>2, <2>3
<1>. QED BY <1>1, <1>2

\* The report of another size is another report, and no report is of none.
LEMMA ReportInjective ==
    ASSUME NEW n \in WindowSize, NEW x, <<x>> = report_window_size(n)
    PROVE  n \in Size /\ x = Report(n)
<1>1. n # <<>>
  <2>1. CASE n = <<>>
    <3>1. <<x>> = <<>>
      BY <2>1 DEF report_window_size
    <3>. QED BY <3>1, SMT
  <2>. QED BY <2>1
<1>2. n \in Size
  BY <1>1 DEF WindowSize
<1>3. <<x>> = <<Report(n)>>
  BY <1>2, SizeReported
<1> DEFINE y == Report(n)
<1> HIDE DEF y
<1>4. x = y
  BY <1>3, SMT DEF y
<1>. QED BY <1>2, <1>4 DEF y

LEMMA NawsElements ==
    /\ will \in Naws /\ wont \in Naws /\ do \in Naws /\ dont \in Naws
    /\ will.kind = "negotiation" /\ wont.kind = "negotiation"
    /\ do.kind = "negotiation" /\ dont.kind = "negotiation"
    /\ will.verb = "will" /\ wont.verb = "wont" /\ do.verb = "do" /\ dont.verb = "dont"
    /\ will # wont /\ do # dont
BY DEF will, wont, do, dont, negotiation, Naws

-------------------------------------------------------------------------------
(***************************************************************************)
(* From phase to phase.                                                    *)
(***************************************************************************)
LEMMA PhaseActivate ==
    ASSUME NEW s, NEW w \in Seq(Naws), NEW v, NEW size, NEW told,
           Phase(s, "inactive", w, v, size, told)
    PROVE  Phase(s, "activating", Append(w, will), v, size, told)
<1>1. w = <<>>
  BY DEF Phase
<1>2. Append(<<>>, will) = <<will>>
  BY SMT
<1>. QED BY <1>1, <1>2 DEF Phase

LEMMA PhaseAccept ==
    ASSUME NEW t \in {"inactive", "activating"}, NEW w \in Seq(Naws), NEW v \in Seq(Naws), NEW size,
           NEW told, Phase("inactive", t, w, v, size, told)
    PROVE  Phase("activating", t, w, Append(v, do), size, told)
<1>1. v = <<>>
  BY DEF Phase
<1>2. Append(<<>>, do) = <<do>>
  BY SMT
<1>. QED BY <1>1, <1>2 DEF Phase

LEMMA PhaseDeactivate ==
    ASSUME NEW s, NEW w \in Seq(Naws), NEW v, NEW size, NEW told,
           Phase(s, "active", w, v, size, told)
    PROVE  Phase(s, "deactivating", Append(w, wont), v, size, told)
<1> DEFINE n == Len(w)
           u == Append(w, wont)
<1>1. n \in Nat /\ Len(u) = n + 1 /\ u # <<>> /\ u[n + 1] = wont /\ \A i \in 1..n : u[i] = w[i]
  BY NawsElements, AppendProperties, LenProperties
<1> HIDE DEF u
<1>2. CASE s = "activating"
  <2>1. v = <<>> /\ w # <<>> /\ w[1] = will /\ Reports(w, 2, n)
    BY <1>2 DEF Phase
  <2>2. n >= 1
    BY <1>1, <2>1, EmptySeq
  <2>3. Len(u) >= 2 /\ u[1] = will /\ u[Len(u)] = wont /\ Len(u) - 1 = n
    BY <1>1, <2>1, <2>2
  <2>4. Reports(u, 2, n)
    BY <1>1, <2>1 DEF Reports
  <2>. QED BY <1>2, <2>1, <2>3, <2>4 DEF Phase, u
<1>3. CASE s = "active"
  <2>1. v = <<>> /\ Reports(w, 1, n)
    BY <1>3 DEF Phase
  <2>2. Reports(u, 1, n) /\ u[Len(u)] = wont /\ Len(u) - 1 = n
    BY <1>1, <2>1 DEF Reports
  <2>. QED BY <1>1, <1>3, <2>1, <2>2 DEF Phase, u
<1>4. s \in {"activating", "active"}
  BY DEF Phase
<1>. QED BY <1>2, <1>3, <1>4

LEMMA PhaseReport ==
    ASSUME NEW s, NEW w \in Seq(Naws), NEW v, NEW size, NEW told, NEW n \in Size,
           Phase(s, "active", w, v, size, told)
    PROVE  Phase(s, "active", Append(w, Report(n)), v, n, told)
<1> DEFINE m == Len(w)
           x == Report(n)
           u == Append(w, x)
<1>1. x \in Naws /\ x.kind = "subnegotiation" /\ report_window_size(n) = <<x>>
  BY SizeReported
<1> HIDE DEF x
<1>2. m \in Nat /\ Len(u) = m + 1 /\ u # <<>> /\ u[m + 1] = x /\ \A i \in 1..m : u[i] = w[i]
  BY <1>1, AppendProperties, LenProperties
<1> HIDE DEF u
<1>3. Reported(u, n)
  BY <1>1, <1>2 DEF Reported
<1>4. CASE s = "activating"
  <2>1. v = <<>> /\ w # <<>> /\ w[1] = will /\ Reports(w, 2, m)
    BY <1>4 DEF Phase
  <2>2. u[1] = will
    BY <1>2, <2>1, EmptySeq
  <2>3. Reports(u, 2, m + 1)
    <3>1. \A i \in 2..(m + 1) : (i \in 2..m /\ i \in 1..m) \/ i = m + 1
      BY <1>2
    <3>. QED BY <1>1, <1>2, <2>1, <3>1 DEF Reports
  <2>. QED BY <1>2, <1>3, <1>4, <2>1, <2>2, <2>3 DEF Phase, u, x
<1>5. CASE s = "active"
  <2>1. v = <<>> /\ Reports(w, 1, m)
    BY <1>5 DEF Phase
  <2>2. Reports(u, 1, m + 1)
    <3>1. \A i \in 1..(m + 1) : i \in 1..m \/ i = m + 1
      BY <1>2
    <3>. QED BY <1>1, <1>2, <2>1, <3>1 DEF Reports
  <2>. QED BY <1>2, <1>3, <1>5, <2>1, <2>2 DEF Phase, u, x
<1>6. s \in {"activating", "active"}
  BY DEF Phase
<1>. QED BY <1>4, <1>5, <1>6

LEMMA PhaseSize ==
    ASSUME NEW s, NEW t, NEW w, NEW v, NEW size, NEW told, NEW n,
           Phase(s, t, w, v, size, told), t # "active"
    PROVE  Phase(s, t, w, v, n, told)
BY DEF Phase

LEMMA TerminalHears ==
    ASSUME NEW s, NEW t, NEW w \in Seq(Naws), NEW v \in Seq(Naws), NEW size, NEW told, v # <<>>,
           Phase(s, t, w, v, size, told)
    PROVE  \/ v = <<do>> /\ t \in {"inactive", "activating"}
           \/ v = <<dont>> /\ t = "deactivating"
BY DEF Phase

\* The terminal, asked or answered, is active and reports its size.
LEMMA PhaseDo ==
    ASSUME NEW s, NEW t \in {"inactive", "activating"}, NEW w \in Seq(Naws), NEW size \in WindowSize,
           NEW told, Phase(s, t, w, <<do>>, size, told)
    PROVE  LET u == IF t = "inactive" THEN Append(w, will) ELSE w
           IN  Phase(s, "active", u \o report_window_size(size), <<>>, size, told)
<1> DEFINE u == IF t = "inactive" THEN Append(w, will) ELSE w
           z == u \o report_window_size(size)
<1>0. <<do>> # <<>> /\ Append(<<>>, will) = <<will>>
  BY SMT
<1>1. \/ s = "activating" /\ u = <<will>>
      \/ s = "active" /\ u = <<>>
  BY <1>0 DEF Phase
<1>2. u \in Seq(Naws)
  BY <1>0, <1>1, NawsElements, EmptySeq, AppendProperties
<1>3. report_window_size(size) \in Seq(Naws)
  BY ReportType
<1>4. Phase(s, "active", u, <<>>, <<>>, told)
  <2>1. CASE s = "activating"
    <3> DEFINE one == <<will>>
    <3>1. one # <<>> /\ one[1] = will /\ Len(one) = 1
      BY SMT
    <3>2. u = one
      BY <1>1, <2>1
    <3>3. Reports(one, 2, Len(one))
      BY <3>1 DEF Reports
    <3> HIDE DEF one, u
    <3>. QED BY <2>1, <3>1, <3>2, <3>3 DEF Phase
  <2>2. CASE s = "active"
    <3>1. u = <<>>
      BY <1>1, <2>2
    <3>2. Reports(<<>>, 1, Len(<<>>))
      <4>1. Len(<<>>) = 0
        BY EmptySeq
      <4>. QED BY <4>1 DEF Reports
    <3> HIDE DEF u
    <3>. QED BY <2>2, <3>1, <3>2 DEF Phase
  <2>. QED BY <1>1, <2>1, <2>2
<1> HIDE DEF u
<1>5. CASE size = <<>>
  <2>1. z = u
    BY <1>2, <1>5, ConcatEmptySeq DEF report_window_size
  <2>. QED BY <1>4, <1>5, <2>1 DEF u
<1>6. CASE size # <<>>
  <2>1. size \in Size
    BY <1>6 DEF WindowSize
  <2> DEFINE x == Report(size)
  <2>2. x \in Naws /\ report_window_size(size) = <<x>>
    BY <2>1, SizeReported
  <2>3. Phase(s, "active", Append(u, x), <<>>, size, told)
    BY <1>2, <1>4, <2>1, PhaseReport
  <2> HIDE DEF x
  <2>4. u \o <<x>> = Append(u, x)
    BY <1>2, <2>2, SMT
  <2>. QED BY <2>2, <2>3, <2>4 DEF u
<1>. QED BY <1>5, <1>6

LEMMA PhaseDont ==
    ASSUME NEW s, NEW w, NEW size, NEW told,
           Phase(s, "deactivating", w, <<dont>>, size, told)
    PROVE  Phase(s, "inactive", w, <<>>, size, told)
<1>1. <<dont>> # <<>>
  BY SMT
<1>. QED BY <1>1 DEF Phase

\* What the server reads next.
LEMMA ServerHears ==
    ASSUME NEW s, NEW t, NEW w \in Seq(Naws), NEW v, NEW size, NEW told, w # <<>>,
           Phase(s, t, w, v, size, told)
    PROVE  \/ Head(w) = will /\ s \in {"inactive", "activating"}
           \/ Head(w).kind = "subnegotiation" /\ s = "active"
           \/ Head(w) = wont /\ s = "active"
<1> DEFINE n == Len(w)
<1>1. n \in Nat /\ n >= 1 /\ Head(w) = w[1] /\ 1 \in 1..n
  BY EmptySeq, HeadTailProperties, LenProperties
<1>2. CASE s \in {"inactive", "activating"}
  <2>1. w = <<will>> \/ w[1] = will
    BY <1>2 DEF Phase
  <2>2. w = <<will>> => w[1] = will
    BY SMT
  <2>. QED BY <1>1, <1>2, <2>1, <2>2
<1>3. CASE s = "active"
  <2>1. Reports(w, 1, n) \/ (Reports(w, 1, n - 1) /\ w[n] = wont)
    <3>1. t \in {"activating", "active", "deactivating"}
      BY <1>3 DEF Phase
    <3>2. CASE t = "activating"
      BY <1>3, <3>2 DEF Phase
    <3>3. CASE t = "active"
      BY <1>3, <3>3 DEF Phase
    <3>4. CASE t = "deactivating"
      BY <1>3, <3>4 DEF Phase
    <3>. QED BY <3>1, <3>2, <3>3, <3>4
  <2>2. n = 1 \/ 1 \in 1..(n - 1)
    <3>1. n \in Nat /\ n >= 1
      BY <1>1
    <3> HIDE DEF n
    <3>. QED BY <3>1
  <2>. QED BY <1>1, <1>3, <2>1, <2>2 DEF Reports
<1>4. s \in {"inactive", "activating", "active"}
  BY DEF Phase
<1>. QED BY <1>2, <1>3, <1>4

\* The server answers a WILL that it has not asked for.
LEMMA PhaseWill ==
    ASSUME NEW s \in {"inactive", "activating"}, NEW t, NEW w \in Seq(Naws), NEW v \in Seq(Naws),
           NEW size \in WindowSize, NEW told, w # <<>>, Phase(s, t, w, v, size, told)
    PROVE  Phase("active", t, Tail(w), IF s = "inactive" THEN Append(v, do) ELSE v, size, told)
<1> DEFINE n == Len(w)
           u == Tail(w)
<1>1. n \in Nat /\ n >= 1 /\ u \in Seq(Naws) /\ Len(u) = n - 1 /\ \A i \in 1..(n - 1) : u[i] = w[i + 1]
  BY EmptySeq, HeadTailProperties, LenProperties
<1>2. Append(<<>>, do) = <<do>> /\ Tail(<<will>>) = <<>>
  BY SMT
<1> HIDE DEF u
<1>3. CASE w = <<will>> /\ (s = "inactive" \/ v = <<do>>)
  <2>1. u = <<>>
    BY <1>2, <1>3 DEF u
  <2>2. t = "activating" /\ ((s = "inactive" /\ v = <<>>) \/ (s = "activating" /\ v = <<do>>))
    <3>1. <<do>> # <<>> /\ <<will>> # <<>>
      BY SMT
    <3>2. CASE s = "inactive"
      BY <1>3, <3>1, <3>2 DEF Phase
    <3>3. CASE s = "activating"
      BY <1>3, <3>1, <3>3 DEF Phase
    <3>. QED BY <3>2, <3>3
  <2>. QED BY <1>2, <2>1, <2>2 DEF Phase, u
<1>4. CASE s = "activating" /\ t = "active" /\ v = <<>>
  <2>1. Reports(w, 2, n) /\ (size # <<>> => Reported(w, size)) /\ w[1] = will
    BY <1>4 DEF Phase
  <2>2. Reports(u, 1, n - 1)
    <3>1. \A i \in 1..(n - 1) : i + 1 \in 2..n
      BY <1>1
    <3>. QED BY <1>1, <2>1, <3>1 DEF Reports
  <2>3. ASSUME size # <<>> PROVE Reported(u, size)
    <3>1. <<w[n]>> = report_window_size(size)
      BY <2>1, <2>3 DEF Reported
    <3>2. w[n] = Report(size) /\ size \in Size
      BY <2>3, <3>1, ReportInjective
    <3>3. w[n].kind = "subnegotiation"
      BY <3>2, SizeReported
    <3>4. n >= 2
      BY <1>1, <2>1, <3>3, NawsElements
    <3>5. u # <<>> /\ u[n - 1] = w[n]
      BY <1>1, <3>4, EmptySeq
    <3>. QED BY <1>1, <3>1, <3>5 DEF Reported
  <2>. QED BY <1>1, <1>4, <2>2, <2>3 DEF Phase, u
<1>5. CASE s = "activating" /\ t = "deactivating" /\ v = <<>>
  <2>1. n >= 2 /\ Reports(w, 2, n - 1) /\ w[n] = wont
    BY <1>5 DEF Phase
  <2>2. u # <<>> /\ u[n - 1] = wont
    BY <1>1, <2>1, EmptySeq
  <2>3. Reports(u, 1, (n - 1) - 1)
    <3>1. \A i \in 1..((n - 1) - 1) : i + 1 \in 2..(n - 1) /\ i \in 1..(n - 1)
      BY <1>1
    <3>. QED BY <1>1, <2>1, <3>1 DEF Reports
  <2>. QED BY <1>1, <1>5, <2>2, <2>3 DEF Phase, u
<1>. QED BY <1>3, <1>4, <1>5 DEF Phase

\* The server's listener is told a size.
LEMMA PhaseTold ==
    ASSUME NEW t, NEW w \in Seq(Naws), NEW v, NEW size \in WindowSize, NEW told, NEW now, w # <<>>,
           Head(w).kind = "subnegotiation",
           \A n \in Size : Head(w) = Report(n) => now = n,
           Phase("active", t, w, v, size, told)
    PROVE  Phase("active", t, Tail(w), v, size, now)
<1> DEFINE n == Len(w)
           u == Tail(w)
<1>1. n \in Nat /\ n >= 1 /\ u \in Seq(Naws) /\ Len(u) = n - 1 /\ Head(w) = w[1]
      /\ \A i \in 1..(n - 1) : u[i] = w[i + 1]
  BY EmptySeq, HeadTailProperties, LenProperties
<1> HIDE DEF u
<1>2. CASE t = "active"
  <2>1. v = <<>> /\ Reports(w, 1, n) /\ (size # <<>> => Reported(w, size))
    BY <1>2 DEF Phase
  <2>2. Reports(u, 1, n - 1)
    <3>1. \A i \in 1..(n - 1) : i + 1 \in 1..n
      BY <1>1
    <3>. QED BY <1>1, <2>1, <3>1 DEF Reports
  <2>3. ASSUME size # <<>> PROVE Reported(u, size) \/ (u = <<>> /\ now = size)
    <3>1. <<w[n]>> = report_window_size(size)
      BY <2>1, <2>3 DEF Reported
    <3>2. w[n] = Report(size) /\ size \in Size
      BY <3>1, ReportInjective
    <3>3. CASE n = 1
      <4>1. u = <<>>
        BY <1>1, <3>3, EmptySeq
      <4>2. now = size
        BY <1>1, <3>2, <3>3
      <4>. QED BY <4>1, <4>2
    <3>4. CASE n # 1
      <4>1. u # <<>> /\ u[n - 1] = w[n]
        BY <1>1, <3>4, EmptySeq
      <4>. QED BY <1>1, <3>1, <4>1 DEF Reported
    <3>. QED BY <3>3, <3>4
  <2>. QED BY <1>1, <1>2, <2>1, <2>2, <2>3 DEF Phase, u
<1>3. CASE t = "deactivating"
  <2>1. v = <<>> /\ Reports(w, 1, n - 1) /\ w[n] = wont
    BY <1>3 DEF Phase
  <2>2. n >= 2
    BY <1>1, <2>1, NawsElements
  <2>3. u # <<>> /\ u[n - 1] = wont
    BY <1>1, <2>1, <2>2, EmptySeq
  <2>4. Reports(u, 1, (n - 1) - 1)
    <3>1. \A i \in 1..((n - 1) - 1) : i + 1 \in 1..(n - 1) /\ i \in 1..(n - 1)
      BY <1>1
    <3>. QED BY <1>1, <2>1, <3>1 DEF Reports
  <2>. QED BY <1>1, <1>3, <2>1, <2>3, <2>4 DEF Phase, u
<1>4. t \in {"active", "deactivating"}
  BY DEF Phase
<1>. QED BY <1>2, <1>3, <1>4

LEMMA PhaseWont ==
    ASSUME NEW t, NEW w \in Seq(Naws), NEW v, NEW size, NEW told, w # <<>>, Head(w) = wont,
           Phase("active", t, w, v, size, told)
    PROVE  Phase("inactive", t, Tail(w), Append(v, dont), size, told)
<1> DEFINE n == Len(w)
           u == Tail(w)
<1>1. n \in Nat /\ n >= 1 /\ u \in Seq(Naws) /\ Len(u) = n - 1 /\ w[1] = wont
  BY EmptySeq, HeadTailProperties, LenProperties
<1>2. w[1].kind # "subnegotiation"
  BY <1>1, NawsElements
<1>3. t = "deactivating" /\ v = <<>> /\ Reports(w, 1, n - 1)
  <2>1. ~Reports(w, 1, n)
    BY <1>1, <1>2 DEF Reports
  <2>. QED BY <2>1 DEF Phase
<1>4. n = 1
  <2>1. CASE n # 1
    <3>1. 1 \in 1..(n - 1)
      BY <1>1, <2>1
    <3>. QED BY <1>2, <1>3, <3>1 DEF Reports
  <2>. QED BY <2>1
<1>5. u = <<>>
  <2> HIDE DEF u
  <2>. QED BY <1>1, <1>4, EmptySeq
<1>6. Append(<<>>, dont) = <<dont>>
  BY SMT
<1>. QED BY <1>3, <1>5, <1>6 DEF Phase

-------------------------------------------------------------------------------
(***************************************************************************)
(* What is written and read.                                               *)
(***************************************************************************)
Verbs == {"will", "wont", "do", "dont"}

\* What an end says of an option.
Of(o) == [kind : {"negotiation"}, of : {o}, verb : Verbs]
         \cup [kind : {"subnegotiation"}, of : {o}, content : Seq(Byte)]

OfText == [elem \in typing |-> elem.of]

LEMMA Elements ==
    /\ element = typing \cup UNION {Of(o) : o \in Options}
    /\ Naws = Of("naws") /\ "naws" \in Options
    /\ \A o \in Options : \A x \in Of(o) :
          x \in element /\ x \notin typing /\ x.of = o /\ x.kind \in {"negotiation", "subnegotiation"}
    /\ \A x \in typing : x \in element /\ x \notin Naws /\ x.of \in Byte /\ x.kind = "text"
    /\ DOMAIN OfText = typing /\ \A x \in typing : OfText[x] = x.of
<1>1. \A o \in Options : \A x \in Of(o) :
          x \in element /\ x \notin typing /\ x.of = o /\ x.kind \in {"negotiation", "subnegotiation"}
  BY DEF element, typing, Of, Verbs
<1>2. \A x \in typing : x \in element /\ x \notin Naws /\ x.of \in Byte /\ x.kind = "text"
  BY DEF element, typing, Naws
<1>3. Naws = Of("naws") /\ "naws" \in Options
  BY DEF Naws, Of, Verbs, Options
<1>4. ASSUME NEW x \in element, x \notin typing PROVE \E o \in Options : x \in Of(o)
  <2>1. x.of \in Options /\ x \in Of(x.of)
    BY <1>4 DEF element, typing, Of, Verbs
  <2>. QED BY <2>1
<1>. QED BY <1>1, <1>2, <1>3, <1>4 DEF OfText

LEMMA TypedIs ==
    ASSUME NEW w
    PROVE  Typed(w) = Project(w, OfText)
BY DEF Typed, OfText

LEMMA TypedType ==
    ASSUME NEW w \in Seq(element)
    PROVE  Typed(w) \in Seq(Byte) /\ Only(w, Naws) \in Seq(Naws)
<1>1. Image(OfText) \subseteq Byte
  BY Elements DEF Image
<1>2. Typed(w) \in Seq(Image(OfText))
  BY ProjectType, LenProperties, TypedIs
<1>3. Typed(w) \in Seq(Byte)
  BY <1>1, <1>2, SeqMonotonic
<1>. QED BY <1>3, KeepType

\* What is said of an option.
LEMMA Said ==
    ASSUME NEW o \in Options, NEW z \in Seq(Of(o)), NEW w \in Seq(element)
    PROVE  /\ z \in Seq(element) /\ w \o z \in Seq(element)
           /\ Typed(w \o z) = Typed(w)
           /\ Only(w \o z, Naws) = IF o = "naws" THEN Only(w, Naws) \o z ELSE Only(w, Naws)
<1>1. \A i \in 1..Len(z) : z[i] \in Of(o)
  BY ElementOfSeq
<1>2. Of(o) \subseteq element
  BY Elements
<1>3. z \in Seq(element) /\ Len(z) \in Nat
  BY <1>2, SeqMonotonic, LenProperties
<1>4. w \o z \in Seq(element)
  BY <1>3, ConcatProperties
<1>5. Project(z, OfText) = <<>>
  <2>1. \A i \in 1..Len(z) : z[i] \notin DOMAIN OfText
    BY <1>1, Elements
  <2>. QED BY <1>3, <2>1, ProjectNone
<1>6. Typed(w \o z) = Typed(w)
  <2>1. Typed(w \o z) = Project(w, OfText) \o Project(z, OfText)
    BY <1>3, ProjectConcat, TypedIs, SMTT(30)
  <2>2. Typed(w) \o <<>> = Typed(w)
    BY TypedType, ConcatEmptySeq
  <2>. QED BY <1>5, <2>1, <2>2, TypedIs
<1>7. Only(w \o z, Naws) = Only(w, Naws) \o Only(z, Naws)
  BY <1>3, KeepConcat
<1>8. CASE o = "naws"
  <2>1. z \in Seq(Naws)
    BY <1>8, Elements
  <2>2. Only(z, Naws) = z
    BY <2>1, KeepAll
  <2>. QED BY <1>3, <1>4, <1>6, <1>7, <1>8, <2>2
<1>9. CASE o # "naws"
  <2>1. \A i \in 1..Len(z) : z[i] \notin Naws
    BY <1>1, <1>9, Elements
  <2>2. Only(z, Naws) = <<>>
    BY <1>3, <2>1, KeepNone
  <2>3. Only(w, Naws) \o <<>> = Only(w, Naws)
    BY TypedType, ConcatEmptySeq
  <2>. QED BY <1>3, <1>4, <1>6, <1>7, <1>9, <2>2, <2>3
<1>. QED BY <1>8, <1>9

LEMMA SaidType ==
    ASSUME NEW o \in Options
    PROVE  Seq(Of(o)) \subseteq Seq(element) /\ <<>> \in Seq(element)
<1>1. Of(o) \subseteq element
  BY Elements
<1>. QED BY <1>1, SeqMonotonic, EmptySeq

LEMMA SaidOne ==
    ASSUME NEW o \in Options, NEW x \in Of(o), NEW w \in Seq(element)
    PROVE  /\ Append(w, x) \in Seq(element) /\ x \in element
           /\ Typed(Append(w, x)) = Typed(w)
           /\ Only(Append(w, x), Naws) =
                 IF o = "naws" THEN Append(Only(w, Naws), x) ELSE Only(w, Naws)
<1>1. x \in element
  BY Elements
<1>2. <<x>> \in Seq(Of(o)) /\ w \o <<x>> = Append(w, x)
  BY <1>1, SMT
<1>3. /\ Append(w, x) \in Seq(element)
      /\ Typed(Append(w, x)) = Typed(w)
      /\ Only(Append(w, x), Naws) = IF o = "naws" THEN Only(w, Naws) \o <<x>> ELSE Only(w, Naws)
  BY <1>2, Said, ZenonT(40)
<1>4. CASE o = "naws"
  <2> DEFINE v == Only(w, Naws)
  <2>1. v \in Seq(Naws) /\ x \in Naws
    BY <1>4, TypedType, Elements
  <2> HIDE DEF v
  <2>2. v \o <<x>> = Append(v, x)
    BY <2>1, SMT
  <2>. QED BY <1>1, <1>3, <1>4, <2>2 DEF v
<1>. QED BY <1>1, <1>3, <1>4

\* A byte of text.
LEMMA TypedOne ==
    ASSUME NEW by \in Byte, NEW w \in Seq(element)
    PROVE  /\ <<text(by)>> \in Seq(element) /\ w \o <<text(by)>> \in Seq(element)
           /\ Typed(w \o <<text(by)>>) = Append(Typed(w), by)
           /\ Only(w \o <<text(by)>>, Naws) = Only(w, Naws)
<1> DEFINE x == text(by)
<1>1. x \in typing /\ x.of = by
  BY DEF text, typing
<1>2. x \in element /\ x \notin Naws /\ x \in DOMAIN OfText /\ OfText[x] = by
  BY <1>1, Elements
<1> HIDE DEF x
<1>3. <<x>> \in Seq(element) /\ w \o <<x>> = Append(w, x) /\ Append(w, x) \in Seq(element)
  BY <1>2, SMT
<1>4. Project(Append(w, x), OfText) = Append(Project(w, OfText), by)
  <2>1. Project(Append(w, x), OfText) = Seen(Project(w, OfText), x, OfText)
    BY <1>2, ProjectAppend
  <2>. QED BY <1>2, <2>1 DEF Seen
<1>5. Only(Append(w, x), Naws) = Only(w, Naws)
  BY <1>2, KeepAppend
<1>. QED BY <1>3, <1>4, <1>5, TypedIs DEF x

\* What is left when an element is read.
LEMMA ReadOne ==
    ASSUME NEW w \in Seq(element), w # <<>>
    PROVE  LET x == Head(w) IN
           /\ x \in element /\ Tail(w) \in Seq(element) /\ Len(Tail(w)) = Len(w) - 1
           /\ x \in typing => /\ Typed(w) # <<>> /\ Head(Typed(w)) = x.of
                              /\ Typed(Tail(w)) = Tail(Typed(w))
                              /\ Only(Tail(w), Naws) = Only(w, Naws)
           /\ x \notin typing => Typed(Tail(w)) = Typed(w)
           /\ x \in Naws => /\ Only(w, Naws) # <<>> /\ Head(Only(w, Naws)) = x
                            /\ Only(Tail(w), Naws) = Tail(Only(w, Naws))
           /\ x \notin Naws => Only(Tail(w), Naws) = Only(w, Naws)
<1> DEFINE x == Head(w)
<1>1. x \in element /\ Tail(w) \in Seq(element) /\ Len(Tail(w)) = Len(w) - 1
  BY HeadTailProperties
<1>2. x \in typing => x \notin Naws /\ x \in DOMAIN OfText /\ OfText[x] = x.of
  BY Elements
<1>3. x \notin typing => x \notin DOMAIN OfText
  BY Elements
<1>4. /\ x \in DOMAIN OfText =>
             /\ Project(w, OfText) # <<>>
             /\ Head(Project(w, OfText)) = OfText[x]
             /\ Project(Tail(w), OfText) = Tail(Project(w, OfText))
      /\ x \notin DOMAIN OfText => Project(Tail(w), OfText) = Project(w, OfText)
  BY ProjectRead
<1>5. /\ x \in Naws => /\ Only(w, Naws) # <<>> /\ Head(Only(w, Naws)) = x
                       /\ Only(Tail(w), Naws) = Tail(Only(w, Naws))
      /\ x \notin Naws => Only(Tail(w), Naws) = Only(w, Naws)
  BY KeepRead
<1> HIDE DEF x
<1>. QED BY <1>1, <1>2, <1>3, <1>4, <1>5, TypedIs DEF x

LEMMA Writes ==
    ASSUME wire \in [Ends -> Seq(element)], NEW e \in Ends, NEW z \in Seq(element), write(e, z)
    PROVE  /\ wire' \in [Ends -> Seq(element)]
           /\ wire'[e] = wire[e]
           /\ wire'[Other(e)] = IF alive THEN wire[Other(e)] \o z ELSE wire[Other(e)]
           /\ Len(wire'["server"]) >= Len(wire["server"])
<1>1. Other(e) \in Ends /\ Other(e) # e
  BY DEF Ends, Other
<1> DEFINE y == wire[Other(e)] \o sent(z)
<1>2. wire' = [wire EXCEPT ![Other(e)] = y]
  BY DEF write
<1>3. y = IF alive THEN wire[Other(e)] \o z ELSE wire[Other(e)]
  BY <1>1, ConcatEmptySeq DEF sent
<1>4. y \in Seq(element) /\ Len(y) >= Len(wire[Other(e)])
  BY <1>1, <1>3, ConcatProperties, LenProperties
<1> HIDE DEF y
<1>5. wire' \in [Ends -> Seq(element)] /\ wire'[Other(e)] = y /\ wire'[e] = wire[e]
  BY <1>1, <1>2, <1>4
<1>6. Len(wire'["server"]) >= Len(wire["server"])
  <2>1. "server" = e \/ "server" = Other(e)
    BY DEF Ends, Other
  <2>2. Len(wire["server"]) \in Nat
    BY LenProperties DEF Ends
  <2>. QED BY <1>4, <1>5, <2>1, <2>2
<1>. QED BY <1>3, <1>5, <1>6

LEMMA Reads ==
    ASSUME wire \in [Ends -> Seq(element)], NEW e \in Ends, NEW z \in Seq(element), wire[e] # <<>>,
           read_and_write(e, z)
    PROVE  /\ wire' \in [Ends -> Seq(element)]
           /\ wire'[e] = Tail(wire[e])
           /\ wire'[Other(e)] = IF alive THEN wire[Other(e)] \o z ELSE wire[Other(e)]
           /\ e = "server" => Len(wire'["server"]) = Len(wire["server"]) - 1
           /\ e = "terminal" => Len(wire'["server"]) >= Len(wire["server"])
<1>1. Other(e) \in Ends /\ Other(e) # e
  BY DEF Ends, Other
<1> DEFINE y == wire[Other(e)] \o sent(z)
           x == Tail(wire[e])
<1>2. wire' = [wire EXCEPT ![e] = x, ![Other(e)] = y]
  BY DEF read_and_write
<1>3. y = IF alive THEN wire[Other(e)] \o z ELSE wire[Other(e)]
  BY <1>1, ConcatEmptySeq DEF sent
<1>4. y \in Seq(element) /\ Len(y) >= Len(wire[Other(e)])
  BY <1>1, <1>3, ConcatProperties, LenProperties
<1>5. x \in Seq(element) /\ Len(x) = Len(wire[e]) - 1
  BY HeadTailProperties
<1> HIDE DEF x, y
<1>6. wire' \in [Ends -> Seq(element)] /\ wire'[Other(e)] = y /\ wire'[e] = x
  BY <1>1, <1>2, <1>4, <1>5
<1>7. e = "terminal" => Other(e) = "server"
  BY DEF Other
<1>. QED BY <1>3, <1>4, <1>5, <1>6, <1>7 DEF x

-------------------------------------------------------------------------------
(***************************************************************************)
(* What the ends say.                                                      *)
(***************************************************************************)
LEMMA NegotiationOf ==
    ASSUME NEW o \in Options, NEW verb \in Verbs
    PROVE  negotiation(verb, o) \in Of(o) /\ <<negotiation(verb, o)>> \in Seq(Of(o))
<1> DEFINE x == negotiation(verb, o)
<1>1. x \in Of(o)
  BY DEF negotiation, Of
<1> HIDE DEF x
<1>2. <<x>> \in Seq(Of(o))
  BY <1>1, SMT
<1>. QED BY <1>1, <1>2 DEF x

LEMMA SubnegotiationOf ==
    ASSUME NEW o \in Options, NEW content \in Seq(Byte)
    PROVE  <<subnegotiation(o, content)>> \in Seq(Of(o))
<1> DEFINE x == subnegotiation(o, content)
<1>1. x \in Of(o)
  BY DEF subnegotiation, Of
<1> HIDE DEF x
<1>2. <<x>> \in Seq(Of(o))
  BY <1>1, SMT
<1>. QED BY <1>2 DEF x

LEMMA VerbsType ==
    ASSUME NEW e \in Ends, NEW o \in Options
    PROVE  /\ local_positive(e, o) \in Verbs /\ local_negative(e, o) \in Verbs
           /\ remote_positive(e, o) \in Verbs
BY DEF local_positive, local_negative, remote_positive, Verbs, Ends, Other

LEMMA Contents ==
    request_content \in Seq(Byte) /\ terminal_answer \in Seq(Byte)
<1>1. 0 \in Byte /\ 1 \in Byte /\ 120 \in Byte
  BY SMT DEF Byte
<1>. QED BY <1>1, SMT DEF request_content, terminal_answer, is, send

LEMMA SignalType ==
    ASSUME window_size_ \in WindowSize, NEW e \in Ends, NEW o \in Options, NEW s
    PROVE  on_state_changed(e, o, s) \in Seq(Of(o))
<1>1. <<>> \in Seq(Of(o))
  BY EmptySeq
<1>2. <<subnegotiation(o, request_content)>> \in Seq(Of(o))
  BY Contents, SubnegotiationOf
<1>3. o = "naws" => report_window_size(window_size_) \in Seq(Of(o))
  BY ReportType, Elements
<1>. QED BY <1>1, <1>2, <1>3 DEF on_state_changed

LEMMA RepliesType ==
    ASSUME window_size_ \in WindowSize, NEW e \in Ends, NEW o \in Options, NEW elem \in Of(o)
    PROVE  replies(e, elem) \in Seq(Of(o))
<1>1. elem.of = o
  BY Elements
<1> DEFINE s == negotiated(e, elem)
           answer(verb) == IF requesting(e, o) THEN <<>> ELSE <<negotiation(verb, o)>>
           signal == IF state_[e][o] = s THEN <<>> ELSE on_state_changed(e, o, s)
           p == answer(local_positive(e, o))
           n == answer(local_negative(e, o))
<1>2. <<>> \in Seq(Of(o))
  BY EmptySeq
<1>3. signal \in Seq(Of(o))
  BY <1>2, SignalType
<1>4. p \in Seq(Of(o)) /\ n \in Seq(Of(o))
  BY <1>2, VerbsType, NegotiationOf
<1>5. p \o signal \in Seq(Of(o)) /\ signal \o n \in Seq(Of(o))
  <2> HIDE DEF p, n, signal
  <2>. QED BY <1>3, <1>4, ConcatProperties
<1>6. replies(e, elem) = IF s = "active" THEN p \o signal ELSE signal \o n
  BY <1>1 DEF replies
<1> HIDE DEF p, n, signal, s
<1>. QED BY <1>5, <1>6

-------------------------------------------------------------------------------
(***************************************************************************)
(* Types.                                                                  *)
(***************************************************************************)
OptionsType ==
    /\ state_ \in [Ends -> [Options -> internal_state]]
    /\ wire \in [Ends -> Seq(element)]

SocketType ==
    /\ alive \in BOOLEAN
    /\ connections_ \in {"none", "serving", "removed"}
    /\ reading \in {"no", "outstanding", "handling"}
    /\ (connections_ = "serving") <=> (reading # "no")

LeftType == left \in 0..Len(wire["server"])

ListenersType ==
    /\ window_size_ \in WindowSize
    /\ announced \in WindowSize
    /\ terminal_type_requests_ \in {0, 1}

LEMMA TypeParts ==
    /\ TypeOK <=> OptionsType /\ SocketType /\ LeftType /\ ListenersType /\ unechoed \in Seq(Byte)
    /\ TypeOK' <=> /\ OptionsType' /\ SocketType' /\ LeftType' /\ ListenersType'
                   /\ unechoed' \in Seq(Byte)
<1>1. ListenersType <=>
          /\ \A size \in {window_size_, announced} \ {<<>>} :
                size \in window_dimension \X window_dimension
          /\ terminal_type_requests_ \in {0, 1}
  BY DEF ListenersType, WindowSize, Size
<1>2. ListenersType' <=>
          /\ \A size \in {window_size_', announced'} \ {<<>>} :
                size \in window_dimension \X window_dimension
          /\ terminal_type_requests_' \in {0, 1}
  BY DEF ListenersType, WindowSize, Size
<1>. QED BY <1>1, <1>2, Zenon DEF TypeOK, OptionsType, SocketType, LeftType

LEMMA Becomes ==
    ASSUME OptionsType, NEW e \in Ends, NEW o \in Options, NEW s \in internal_state, become(e, o, s)
    PROVE  /\ state_' \in [Ends -> [Options -> internal_state]]
           /\ state_'[e][o] = s
           /\ \A p \in Options : p # o => state_'[e][p] = state_[e][p]
           /\ \A d \in Ends : d # e => state_'[d] = state_[d]
BY DEF OptionsType, become

\* An element that was read is a negotiation, a subnegotiation or text.
LEMMA ElementIs ==
    ASSUME NEW elem \in element
    PROVE  /\ elem.kind \in {"negotiation", "subnegotiation"} =>
                 elem.of \in Options /\ elem \in Of(elem.of) /\ elem \notin typing
           /\ elem.kind = "negotiation" => elem.verb \in Verbs
           /\ elem.kind = "subnegotiation" => elem.content \in Seq(Byte)
           /\ elem.kind = "text" => elem \in typing /\ elem.of \in Byte
BY DEF element, typing, Of, Verbs

LEMMA NegotiateType ==
    ASSUME OptionsType, ListenersType, NEW e \in Ends, wire[e] # <<>>, negotiate(e, Head(wire[e]))
    PROVE  LET elem == Head(wire[e]) IN
           /\ elem.of \in Options /\ elem \in Of(elem.of)
           /\ elem.kind = "negotiation" /\ elem.verb \in Verbs
           /\ replies(e, elem) \in Seq(Of(elem.of)) /\ replies(e, elem) \in Seq(element)
           /\ negotiated(e, elem) \in internal_state
           /\ OptionsType'
           /\ e = "server" => Len(wire'["server"]) = Len(wire["server"]) - 1
           /\ e = "terminal" => Len(wire'["server"]) >= Len(wire["server"])
<1> DEFINE elem == Head(wire[e])
           z == replies(e, elem)
           s == negotiated(e, elem)
<1>1. elem \in element /\ elem.kind = "negotiation"
  BY ReadOne DEF OptionsType, negotiate
<1>2. elem.of \in Options /\ elem \in Of(elem.of) /\ elem.verb \in Verbs
  BY <1>1, ElementIs
<1>3. z \in Seq(Of(elem.of))
  BY <1>2, RepliesType DEF ListenersType
<1>4. z \in Seq(element)
  BY <1>2, <1>3, Elements, SeqMonotonic
<1>5. s \in internal_state
  BY DEF negotiated, internal_state
<1>6. become(e, elem.of, s) /\ read_and_write(e, z)
  BY DEF negotiate
<1> HIDE DEF z, s, elem
<1>7. state_' \in [Ends -> [Options -> internal_state]]
  BY <1>2, <1>5, <1>6, Becomes
<1>8. /\ wire' \in [Ends -> Seq(element)]
      /\ e = "server" => Len(wire'["server"]) = Len(wire["server"]) - 1
      /\ e = "terminal" => Len(wire'["server"]) >= Len(wire["server"])
  BY <1>4, <1>6, Reads DEF OptionsType
<1>9. OptionsType'
  BY <1>7, <1>8 DEF OptionsType
<1>. QED BY <1>1, <1>2, <1>3, <1>4, <1>5, <1>8, <1>9 DEF z, s, elem

\* The elements of the read at hand are not more than there are, as long as no
\* other is read.
LEMMA LeftKept ==
    ASSUME LeftType, OptionsType, OptionsType', left' = left,
           Len(wire'["server"]) >= Len(wire["server"])
    PROVE  LeftType'
<1>1. Len(wire["server"]) \in Nat /\ Len(wire'["server"]) \in Nat
  BY LenProperties DEF OptionsType, Ends
<1>. QED BY <1>1 DEF LeftType

LEMMA ActivateType ==
    ASSUME TypeOK, NEW o \in Options, activate(o)
    PROVE  TypeOK'
<1>1. OptionsType /\ SocketType /\ LeftType /\ ListenersType /\ unechoed \in Seq(Byte)
  BY TypeParts
<1>2. "terminal" \in Ends /\ Other("terminal") = "server"
  BY DEF Ends, Other
<1>3. PICK z \in Seq(Of(o)) : write("terminal", z)
  <2>1. <<negotiation(local_positive("terminal", o), o)>> \in Seq(Of(o))
    BY <1>2, VerbsType, NegotiationOf
  <2>2. on_state_changed("terminal", o, "active") \in Seq(Of(o))
    BY <1>1, <1>2, SignalType DEF ListenersType
  <2>. QED BY <2>1, <2>2 DEF activate
<1>4. z \in Seq(element)
  BY Elements, SeqMonotonic
<1>5. wire' \in [Ends -> Seq(element)] /\ Len(wire'["server"]) >= Len(wire["server"])
  BY <1>1, <1>2, <1>3, <1>4, Writes DEF OptionsType
<1>6. state_' \in [Ends -> [Options -> internal_state]]
  <2>1. CASE become("terminal", o, "activating")
    <3>1. "activating" \in internal_state
      BY DEF internal_state
    <3>. QED BY <1>1, <1>2, <2>1, <3>1, Becomes
  <2>2. CASE UNCHANGED state_
    BY <1>1, <2>2 DEF OptionsType
  <2>. QED BY <2>1, <2>2 DEF activate
<1>7. OptionsType'
  BY <1>5, <1>6 DEF OptionsType
<1>8. UNCHANGED <<socket, listeners, unechoed>>
  BY DEF activate
<1>9. LeftType'
  BY <1>1, <1>5, <1>7, <1>8, LeftKept DEF socket
<1>10. SocketType' /\ ListenersType' /\ unechoed' \in Seq(Byte)
  BY <1>1, <1>8 DEF SocketType, ListenersType, socket, listeners
<1>. QED BY <1>7, <1>9, <1>10, TypeParts

LEMMA DeactivateType ==
    ASSUME TypeOK, NEW o \in Options, deactivate(o)
    PROVE  TypeOK'
<1>1. OptionsType /\ SocketType /\ LeftType /\ ListenersType /\ unechoed \in Seq(Byte)
  BY TypeParts
<1>2. "terminal" \in Ends /\ "deactivating" \in internal_state
  BY DEF Ends, internal_state
<1> DEFINE z == <<negotiation(local_negative("terminal", o), o)>>
<1>3. z \in Seq(Of(o)) /\ write("terminal", z) /\ become("terminal", o, "deactivating")
  BY <1>2, VerbsType, NegotiationOf DEF deactivate
<1> HIDE DEF z
<1>4. z \in Seq(element)
  BY <1>3, Elements, SeqMonotonic
<1>5. wire' \in [Ends -> Seq(element)] /\ Len(wire'["server"]) >= Len(wire["server"])
  BY <1>1, <1>2, <1>3, <1>4, Writes DEF OptionsType
<1>6. state_' \in [Ends -> [Options -> internal_state]]
  BY <1>1, <1>2, <1>3, Becomes
<1>7. OptionsType'
  BY <1>5, <1>6 DEF OptionsType
<1>8. UNCHANGED <<socket, listeners, unechoed>>
  BY DEF deactivate
<1>9. LeftType'
  BY <1>1, <1>5, <1>7, <1>8, LeftKept DEF socket
<1>10. SocketType' /\ ListenersType' /\ unechoed' \in Seq(Byte)
  BY <1>1, <1>8 DEF SocketType, ListenersType, socket, listeners
<1>. QED BY <1>7, <1>9, <1>10, TypeParts

LEMMA SetWindowSizeType ==
    ASSUME TypeOK, NEW size \in Size, set_window_size(size)
    PROVE  TypeOK'
<1>1. OptionsType /\ SocketType /\ LeftType /\ ListenersType /\ unechoed \in Seq(Byte)
  BY TypeParts
<1>2. "terminal" \in Ends /\ size \in WindowSize
  BY DEF Ends, WindowSize
<1> DEFINE z == IF active("terminal", "naws") THEN report_window_size(size) ELSE <<>>
<1>3. z \in Seq(element) /\ write("terminal", z)
  BY <1>2, ReportType, EmptySeq DEF set_window_size
<1> HIDE DEF z
<1>5. wire' \in [Ends -> Seq(element)] /\ Len(wire'["server"]) >= Len(wire["server"])
  BY <1>1, <1>2, <1>3, Writes DEF OptionsType
<1>6. window_size_' = size /\ UNCHANGED <<state_, socket, announced, terminal_type_requests_, unechoed>>
  BY DEF set_window_size
<1>7. OptionsType'
  BY <1>1, <1>5, <1>6 DEF OptionsType
<1>9. LeftType'
  BY <1>1, <1>5, <1>6, <1>7, LeftKept DEF socket
<1>10. SocketType' /\ ListenersType' /\ unechoed' \in Seq(Byte)
  BY <1>1, <1>2, <1>6 DEF SocketType, ListenersType, socket
<1>. QED BY <1>7, <1>9, <1>10, TypeParts

LEMMA TypeKeyType ==
    ASSUME TypeOK, NEW by \in Byte, type_key(by)
    PROVE  TypeOK'
<1>1. OptionsType /\ SocketType /\ LeftType /\ ListenersType /\ unechoed \in Seq(Byte)
  BY TypeParts
<1>2. "terminal" \in Ends
  BY DEF Ends
<1>3. <<text(by)>> \in Seq(element)
  <2>1. <<>> \in Seq(element)
    BY EmptySeq
  <2>. QED BY <2>1, TypedOne
<1>4. write("terminal", <<text(by)>>) /\ unechoed' = Append(unechoed, by)
      /\ UNCHANGED <<state_, socket, listeners>>
  BY DEF type_key
<1>5. wire' \in [Ends -> Seq(element)] /\ Len(wire'["server"]) >= Len(wire["server"])
  BY <1>1, <1>2, <1>3, <1>4, Writes DEF OptionsType
<1>7. OptionsType'
  BY <1>1, <1>4, <1>5 DEF OptionsType
<1>9. LeftType'
  BY <1>1, <1>4, <1>5, <1>7, LeftKept DEF socket
<1>10. SocketType' /\ ListenersType' /\ unechoed' \in Seq(Byte)
  BY <1>1, <1>4, AppendProperties DEF SocketType, ListenersType, socket, listeners
<1>. QED BY <1>7, <1>9, <1>10, TypeParts

-------------------------------------------------------------------------------
(***************************************************************************)
(* The echo.                                                               *)
(***************************************************************************)
\* The arithmetic of the code and the other half of the alphabet.
LEMMA RotationIs ==
    ASSUME NEW by \in Byte
    PROVE  rot13_encode(by) = Rot13(by) /\ Rot13(by) \in Byte
<1>1. CASE by \in 65..77
  <2>1. (by - 65 + 13) % 26 = by - 65 + 13
    BY <1>1, SMT
  <2>2. by \in 65..90 /\ by \in (65..77) \cup (97..109)
    BY <1>1, SMT
  <2>3. rot13_encode(by) = 65 + ((by - 65 + 13) % 26) /\ Rot13(by) = by + 13
    BY <2>2 DEF rot13_encode, Rot13
  <2>. QED BY <1>1, <2>1, <2>3, SMT DEF Byte
<1>2. CASE by \in 78..90
  <2>1. (by - 65 + 13) % 26 = by - 65 - 13
    BY <1>2, SMT
  <2>2. by \in 65..90 /\ by \notin (65..77) \cup (97..109) /\ by \in (78..90) \cup (110..122)
    BY <1>2, SMT
  <2>3. rot13_encode(by) = 65 + ((by - 65 + 13) % 26)
    BY <2>2 DEF rot13_encode
  <2>4. Rot13(by) = by - 13
    BY <2>2 DEF Rot13
  <2>. QED BY <1>2, <2>1, <2>3, <2>4, SMT DEF Byte
<1>3. CASE by \in 97..109
  <2>1. (by - 97 + 13) % 26 = by - 97 + 13
    BY <1>3, SMT
  <2>2. by \notin 65..90 /\ by \in 97..122 /\ by \in (65..77) \cup (97..109)
    BY <1>3, SMT
  <2>3. rot13_encode(by) = 97 + ((by - 97 + 13) % 26)
    BY <2>2 DEF rot13_encode
  <2>4. Rot13(by) = by + 13
    BY <2>2 DEF Rot13
  <2>. QED BY <1>3, <2>1, <2>3, <2>4, SMT DEF Byte
<1>4. CASE by \in 110..122
  <2>1. (by - 97 + 13) % 26 = by - 97 - 13
    BY <1>4, SMT
  <2>2. /\ by \notin 65..90 /\ by \in 97..122
        /\ by \notin (65..77) \cup (97..109) /\ by \in (78..90) \cup (110..122)
    BY <1>4, SMT
  <2>3. rot13_encode(by) = 97 + ((by - 97 + 13) % 26)
    BY <2>2 DEF rot13_encode
  <2>4. Rot13(by) = by - 13
    BY <2>2 DEF Rot13
  <2>. QED BY <1>4, <2>1, <2>3, <2>4, SMT DEF Byte
<1>5. CASE by \notin (65..90) \cup (97..122)
  <2>1. by \notin 65..90 /\ by \notin 97..122
    BY <1>5
  <2>2. by \notin (65..77) \cup (97..109) /\ by \notin (78..90) \cup (110..122)
    BY <1>5, SMT DEF Byte
  <2>3. rot13_encode(by) = IF by = 0 THEN 10 ELSE by
    BY <2>1 DEF rot13_encode
  <2>4. Rot13(by) = IF by = 0 THEN 10 ELSE by
    BY <2>2 DEF Rot13
  <2>. QED BY <2>3, <2>4, SMT DEF Byte
<1>6. by \in 65..77 \/ by \in 78..90 \/ by \in 97..109 \/ by \in 110..122
      \/ by \notin (65..90) \cup (97..122)
  BY SMT DEF Byte
<1>. QED BY <1>1, <1>2, <1>3, <1>4, <1>5, <1>6

LEMMA EncodedIs ==
    ASSUME NEW b \in Seq(Byte)
    PROVE  /\ Encoded(b) \in Seq(Byte) /\ Len(Encoded(b)) = Len(b)
           /\ \A i \in 1..Len(b) : Encoded(b)[i] = Rot13(b[i])
<1>1. DOMAIN b = 1..Len(b) /\ Len(b) \in Nat /\ \A i \in 1..Len(b) : b[i] \in Byte
  BY LenProperties, ElementOfSeq
<1>2. \A i \in 1..Len(b) : Rot13(b[i]) \in Byte
  BY <1>1, RotationIs
<1>3. Encoded(b) = [i \in 1..Len(b) |-> Rot13(b[i])]
  BY <1>1 DEF Encoded
<1> DEFINE c == Encoded(b)
<1>4. c \in [1..Len(b) -> Byte] /\ \A i \in 1..Len(b) : c[i] = Rot13(b[i])
  BY <1>2, <1>3
<1> HIDE DEF c
<1>5. c \in Seq(Byte) /\ Len(c) = Len(b)
  BY <1>1, <1>4, SeqDef, LenProperties
<1>. QED BY <1>4, <1>5 DEF c

LEMMA EncodedAppend ==
    ASSUME NEW b \in Seq(Byte), NEW by \in Byte
    PROVE  Encoded(Append(b, by)) = Append(Encoded(b), Rot13(by))
<1> DEFINE c == Append(b, by)
           e == Encoded(b)
           f == Encoded(c)
           n == Len(b)
<1>1. c \in Seq(Byte) /\ n \in Nat /\ Len(c) = n + 1 /\ c[n + 1] = by /\ \A i \in 1..n : c[i] = b[i]
  BY AppendProperties, LenProperties
<1>2. e \in Seq(Byte) /\ Len(e) = n /\ \A i \in 1..n : e[i] = Rot13(b[i])
  BY EncodedIs
<1> HIDE DEF c
<1>3. f \in Seq(Byte) /\ Len(f) = n + 1 /\ \A i \in 1..(n + 1) : f[i] = Rot13(c[i])
  BY <1>1, EncodedIs
<1>4. Rot13(by) \in Byte
  BY RotationIs
<1> HIDE DEF e, f, n
<1>5. Append(e, Rot13(by)) \in Seq(Byte) /\ Len(Append(e, Rot13(by))) = n + 1
      /\ Append(e, Rot13(by))[n + 1] = Rot13(by)
      /\ \A i \in 1..n : Append(e, Rot13(by))[i] = e[i]
  BY <1>2, <1>4, AppendProperties
<1>6. \A i \in 1..(n + 1) : i \in 1..n \/ i = n + 1
  BY <1>1
<1>7. \A i \in 1..(n + 1) : f[i] = Append(e, Rot13(by))[i]
  BY <1>1, <1>2, <1>3, <1>5, <1>6
<1>8. f = Append(e, Rot13(by))
  BY <1>1, <1>3, <1>5, <1>7, SeqEqual
<1>. QED BY <1>8 DEF c, e, f

LEMMA EncodedTail ==
    ASSUME NEW b \in Seq(Byte), b # <<>>
    PROVE  /\ Encoded(b) # <<>> /\ Head(Encoded(b)) = Rot13(Head(b))
           /\ Encoded(Tail(b)) = Tail(Encoded(b))
<1> DEFINE c == Tail(b)
           e == Encoded(b)
           f == Encoded(c)
           g == Tail(e)
           n == Len(b)
<1>1. /\ c \in Seq(Byte) /\ n \in Nat /\ n >= 1 /\ Len(c) = n - 1 /\ Head(b) = b[1]
      /\ \A i \in 1..(n - 1) : c[i] = b[i + 1]
  BY HeadTailProperties, LenProperties, EmptySeq
<1>2. e \in Seq(Byte) /\ Len(e) = n /\ \A i \in 1..n : e[i] = Rot13(b[i])
  BY EncodedIs
<1> HIDE DEF c
<1>3. f \in Seq(Byte) /\ Len(f) = n - 1 /\ \A i \in 1..(n - 1) : f[i] = Rot13(c[i])
  BY <1>1, EncodedIs
<1> HIDE DEF e, f, n
<1>4. e # <<>>
  BY <1>1, <1>2, EmptySeq
<1>5. g \in Seq(Byte) /\ Len(g) = n - 1 /\ Head(e) = e[1] /\ \A i \in 1..(n - 1) : g[i] = e[i + 1]
  BY <1>2, <1>4, HeadTailProperties
<1> HIDE DEF g
<1>6. \A i \in 1..(n - 1) : i + 1 \in 1..n
  BY <1>1
<1>7. \A i \in 1..(n - 1) : f[i] = g[i]
  BY <1>1, <1>2, <1>3, <1>5, <1>6
<1>8. f = g
  BY <1>1, <1>3, <1>5, <1>7, SeqEqual
<1>9. 1 \in 1..n
  BY <1>1
<1>. QED BY <1>1, <1>2, <1>4, <1>5, <1>8, <1>9 DEF c, e, f, g

\* "back" and "there" are on their way to and from the terminal, which waits
\* for what "waits" is encoded to.
Echoed(back, there, waits) == back \o Encoded(there) = Encoded(waits)

LEMMA EchoTyped ==
    ASSUME NEW b \in Seq(Byte), NEW t \in Seq(Byte), NEW u \in Seq(Byte), NEW by \in Byte,
           Echoed(b, t, u)
    PROVE  Echoed(b, Append(t, by), Append(u, by))
<1> DEFINE e == Encoded(t)
           r == Rot13(by)
<1>1. e \in Seq(Byte) /\ r \in Byte
  BY EncodedIs, RotationIs
<1>2. Encoded(Append(t, by)) = Append(e, r) /\ Encoded(Append(u, by)) = Append(b \o e, r)
  BY EncodedAppend DEF Echoed
<1> HIDE DEF e, r
<1>3. b \o Append(e, r) = Append(b \o e, r)
  BY <1>1, SMT
<1>. QED BY <1>2, <1>3 DEF Echoed

LEMMA EchoSent ==
    ASSUME NEW b \in Seq(Byte), NEW t \in Seq(Byte), NEW u \in Seq(Byte), t # <<>>, Echoed(b, t, u)
    PROVE  Echoed(Append(b, Rot13(Head(t))), Tail(t), u)
<1> DEFINE e == Encoded(t)
           h == Head(e)
<1>1. e \in Seq(Byte) /\ e # <<>> /\ h = Rot13(Head(t)) /\ Encoded(Tail(t)) = Tail(e)
  BY EncodedIs, EncodedTail
<1>2. b \o e = Encoded(u)
  BY DEF Echoed
<1> HIDE DEF e
<1>3. Append(b, Head(e)) \o Tail(e) = b \o e
  BY <1>1, SMT
<1>. QED BY <1>1, <1>2, <1>3 DEF Echoed

LEMMA EchoRead ==
    ASSUME NEW b \in Seq(Byte), NEW t \in Seq(Byte), NEW u \in Seq(Byte), b # <<>>, Echoed(b, t, u)
    PROVE  u # <<>> /\ Echoed(Tail(b), t, Tail(u))
<1> DEFINE e == Encoded(t)
           f == Encoded(u)
<1>1. e \in Seq(Byte) /\ f \in Seq(Byte) /\ b \o e = f /\ Len(f) = Len(u)
  BY EncodedIs DEF Echoed
<1> HIDE DEF e, f
<1>2. Tail(b) \o e = Tail(b \o e) /\ Len(b \o e) # 0
  <2> DEFINE c == Tail(b)
             l == c \o e
             w == b \o e
             r == Tail(w)
             m == Len(b)
             n == Len(e)
  <2>1. /\ m \in Nat /\ m >= 1 /\ n \in Nat /\ c \in Seq(Byte) /\ Len(c) = m - 1
        /\ \A i \in 1..(m - 1) : c[i] = b[i + 1]
    BY <1>1, HeadTailProperties, LenProperties, EmptySeq
  <2>2. /\ w \in Seq(Byte) /\ Len(w) = m + n
        /\ \A i \in 1..(m + n) : w[i] = IF i <= m THEN b[i] ELSE e[i - m]
    BY <1>1, ConcatProperties
  <2> HIDE DEF w, c
  <2>3. w # <<>>
    BY <2>1, <2>2, EmptySeq
  <2>4. r \in Seq(Byte) /\ Len(r) = m + n - 1 /\ \A i \in 1..(m + n - 1) : r[i] = w[i + 1]
    BY <2>2, <2>3, HeadTailProperties
  <2>5. /\ l \in Seq(Byte) /\ Len(l) = m - 1 + n
        /\ \A i \in 1..(m - 1 + n) : l[i] = IF i <= m - 1 THEN c[i] ELSE e[i - (m - 1)]
    <3>1. /\ l \in Seq(Byte) /\ Len(l) = Len(c) + Len(e)
          /\ \A i \in 1..(Len(c) + Len(e)) : l[i] = IF i <= Len(c) THEN c[i] ELSE e[i - Len(c)]
      <4>1. c \in Seq(Byte) /\ e \in Seq(Byte)
        BY <1>1, <2>1
      <4>. QED BY <4>1, ConcatProperties
    <3> HIDE DEF l
    <3>. QED BY <2>1, <3>1
  <2> HIDE DEF l, r, m, n
  <2>6. \A i \in 1..(m + n - 1) : l[i] = r[i]
    <3>1. TAKE i \in 1..(m + n - 1)
    <3>2. i + 1 \in 1..(m + n) /\ i \in 1..(m - 1 + n)
      BY <2>1
    <3>3. r[i] = IF i + 1 <= m THEN b[i + 1] ELSE e[(i + 1) - m]
      BY <2>2, <2>4, <3>2
    <3>4. l[i] = IF i <= m - 1 THEN c[i] ELSE e[i - (m - 1)]
      BY <2>5, <3>2
    <3>5. i + 1 <= m <=> i <= m - 1
      BY <2>1
    <3>6. (i + 1) - m = i - (m - 1)
      BY <2>1
    <3>7. i <= m - 1 => c[i] = b[i + 1]
      BY <2>1
    <3>. QED BY <3>3, <3>4, <3>5, <3>6, <3>7
  <2>7. l = r
    BY <2>1, <2>4, <2>5, <2>6, SeqEqual
  <2>. QED BY <2>1, <2>2, <2>7, SMTT(30) DEF w, c, l, r
<1>3. u # <<>>
  BY <1>1, <1>2, EmptySeq
<1>4. Encoded(Tail(u)) = Tail(f)
  BY <1>3, EncodedTail DEF f
<1>. QED BY <1>1, <1>2, <1>3, <1>4 DEF Echoed, e

-------------------------------------------------------------------------------
(***************************************************************************)
(* Types, of what reads.                                                   *)
(***************************************************************************)
LEMMA EchoInOrderIs ==
    /\ EchoInOrder <=>
          (alive => Echoed(Typed(wire["terminal"]), Typed(wire["server"]), unechoed))
    /\ EchoInOrder' <=>
          (alive' => Echoed(Typed(wire'["terminal"]), Typed(wire'["server"]), unechoed'))
BY Zenon DEF EchoInOrder, Echoed

LEMMA TerminalReadsType ==
    ASSUME TypeOK, EchoInOrder, terminal_reads
    PROVE  TypeOK'
<1>1. OptionsType /\ SocketType /\ LeftType /\ ListenersType /\ unechoed \in Seq(Byte)
  BY TypeParts
<1>2. "terminal" \in Ends /\ "server" \in Ends
  BY DEF Ends
<1> DEFINE elem == Head(wire["terminal"])
<1>3. alive /\ wire["terminal"] # <<>> /\ UNCHANGED <<socket, listeners>>
  BY DEF terminal_reads
<1>4. wire["terminal"] \in Seq(element) /\ elem \in element
  BY <1>1, <1>2, <1>3, ReadOne DEF OptionsType
<1>5. OptionsType' /\ Len(wire'["server"]) >= Len(wire["server"]) /\ unechoed' \in Seq(Byte)
  <2>1. CASE negotiate("terminal", elem) /\ UNCHANGED unechoed
    BY <1>1, <1>2, <1>3, <2>1, NegotiateType
  <2>2. CASE /\ elem.kind = "subnegotiation"
             /\ read_and_write("terminal",
                    IF active("terminal", elem.of)
                    THEN <<subnegotiation(elem.of, terminal_answer)>> ELSE <<>>)
             /\ UNCHANGED <<state_, unechoed>>
    <3> DEFINE z == IF active("terminal", elem.of)
                    THEN <<subnegotiation(elem.of, terminal_answer)>> ELSE <<>>
    <3>1. elem.of \in Options
      BY <1>4, <2>2, ElementIs
    <3>2. <<subnegotiation(elem.of, terminal_answer)>> \in Seq(Of(elem.of))
      BY <3>1, Contents, SubnegotiationOf
    <3>3. z \in Seq(element)
      BY <3>1, <3>2, SaidType
    <3>4. read_and_write("terminal", z)
      BY <2>2
    <3> HIDE DEF z
    <3>5. wire' \in [Ends -> Seq(element)] /\ Len(wire'["server"]) >= Len(wire["server"])
      BY <1>1, <1>2, <1>3, <3>3, <3>4, Reads DEF OptionsType
    <3>. QED BY <1>1, <2>2, <3>5 DEF OptionsType
  <2>3. CASE /\ elem.kind = "text"
             /\ read_and_write("terminal", <<>>)
             /\ unechoed' = Tail(unechoed)
             /\ UNCHANGED state_
    <3>1. elem \in typing
      BY <1>4, <2>3, ElementIs
    <3>2. Typed(wire["terminal"]) # <<>>
      BY <1>3, <1>4, <3>1, ReadOne
    <3>3. Typed(wire["terminal"]) \in Seq(Byte) /\ Typed(wire["server"]) \in Seq(Byte)
      BY <1>1, <1>2, TypedType DEF OptionsType
    <3>4. unechoed # <<>>
      BY <1>1, <1>3, <3>2, <3>3, EchoInOrderIs, EchoRead
    <3>5. unechoed' \in Seq(Byte)
      BY <1>1, <2>3, <3>4, HeadTailProperties
    <3> DEFINE none == <<>>
    <3>6. none \in Seq(element) /\ read_and_write("terminal", none)
      BY <2>3, EmptySeq
    <3> HIDE DEF none
    <3>7. wire' \in [Ends -> Seq(element)] /\ Len(wire'["server"]) >= Len(wire["server"])
      BY <1>1, <1>2, <1>3, <3>6, Reads DEF OptionsType
    <3>. QED BY <1>1, <2>3, <3>5, <3>7 DEF OptionsType
  <2>. QED BY <2>1, <2>2, <2>3 DEF terminal_reads
<1>6. LeftType'
  BY <1>1, <1>3, <1>5, LeftKept DEF socket
<1>7. SocketType' /\ ListenersType'
  BY <1>1, <1>3 DEF SocketType, ListenersType, socket, listeners
<1>. QED BY <1>5, <1>6, <1>7, TypeParts

Activated == <<"echo", "suppress_ga", "naws", "terminal_type">>

Asked == [i \in DOMAIN Activated |-> negotiation(local_positive("server", Activated[i]), Activated[i])]

\* What the server asks for as it accepts the connection.
LEMMA AskedIs ==
    ASSUME NEW w \in Seq(element)
    PROVE  /\ Asked \in Seq(element) /\ w \o Asked \in Seq(element)
           /\ Typed(w \o Asked) = Typed(w)
           /\ Only(w \o Asked, Naws) = Append(Only(w, Naws), do)
<1> DEFINE verb(o) == local_positive("server", o)
           n(o) == negotiation(verb(o), o)
           a == n("echo")
           b == n("suppress_ga")
           c == n("naws")
           d == n("terminal_type")
<1>1. "echo" \in Options /\ "suppress_ga" \in Options /\ "naws" \in Options /\ "terminal_type" \in Options
      /\ "server" \in Ends
  BY DEF Options, Ends
<1>2. Asked = <<a, b, c, d>>
  <2>1. Activated[1] = "echo" /\ Activated[2] = "suppress_ga" /\ Activated[3] = "naws"
        /\ Activated[4] = "terminal_type" /\ DOMAIN Activated = 1..4
    BY SMT DEF Activated
  <2>2. Asked = [i \in 1..4 |-> n(Activated[i])]
    BY <2>1 DEF Asked
  <2> HIDE DEF n
  <2>3. Asked \in Seq({a, b, c, d}) /\ Len(Asked) = 4
        /\ Asked[1] = a /\ Asked[2] = b /\ Asked[3] = c /\ Asked[4] = d
    <3>1. Asked \in [1..4 -> {a, b, c, d}]
      BY <2>1, <2>2
    <3>. QED BY <2>1, <2>2, <3>1
  <2> HIDE DEF a, b, c, d
  <2>. QED BY <2>3, SMT
<1>3. /\ a \in Of("echo") /\ b \in Of("suppress_ga") /\ c \in Of("naws")
      /\ d \in Of("terminal_type")
  BY <1>1, VerbsType, NegotiationOf
<1>4. c = do
  BY DEF do, local_positive, server_option
<1> HIDE DEF a, b, c, d
<1> DEFINE w1 == Append(w, a)
           w2 == Append(w1, b)
           w3 == Append(w2, c)
           w4 == Append(w3, d)
<1>5. a \in element /\ w1 \in Seq(element) /\ Typed(w1) = Typed(w) /\ Only(w1, Naws) = Only(w, Naws)
  BY <1>1, <1>3, SaidOne
<1> HIDE DEF w1
<1>6. b \in element /\ w2 \in Seq(element) /\ Typed(w2) = Typed(w) /\ Only(w2, Naws) = Only(w, Naws)
  BY <1>1, <1>3, <1>5, SaidOne
<1> HIDE DEF w2
<1>7. /\ c \in element /\ w3 \in Seq(element) /\ Typed(w3) = Typed(w)
      /\ Only(w3, Naws) = Append(Only(w, Naws), c)
  BY <1>1, <1>3, <1>6, SaidOne
<1> HIDE DEF w3
<1>8. /\ d \in element /\ w4 \in Seq(element) /\ Typed(w4) = Typed(w)
      /\ Only(w4, Naws) = Append(Only(w, Naws), c)
  BY <1>1, <1>3, <1>7, SaidOne
<1>9. w4 = w \o <<a, b, c, d>> /\ <<a, b, c, d>> \in Seq(element)
  BY <1>5, <1>6, <1>7, <1>8, SMT DEF w1, w2, w3
<1> HIDE DEF w4
<1>. QED BY <1>2, <1>4, <1>8, <1>9

LEMMA NewConnectionType ==
    ASSUME TypeOK, new_connection
    PROVE  /\ TypeOK'
           /\ state_'["server"] = [o \in Options |-> "activating"]
           /\ state_'["terminal"] = state_["terminal"]
           /\ wire'["server"] = wire["server"] /\ wire'["terminal"] = wire["terminal"] \o Asked
<1>1. OptionsType /\ SocketType /\ LeftType /\ ListenersType /\ unechoed \in Seq(Byte)
  BY TypeParts
<1>2. "terminal" \in Ends /\ "server" \in Ends /\ Other("server") = "terminal"
  BY DEF Ends, Other
<1>3. write("server", Asked)
  BY DEF new_connection, connection, Asked, Activated
<1>4. Asked \in Seq(element)
  BY <1>1, <1>2, AskedIs DEF OptionsType
<1>5. /\ wire' \in [Ends -> Seq(element)]
      /\ wire'["server"] = wire["server"] /\ wire'["terminal"] = wire["terminal"] \o Asked
  BY <1>1, <1>2, <1>3, <1>4, Writes DEF OptionsType, new_connection
<1>6. /\ state_' \in [Ends -> [Options -> internal_state]]
      /\ state_'["server"] = [o \in Options |-> "activating"]
      /\ state_'["terminal"] = state_["terminal"]
  <2>1. [o \in Options |-> "activating"] \in [Options -> internal_state]
    BY DEF internal_state
  <2>. QED BY <1>1, <1>2, <2>1 DEF OptionsType, new_connection, connection
<1>7. OptionsType' /\ LeftType'
  BY <1>1, <1>5, <1>6 DEF OptionsType, LeftType, new_connection
<1>8. SocketType' /\ ListenersType' /\ unechoed' \in Seq(Byte)
  BY <1>1 DEF new_connection, SocketType, ListenersType
<1>. QED BY <1>5, <1>6, <1>7, <1>8, TypeParts

LEMMA ReadArrivesType ==
    ASSUME TypeOK, NEW n \in 0..Len(wire["server"]), read_arrives(n)
    PROVE  TypeOK'
<1>1. OptionsType /\ SocketType /\ LeftType /\ ListenersType /\ unechoed \in Seq(Byte)
  BY TypeParts
<1>2. /\ left' = n /\ reading = "outstanding" /\ reading' = "handling"
      /\ UNCHANGED <<state_, alive, connections_, listeners, unechoed>>
  BY DEF read_arrives
<1>3. SocketType' /\ ListenersType' /\ unechoed' \in Seq(Byte)
  BY <1>1, <1>2 DEF SocketType, ListenersType, listeners
<1>4. OptionsType' /\ LeftType'
  <2>1. CASE n = 0
    <3>1. wire' = [wire EXCEPT !["server"] = <<>>]
      BY <2>1 DEF read_arrives
    <3>2. wire' \in [Ends -> Seq(element)] /\ wire'["server"] = <<>>
      BY <1>1, <3>1, EmptySeq DEF OptionsType, Ends
    <3>3. Len(wire'["server"]) = 0
      BY <3>2, EmptySeq
    <3>. QED BY <1>1, <1>2, <2>1, <3>2, <3>3 DEF OptionsType, LeftType
  <2>2. CASE n # 0
    <3>1. UNCHANGED wire
      BY <2>2 DEF read_arrives
    <3>. QED BY <1>1, <1>2, <3>1 DEF OptionsType, LeftType
  <2>. QED BY <2>1, <2>2
<1>. QED BY <1>3, <1>4, TypeParts

LEMMA WindowSizeRead ==
    ASSUME NEW content \in Seq(Byte), announced \in WindowSize
    PROVE  window_size_read(content) \in WindowSize
<1>1. CASE Len(content) = 4
  <2>1. content[1] \in Byte /\ content[2] \in Byte /\ content[3] \in Byte /\ content[4] \in Byte
    BY <1>1, ElementOfSeq, SMTT(30)
  <2>2. content[1] * 256 + content[2] \in window_dimension
        /\ content[3] * 256 + content[4] \in window_dimension
    BY <2>1, Joined
  <2>. QED BY <1>1, <2>2 DEF window_size_read, WindowSize, Size
<1>2. CASE Len(content) # 4
  BY <1>2 DEF window_size_read
<1>. QED BY <1>1, <1>2

LEMMA HandleType ==
    ASSUME TypeOK, handle
    PROVE  /\ TypeOK' /\ wire["server"] # <<>> /\ connections_ = "serving"
           /\ Head(wire["server"]) \in element
<1>1. OptionsType /\ SocketType /\ LeftType /\ ListenersType /\ unechoed \in Seq(Byte)
  BY TypeParts
<1>2. "terminal" \in Ends /\ "server" \in Ends
  BY DEF Ends
<1> DEFINE elem == Head(wire["server"])
<1>3. /\ reading = "handling" /\ left > 0 /\ left' = left - 1
      /\ UNCHANGED <<alive, connections_, reading, unechoed>>
  BY DEF handle
<1>4. wire["server"] \in Seq(element) /\ Len(wire["server"]) \in Nat /\ Len(wire["server"]) > 0
  BY <1>1, <1>2, <1>3, LenProperties DEF OptionsType, LeftType
<1>5. wire["server"] # <<>>
  BY <1>4, EmptySeq
<1>6. elem \in element
  BY <1>4, <1>5, ReadOne
<1>7. OptionsType' /\ Len(wire'["server"]) = Len(wire["server"]) - 1 /\ ListenersType'
  <2>1. CASE negotiate("server", elem) /\ UNCHANGED listeners
    <3>1. OptionsType' /\ Len(wire'["server"]) = Len(wire["server"]) - 1
      BY <1>1, <1>2, <1>5, <2>1, NegotiateType
    <3>. QED BY <1>1, <2>1, <3>1 DEF ListenersType, listeners
  <2>2. CASE handle_subnegotiation(elem)
    <3> DEFINE none == <<>>
    <3>1. none \in Seq(element) /\ read_and_write("server", none)
      BY <2>2, EmptySeq DEF handle_subnegotiation
    <3> HIDE DEF none
    <3>2. wire' \in [Ends -> Seq(element)] /\ Len(wire'["server"]) = Len(wire["server"]) - 1
      BY <1>1, <1>2, <1>5, <3>1, Reads DEF OptionsType
    <3>3. elem.content \in Seq(Byte)
      BY <1>6, <2>2, ElementIs DEF handle_subnegotiation
    <3>4. announced' \in WindowSize
      BY <1>1, <2>2, <3>3, WindowSizeRead DEF handle_subnegotiation, ListenersType
    <3>5. terminal_type_requests_' \in {0, 1} /\ UNCHANGED <<state_, window_size_>>
      BY <1>1, <2>2 DEF handle_subnegotiation, announce_terminal_type, ListenersType
    <3>. QED BY <1>1, <3>2, <3>4, <3>5 DEF OptionsType, ListenersType
  <2>3. CASE read_handler(elem)
    <3> DEFINE z == <<text(rot13_encode(elem.of))>>
    <3>1. elem.of \in Byte
      BY <1>6, <2>3, ElementIs DEF read_handler
    <3>2. rot13_encode(elem.of) \in Byte
      BY <3>1, RotationIs
    <3>3. z \in Seq(element) /\ read_and_write("server", z)
      BY <1>4, <2>3, <3>2, TypedOne DEF read_handler
    <3> HIDE DEF z
    <3>4. wire' \in [Ends -> Seq(element)] /\ Len(wire'["server"]) = Len(wire["server"]) - 1
      BY <1>1, <1>2, <1>5, <3>3, Reads DEF OptionsType
    <3>5. UNCHANGED <<state_, listeners>>
      BY <2>3 DEF read_handler
    <3>. QED BY <1>1, <3>4, <3>5 DEF OptionsType, ListenersType, listeners
  <2>. QED BY <2>1, <2>2, <2>3 DEF handle
<1>8. LeftType'
  BY <1>1, <1>3, <1>4, <1>7 DEF LeftType
<1>9. SocketType' /\ unechoed' \in Seq(Byte) /\ connections_ = "serving"
  BY <1>1, <1>3 DEF SocketType
<1>. QED BY <1>1, <1>5, <1>6, <1>7, <1>8, <1>9, TypeParts

LEMMA ReadCompleteType ==
    ASSUME TypeOK, read_complete
    PROVE  TypeOK'
<1>1. OptionsType /\ SocketType /\ LeftType /\ ListenersType /\ unechoed \in Seq(Byte)
  BY TypeParts
<1>2. UNCHANGED <<options, alive, left, listeners, unechoed>>
  BY DEF read_complete
<1>3. OptionsType' /\ LeftType' /\ ListenersType' /\ unechoed' \in Seq(Byte)
  BY <1>1, <1>2 DEF OptionsType, LeftType, ListenersType, options, listeners
<1>4. SocketType'
  BY <1>1, <1>2 DEF SocketType, read_complete, connection_death_handler
<1>. QED BY <1>3, <1>4, TypeParts

LEMMA CloseType ==
    ASSUME TypeOK, close
    PROVE  TypeOK'
<1>1. OptionsType /\ SocketType /\ LeftType /\ ListenersType /\ unechoed \in Seq(Byte)
  BY TypeParts
<1>2. UNCHANGED <<options, connections_, reading, left, listeners, unechoed>> /\ alive' = FALSE
  BY DEF close
<1>3. OptionsType' /\ LeftType' /\ ListenersType' /\ unechoed' \in Seq(Byte) /\ SocketType'
  BY <1>1, <1>2 DEF OptionsType, LeftType, ListenersType, SocketType, options, listeners
<1>. QED BY <1>3, TypeParts

-------------------------------------------------------------------------------
(***************************************************************************)
(* What is on its way.                                                     *)
(***************************************************************************)
LEMMA Says ==
    ASSUME OptionsType, alive, NEW e \in Ends, NEW o \in Options, NEW z \in Seq(Of(o)), write(e, z)
    PROVE  /\ \A d \in Ends : Typed(wire'[d]) = Typed(wire[d])
           /\ Only(wire'[e], Naws) = Only(wire[e], Naws)
           /\ Only(wire'[Other(e)], Naws) =
                 IF o = "naws" THEN Only(wire[Other(e)], Naws) \o z ELSE Only(wire[Other(e)], Naws)
<1>1. Other(e) \in Ends /\ \A d \in Ends : d = e \/ d = Other(e)
  BY DEF Ends, Other
<1>2. z \in Seq(element)
  BY SaidType
<1>3. wire'[e] = wire[e] /\ wire'[Other(e)] = wire[Other(e)] \o z
  BY <1>2, Writes DEF OptionsType
<1>4. wire[Other(e)] \in Seq(element)
  BY <1>1 DEF OptionsType
<1>5. /\ Typed(wire[Other(e)] \o z) = Typed(wire[Other(e)])
      /\ Only(wire[Other(e)] \o z, Naws) =
            IF o = "naws" THEN Only(wire[Other(e)], Naws) \o z ELSE Only(wire[Other(e)], Naws)
  BY <1>4, Said
<1>. QED BY <1>1, <1>3, <1>5

LEMMA Hears ==
    ASSUME OptionsType, alive, NEW e \in Ends, NEW o \in Options, NEW z \in Seq(Of(o)),
           wire[e] # <<>>, Head(wire[e]) \in Of(o), read_and_write(e, z)
    PROVE  /\ \A d \in Ends : Typed(wire'[d]) = Typed(wire[d])
           /\ o = "naws" => /\ Only(wire[e], Naws) # <<>>
                            /\ Head(Only(wire[e], Naws)) = Head(wire[e])
                            /\ Only(wire'[e], Naws) = Tail(Only(wire[e], Naws))
                            /\ Only(wire'[Other(e)], Naws) = Only(wire[Other(e)], Naws) \o z
           /\ o # "naws" => \A d \in Ends : Only(wire'[d], Naws) = Only(wire[d], Naws)
<1>1. Other(e) \in Ends /\ \A d \in Ends : d = e \/ d = Other(e)
  BY DEF Ends, Other
<1>2. z \in Seq(element)
  BY SaidType
<1>3. wire'[e] = Tail(wire[e]) /\ wire'[Other(e)] = wire[Other(e)] \o z
  BY <1>2, Reads DEF OptionsType
<1>4. wire[e] \in Seq(element) /\ wire[Other(e)] \in Seq(element)
  BY <1>1 DEF OptionsType
<1>5. /\ Typed(wire[Other(e)] \o z) = Typed(wire[Other(e)])
      /\ Only(wire[Other(e)] \o z, Naws) =
            IF o = "naws" THEN Only(wire[Other(e)], Naws) \o z ELSE Only(wire[Other(e)], Naws)
  BY <1>4, Said
<1> DEFINE x == Head(wire[e])
<1>6. x \notin typing /\ (x \in Naws <=> o = "naws")
  BY Elements
<1>7. /\ Typed(Tail(wire[e])) = Typed(wire[e])
      /\ x \in Naws => /\ Only(wire[e], Naws) # <<>> /\ Head(Only(wire[e], Naws)) = x
                       /\ Only(Tail(wire[e]), Naws) = Tail(Only(wire[e], Naws))
      /\ x \notin Naws => Only(Tail(wire[e]), Naws) = Only(wire[e], Naws)
  BY <1>4, <1>6, ReadOne
<1> HIDE DEF x
<1>. QED BY <1>1, <1>3, <1>5, <1>6, <1>7 DEF x

LEMMA EchoKept ==
    ASSUME EchoInOrder, alive' => alive, unechoed' = unechoed,
           \A d \in Ends : Typed(wire'[d]) = Typed(wire[d])
    PROVE  EchoInOrder'
BY EchoInOrderIs DEF Ends

LEMMA PhaseKept ==
    ASSUME SizeOnItsWay, alive' => alive, UNCHANGED <<window_size_, announced>>,
           connections_' = "none" => connections_ = "none",
           \A d \in Ends : /\ Only(wire'[d], Naws) = Only(wire[d], Naws)
                           /\ state_'[d]["naws"] = state_[d]["naws"]
    PROVE  SizeOnItsWay'
<1>1. CASE ~alive'
  BY <1>1 DEF SizeOnItsWay
<1>2. CASE alive'
  <2>1. NawsPhase /\ Unaccepted
    BY <1>2 DEF SizeOnItsWay
  <2>2. Unaccepted'
    BY <2>1 DEF Unaccepted, Ends
  <2>3. /\ Only(wire'["server"], Naws) = Only(wire["server"], Naws)
        /\ Only(wire'["terminal"], Naws) = Only(wire["terminal"], Naws)
        /\ state_'["server"]["naws"] = state_["server"]["naws"]
        /\ state_'["terminal"]["naws"] = state_["terminal"]["naws"]
    BY DEF Ends
  <2>4. NawsPhase'
    BY <2>1, <2>3 DEF NawsPhase, Ahead
  <2>. QED BY <2>2, <2>4 DEF SizeOnItsWay
<1>. QED BY <1>1, <1>2

\* What the phase is of, now and in the next state.
LEMMA PhaseIs ==
    /\ NawsPhase <=> Phase(state_["server"]["naws"], state_["terminal"]["naws"],
                           Only(wire["server"], Naws), Only(wire["terminal"], Naws),
                           window_size_, announced)
    /\ NawsPhase' <=> Phase(state_'["server"]["naws"], state_'["terminal"]["naws"],
                            Only(wire'["server"], Naws), Only(wire'["terminal"], Naws),
                            window_size_', announced')
BY Zenon DEF NawsPhase, Ahead

LEMMA AppendIs ==
    ASSUME NEW S, NEW w \in Seq(S), NEW x \in S
    PROVE  w \o <<x>> = Append(w, x)
BY SMT

\* A window that is reported, or that has no size.
LEMMA PhaseReports ==
    ASSUME NEW s, NEW w \in Seq(Naws), NEW v, NEW size, NEW told, NEW n \in WindowSize,
           Phase(s, "active", w, v, size, told)
    PROVE  Phase(s, "active", w \o report_window_size(n), v, n, told)
<1>1. CASE n = <<>>
  <2>1. w \o report_window_size(n) = w
    BY <1>1, ConcatEmptySeq DEF report_window_size
  <2>2. Phase(s, "active", w, v, n, told)
    BY <1>1 DEF Phase
  <2>. QED BY <2>1, <2>2
<1>2. CASE n # <<>>
  <2>1. n \in Size
    BY <1>2 DEF WindowSize
  <2> DEFINE x == Report(n)
  <2>2. x \in Naws /\ report_window_size(n) = <<x>> /\ Phase(s, "active", Append(w, x), v, n, told)
    BY <2>1, SizeReported, PhaseReport
  <2> HIDE DEF x
  <2>3. w \o <<x>> = Append(w, x)
    BY <2>2, SMT
  <2>. QED BY <2>2, <2>3
<1>. QED BY <1>1, <1>2

LEMMA VerbsOfNaws ==
    /\ local_positive("terminal", "naws") = "will" /\ local_negative("terminal", "naws") = "wont"
    /\ local_positive("server", "naws") = "do" /\ local_negative("server", "naws") = "dont"
    /\ remote_positive("terminal", "naws") = "do" /\ remote_positive("server", "naws") = "will"
BY DEF local_positive, local_negative, remote_positive, server_option, Other

-------------------------------------------------------------------------------
(***************************************************************************)
(* The steps of the terminal's program.                                    *)
(***************************************************************************)
LEMMA ActivateKeeps ==
    ASSUME Inductive, NEW o \in Options, activate(o)
    PROVE  SizeOnItsWay' /\ EchoInOrder'
<1>1. OptionsType /\ ListenersType /\ SizeOnItsWay /\ EchoInOrder
  BY TypeParts DEF Inductive
<1>2. "terminal" \in Ends /\ "server" \in Ends /\ Other("terminal") = "server"
  BY DEF Ends, Other
<1>3. alive /\ UNCHANGED <<socket, listeners, unechoed>>
  BY DEF activate, calls
<1>4. UNCHANGED <<alive, connections_, window_size_, announced, unechoed>>
  BY <1>3 DEF socket, listeners
<1>5. NawsPhase /\ Unaccepted
  BY <1>1, <1>3 DEF SizeOnItsWay
<1> DEFINE w == Only(wire["server"], Naws)
           v == Only(wire["terminal"], Naws)
           s == state_["server"]["naws"]
<1>6. w \in Seq(Naws)
  BY <1>1, <1>2, TypedType DEF OptionsType
<1>7. CASE /\ state_["terminal"][o] = "inactive"
           /\ become("terminal", o, "activating")
           /\ write("terminal", <<negotiation(local_positive("terminal", o), o)>>)
  <2> DEFINE z == <<negotiation(local_positive("terminal", o), o)>>
  <2>1. z \in Seq(Of(o))
    BY <1>2, VerbsType, NegotiationOf
  <2>2. write("terminal", z)
    BY <1>7
  <2>3. o = "naws" => z = <<will>>
    BY VerbsOfNaws DEF will
  <2> HIDE DEF z
  <2>4. /\ \A d \in Ends : Typed(wire'[d]) = Typed(wire[d])
        /\ Only(wire'["terminal"], Naws) = v
        /\ Only(wire'["server"], Naws) = IF o = "naws" THEN w \o z ELSE w
    BY <1>1, <1>2, <1>3, <2>1, <2>2, Says
  <2>5. EchoInOrder'
    BY <1>1, <1>3, <1>4, <2>4, EchoKept
  <2>6. /\ state_'["terminal"][o] = "activating" /\ state_'["server"] = state_["server"]
        /\ \A p \in Options : p # o => state_'["terminal"][p] = state_["terminal"][p]
    BY <1>1, <1>2, <1>7, Becomes DEF internal_state
  <2>7. CASE o = "naws"
    <3>1. Phase(s, "inactive", w, v, window_size_, announced)
      BY <1>5, <1>7, <2>7, PhaseIs
    <3>2. Phase(s, "activating", Append(w, will), v, window_size_, announced)
      BY <1>6, <3>1, PhaseActivate
    <3>3. w \o z = Append(w, will)
      <4>1. w \o <<will>> = Append(w, will)
        BY <1>6, NawsElements, AppendIs
      <4>. QED BY <2>3, <2>7, <4>1
    <3>4. NawsPhase'
      BY <1>4, <2>4, <2>6, <2>7, <3>2, <3>3, PhaseIs
    <3>5. Unaccepted'
      BY <1>4, <1>5, <2>6, <2>7 DEF Unaccepted
    <3>. QED BY <2>5, <3>4, <3>5 DEF SizeOnItsWay
  <2>8. CASE o # "naws"
    <3>1. \A d \in Ends : /\ Only(wire'[d], Naws) = Only(wire[d], Naws)
                          /\ state_'[d]["naws"] = state_[d]["naws"]
      BY <2>4, <2>6, <2>8, Elements DEF Ends
    <3>. QED BY <1>1, <1>3, <1>4, <2>5, <3>1, PhaseKept
  <2>. QED BY <2>7, <2>8
<1>8. CASE /\ active("terminal", o)
           /\ write("terminal", on_state_changed("terminal", o, "active"))
           /\ UNCHANGED state_
  <2> DEFINE z == on_state_changed("terminal", o, "active")
  <2>1. z \in Seq(Of(o)) /\ write("terminal", z)
    BY <1>1, <1>2, <1>8, SignalType DEF ListenersType
  <2>2. o = "naws" => z = report_window_size(window_size_)
    BY DEF on_state_changed
  <2> HIDE DEF z
  <2>3. /\ \A d \in Ends : Typed(wire'[d]) = Typed(wire[d])
        /\ Only(wire'["terminal"], Naws) = v
        /\ Only(wire'["server"], Naws) = IF o = "naws" THEN w \o z ELSE w
    BY <1>1, <1>2, <1>3, <2>1, Says
  <2>4. EchoInOrder'
    BY <1>1, <1>3, <1>4, <2>3, EchoKept
  <2>5. CASE o = "naws"
    <3>1. Phase(s, "active", w, v, window_size_, announced)
      BY <1>5, <1>8, <2>5, PhaseIs DEF active
    <3>2. Phase(s, "active", w \o report_window_size(window_size_), v, window_size_, announced)
      BY <1>1, <1>6, <3>1, PhaseReports DEF ListenersType
    <3>3. state_'["terminal"]["naws"] = "active"
      BY <1>8, <2>5 DEF active
    <3>4. NawsPhase'
      BY <1>4, <1>8, <2>2, <2>3, <2>5, <3>2, <3>3, PhaseIs
    <3>5. Unaccepted'
      BY <1>4, <1>5, <1>8 DEF Unaccepted
    <3>. QED BY <2>4, <3>4, <3>5 DEF SizeOnItsWay
  <2>6. CASE o # "naws"
    <3>1. \A d \in Ends : /\ Only(wire'[d], Naws) = Only(wire[d], Naws)
                          /\ state_'[d]["naws"] = state_[d]["naws"]
      BY <1>8, <2>3, <2>6 DEF Ends
    <3>. QED BY <1>1, <1>3, <1>4, <2>4, <3>1, PhaseKept
  <2>. QED BY <2>5, <2>6
<1>. QED BY <1>7, <1>8 DEF activate

LEMMA DeactivateKeeps ==
    ASSUME Inductive, NEW o \in Options, deactivate(o)
    PROVE  SizeOnItsWay' /\ EchoInOrder'
<1>1. OptionsType /\ ListenersType /\ SizeOnItsWay /\ EchoInOrder
  BY TypeParts DEF Inductive
<1>2. "terminal" \in Ends /\ "server" \in Ends /\ Other("terminal") = "server"
  BY DEF Ends, Other
<1>3. alive /\ UNCHANGED <<socket, listeners, unechoed>>
  BY DEF deactivate, calls
<1>4. UNCHANGED <<alive, connections_, window_size_, announced, unechoed>>
  BY <1>3 DEF socket, listeners
<1>5. NawsPhase /\ Unaccepted
  BY <1>1, <1>3 DEF SizeOnItsWay
<1> DEFINE w == Only(wire["server"], Naws)
           v == Only(wire["terminal"], Naws)
           s == state_["server"]["naws"]
           z == <<negotiation(local_negative("terminal", o), o)>>
<1>6. w \in Seq(Naws)
  BY <1>1, <1>2, TypedType DEF OptionsType
<1>7. z \in Seq(Of(o)) /\ write("terminal", z)
  BY <1>2, VerbsType, NegotiationOf DEF deactivate
<1>8. o = "naws" => z = <<wont>>
  BY VerbsOfNaws DEF wont
<1> HIDE DEF z
<1>9. /\ \A d \in Ends : Typed(wire'[d]) = Typed(wire[d])
      /\ Only(wire'["terminal"], Naws) = v
      /\ Only(wire'["server"], Naws) = IF o = "naws" THEN w \o z ELSE w
  BY <1>1, <1>2, <1>3, <1>7, Says
<1>10. EchoInOrder'
  BY <1>1, <1>3, <1>4, <1>9, EchoKept
<1>11. /\ state_'["terminal"][o] = "deactivating" /\ state_'["server"] = state_["server"]
       /\ \A p \in Options : p # o => state_'["terminal"][p] = state_["terminal"][p]
  BY <1>1, <1>2, Becomes DEF internal_state, deactivate
<1>12. CASE o = "naws"
  <2>1. Phase(s, "active", w, v, window_size_, announced)
    BY <1>5, <1>12, PhaseIs DEF deactivate, active
  <2>2. Phase(s, "deactivating", Append(w, wont), v, window_size_, announced)
    BY <1>6, <2>1, PhaseDeactivate
  <2>3. w \o z = Append(w, wont)
    <3>1. w \o <<wont>> = Append(w, wont)
      BY <1>6, NawsElements, AppendIs
    <3>. QED BY <1>8, <1>12, <3>1
  <2>4. NawsPhase'
    BY <1>4, <1>9, <1>11, <1>12, <2>2, <2>3, PhaseIs
  <2>5. Unaccepted'
    BY <1>4, <1>5, <1>12 DEF Unaccepted, deactivate, active
  <2>. QED BY <1>10, <2>4, <2>5 DEF SizeOnItsWay
<1>13. CASE o # "naws"
  <2>1. \A d \in Ends : /\ Only(wire'[d], Naws) = Only(wire[d], Naws)
                        /\ state_'[d]["naws"] = state_[d]["naws"]
    BY <1>9, <1>11, <1>13, Elements DEF Ends
  <2>. QED BY <1>1, <1>3, <1>4, <1>10, <2>1, PhaseKept
<1>. QED BY <1>12, <1>13

LEMMA SetWindowSizeKeeps ==
    ASSUME Inductive, NEW size \in Size, set_window_size(size)
    PROVE  SizeOnItsWay' /\ EchoInOrder'
<1>1. OptionsType /\ ListenersType /\ SizeOnItsWay /\ EchoInOrder
  BY TypeParts DEF Inductive
<1>2. "terminal" \in Ends /\ "server" \in Ends /\ Other("terminal") = "server"
      /\ "naws" \in Options /\ size \in WindowSize
  BY DEF Ends, Other, Options, WindowSize
<1>3. /\ alive /\ window_size_' = size
      /\ UNCHANGED <<state_, socket, announced, terminal_type_requests_, unechoed>>
  BY DEF set_window_size, calls
<1>4. UNCHANGED <<alive, connections_>>
  BY <1>3 DEF socket
<1>5. NawsPhase /\ Unaccepted
  BY <1>1, <1>3 DEF SizeOnItsWay
<1> DEFINE w == Only(wire["server"], Naws)
           v == Only(wire["terminal"], Naws)
           s == state_["server"]["naws"]
           t == state_["terminal"]["naws"]
           z == IF active("terminal", "naws") THEN report_window_size(size) ELSE <<>>
<1>6. w \in Seq(Naws)
  BY <1>1, <1>2, TypedType DEF OptionsType
<1>7. z \in Seq(Of("naws")) /\ write("terminal", z)
  <2>1. report_window_size(size) \in Seq(Of("naws"))
    BY <1>2, ReportType, Elements
  <2>. QED BY <2>1, EmptySeq DEF set_window_size
<1>8. z = IF t = "active" THEN report_window_size(size) ELSE <<>>
  BY DEF active
<1> HIDE DEF z
<1>9. /\ \A d \in Ends : Typed(wire'[d]) = Typed(wire[d])
      /\ Only(wire'["terminal"], Naws) = v /\ Only(wire'["server"], Naws) = w \o z
  BY <1>1, <1>2, <1>3, <1>7, Says
<1>10. EchoInOrder'
  BY <1>1, <1>3, <1>4, <1>9, EchoKept
<1>11. Phase(s, t, w, v, window_size_, announced)
  BY <1>5, PhaseIs
<1>12. Phase(s, t, w \o z, v, size, announced)
  <2>1. CASE t = "active"
    <3>1. Phase(s, "active", w, v, window_size_, announced)
      BY <1>11, <2>1
    <3>2. Phase(s, "active", w \o report_window_size(size), v, size, announced)
      BY <1>2, <1>6, <3>1, PhaseReports
    <3>. QED BY <1>8, <2>1, <3>2
  <2>2. CASE t # "active"
    <3>1. w \o z = w
      BY <1>6, <1>8, <2>2, ConcatEmptySeq
    <3>2. Phase(s, t, w, v, size, announced)
      BY <1>11, <2>2, PhaseSize
    <3>. QED BY <3>1, <3>2
  <2>. QED BY <2>1, <2>2
<1>13. NawsPhase'
  BY <1>3, <1>9, <1>12, PhaseIs
<1>14. Unaccepted'
  BY <1>3, <1>4, <1>5 DEF Unaccepted
<1>. QED BY <1>10, <1>13, <1>14 DEF SizeOnItsWay

LEMMA TypeKeyKeeps ==
    ASSUME Inductive, NEW by \in Byte, type_key(by)
    PROVE  SizeOnItsWay' /\ EchoInOrder'
<1>1. OptionsType /\ unechoed \in Seq(Byte) /\ SizeOnItsWay /\ EchoInOrder
  BY TypeParts DEF Inductive
<1>2. "terminal" \in Ends /\ "server" \in Ends /\ Other("terminal") = "server"
  BY DEF Ends, Other
<1>3. /\ alive /\ unechoed' = Append(unechoed, by) /\ write("terminal", <<text(by)>>)
      /\ UNCHANGED <<state_, socket, listeners>>
  BY DEF type_key, calls
<1>4. UNCHANGED <<alive, connections_, window_size_, announced>>
  BY <1>3 DEF socket, listeners
<1>5. wire["server"] \in Seq(element) /\ wire["terminal"] \in Seq(element)
  BY <1>1, <1>2 DEF OptionsType
<1>6. wire'["terminal"] = wire["terminal"] /\ wire'["server"] = wire["server"] \o <<text(by)>>
  <2> DEFINE z == <<text(by)>>
  <2>1. z \in Seq(element) /\ write("terminal", z)
    BY <1>3, <1>5, TypedOne
  <2> HIDE DEF z
  <2>2. wire'["terminal"] = wire["terminal"] /\ wire'["server"] = wire["server"] \o z
    BY <1>1, <1>2, <1>3, <2>1, Writes DEF OptionsType
  <2>. QED BY <2>2 DEF z
<1>7. /\ Typed(wire'["server"]) = Append(Typed(wire["server"]), by)
      /\ Only(wire'["server"], Naws) = Only(wire["server"], Naws)
  BY <1>5, <1>6, TypedOne
<1>8. Typed(wire["server"]) \in Seq(Byte) /\ Typed(wire["terminal"]) \in Seq(Byte)
  BY <1>5, TypedType
<1>9. EchoInOrder'
  BY <1>1, <1>3, <1>6, <1>7, <1>8, EchoTyped, EchoInOrderIs
<1>10. \A d \in Ends : /\ Only(wire'[d], Naws) = Only(wire[d], Naws)
                       /\ state_'[d]["naws"] = state_[d]["naws"]
  BY <1>3, <1>6, <1>7 DEF Ends
<1>. QED BY <1>1, <1>3, <1>4, <1>9, <1>10, PhaseKept

-------------------------------------------------------------------------------
(***************************************************************************)
(* The steps that read.                                                    *)
(***************************************************************************)
LEMMA NoSignal ==
    ASSUME NEW e, NEW o, NEW s, s # "active"
    PROVE  on_state_changed(e, o, s) = <<>>
BY DEF on_state_changed

\* What an end answers to the elements of NAWS that it can meet.
LEMMA TerminalReplies ==
    ASSUME window_size_ \in WindowSize, NEW t, t = state_["terminal"]["naws"]
    PROVE  /\ negotiated("terminal", do) = "active" /\ negotiated("terminal", dont) = "inactive"
           /\ t \in {"inactive", "activating"} =>
                 replies("terminal", do) =
                    (IF t = "inactive" THEN <<will>> ELSE <<>>) \o report_window_size(window_size_)
           /\ t = "deactivating" => replies("terminal", dont) = <<>>
<1>1. do.of = "naws" /\ dont.of = "naws" /\ do.verb = "do" /\ dont.verb = "dont"
  BY DEF do, dont, negotiation
<1>2. negotiated("terminal", do) = "active" /\ negotiated("terminal", dont) = "inactive"
  BY <1>1, VerbsOfNaws DEF negotiated
<1>3. ASSUME t \in {"inactive", "activating"}
      PROVE  replies("terminal", do) =
                (IF t = "inactive" THEN <<will>> ELSE <<>>) \o report_window_size(window_size_)
  <2>1. requesting("terminal", "naws") <=> t = "activating"
    BY <1>3 DEF requesting
  <2>2. on_state_changed("terminal", "naws", "active") = report_window_size(window_size_)
    BY DEF on_state_changed
  <2>3. t # "active"
    BY <1>3
  <2> DEFINE a == IF requesting("terminal", "naws") THEN <<>>
                  ELSE <<negotiation(local_positive("terminal", "naws"), "naws")>>
             b == IF t = "active" THEN <<>> ELSE on_state_changed("terminal", "naws", "active")
  <2>4. replies("terminal", do) = a \o b
    BY <1>1, <1>2 DEF replies
  <2>5. a = IF t = "inactive" THEN <<will>> ELSE <<>>
    BY <1>3, <2>1, VerbsOfNaws DEF will
  <2>6. b = report_window_size(window_size_)
    BY <2>2, <2>3
  <2> HIDE DEF a, b
  <2>. QED BY <2>4, <2>5, <2>6
<1>4. ASSUME t = "deactivating" PROVE replies("terminal", dont) = <<>>
  <2>1. requesting("terminal", "naws")
    BY <1>4 DEF requesting
  <2>2. on_state_changed("terminal", "naws", "inactive") = <<>>
    BY NoSignal
  <2> DEFINE a == IF t = "inactive" THEN <<>> ELSE on_state_changed("terminal", "naws", "inactive")
             b == IF requesting("terminal", "naws") THEN <<>>
                  ELSE <<negotiation(local_negative("terminal", "naws"), "naws")>>
  <2>3. replies("terminal", dont) = a \o b
    BY <1>1, <1>2 DEF replies
  <2>4. a = <<>> /\ b = <<>>
    BY <2>1, <2>2
  <2> HIDE DEF a, b
  <2>5. <<>> \o <<>> = <<>>
    BY SMT
  <2>. QED BY <2>3, <2>4, <2>5
<1>. QED BY <1>2, <1>3, <1>4

LEMMA ServerReplies ==
    ASSUME NEW s, s = state_["server"]["naws"]
    PROVE  /\ negotiated("server", will) = "active" /\ negotiated("server", wont) = "inactive"
           /\ s \in {"inactive", "activating"} =>
                 replies("server", will) = IF s = "inactive" THEN <<do>> ELSE <<>>
           /\ s = "active" => replies("server", wont) = <<dont>>
<1>1. will.of = "naws" /\ wont.of = "naws" /\ will.verb = "will" /\ wont.verb = "wont"
  BY DEF will, wont, negotiation
<1>2. negotiated("server", will) = "active" /\ negotiated("server", wont) = "inactive"
  BY <1>1, VerbsOfNaws DEF negotiated
<1>3. ASSUME s \in {"inactive", "activating"}
      PROVE  replies("server", will) = IF s = "inactive" THEN <<do>> ELSE <<>>
  <2>1. requesting("server", "naws") <=> s = "activating"
    BY <1>3 DEF requesting
  <2>2. on_state_changed("server", "naws", "active") = <<>>
    BY DEF on_state_changed
  <2> DEFINE a == IF requesting("server", "naws") THEN <<>>
                  ELSE <<negotiation(local_positive("server", "naws"), "naws")>>
             b == IF s = "active" THEN <<>> ELSE on_state_changed("server", "naws", "active")
  <2>3. replies("server", will) = a \o b
    BY <1>1, <1>2 DEF replies
  <2>4. a = IF s = "inactive" THEN <<do>> ELSE <<>>
    BY <1>3, <2>1, VerbsOfNaws DEF do
  <2>5. b = <<>>
    BY <2>2
  <2> HIDE DEF a, b
  <2>6. <<do>> \o <<>> = <<do>> /\ <<>> \o <<>> = <<>>
    BY SMT
  <2>. QED BY <2>3, <2>4, <2>5, <2>6
<1>4. ASSUME s = "active" PROVE replies("server", wont) = <<dont>>
  <2>1. ~requesting("server", "naws")
    BY <1>4 DEF requesting
  <2>2. on_state_changed("server", "naws", "inactive") = <<>>
    BY NoSignal
  <2> DEFINE a == IF s = "inactive" THEN <<>> ELSE on_state_changed("server", "naws", "inactive")
             b == IF requesting("server", "naws") THEN <<>>
                  ELSE <<negotiation(local_negative("server", "naws"), "naws")>>
  <2>3. replies("server", wont) = a \o b
    BY <1>1, <1>2 DEF replies
  <2>4. a = <<>> /\ b = <<dont>>
    BY <2>1, <2>2, VerbsOfNaws DEF dont
  <2> HIDE DEF a, b
  <2>5. <<>> \o <<dont>> = <<dont>>
    BY SMT
  <2>. QED BY <2>3, <2>4, <2>5
<1>. QED BY <1>2, <1>3, <1>4

\* The terminal's answer to what it can hear.
LEMMA TerminalNegotiates ==
    ASSUME Inductive, alive, wire["terminal"] # <<>>, negotiate("terminal", Head(wire["terminal"])),
           UNCHANGED <<socket, listeners>>
    PROVE  /\ SizeOnItsWay'
           /\ \A d \in Ends : Typed(wire'[d]) = Typed(wire[d])
<1>1. OptionsType /\ ListenersType /\ SizeOnItsWay
  BY TypeParts DEF Inductive
<1>2. "terminal" \in Ends /\ "server" \in Ends /\ Other("terminal") = "server"
  BY DEF Ends, Other
<1>3. UNCHANGED <<alive, connections_, window_size_, announced>>
  BY DEF socket, listeners
<1>4. NawsPhase /\ Unaccepted
  BY <1>1 DEF SizeOnItsWay
<1> DEFINE elem == Head(wire["terminal"])
           o == elem.of
           z == replies("terminal", elem)
           u == negotiated("terminal", elem)
           w == Only(wire["server"], Naws)
           v == Only(wire["terminal"], Naws)
           s == state_["server"]["naws"]
           t == state_["terminal"]["naws"]
           size == window_size_
<1>5. o \in Options /\ elem \in Of(o) /\ z \in Seq(Of(o)) /\ u \in internal_state
  BY <1>1, <1>2, NegotiateType
<1>6. read_and_write("terminal", z) /\ become("terminal", o, u)
  BY DEF negotiate
<1>7. w \in Seq(Naws) /\ v \in Seq(Naws)
  BY <1>1, <1>2, TypedType DEF OptionsType
<1> HIDE DEF z, u, o, elem
<1>8. /\ \A d \in Ends : Typed(wire'[d]) = Typed(wire[d])
      /\ o = "naws" => /\ v # <<>> /\ Head(v) = elem
                       /\ Only(wire'["terminal"], Naws) = Tail(v)
                       /\ Only(wire'["server"], Naws) = w \o z
      /\ o # "naws" => \A d \in Ends : Only(wire'[d], Naws) = Only(wire[d], Naws)
  BY <1>1, <1>2, <1>5, <1>6, Hears DEF elem
<1>9. /\ state_'["terminal"][o] = u /\ state_'["server"] = state_["server"]
      /\ \A p \in Options : p # o => state_'["terminal"][p] = state_["terminal"][p]
  BY <1>1, <1>2, <1>5, <1>6, Becomes
<1>10. CASE o # "naws"
  <2>1. \A d \in Ends : /\ Only(wire'[d], Naws) = Only(wire[d], Naws)
                        /\ state_'[d]["naws"] = state_[d]["naws"]
    BY <1>8, <1>9, <1>10, Elements DEF Ends
  <2>. QED BY <1>1, <1>3, <1>8, <2>1, PhaseKept
<1>11. CASE o = "naws"
  <2>1. Phase(s, t, w, v, size, announced)
    BY <1>4, PhaseIs
  <2>2. \/ v = <<do>> /\ t \in {"inactive", "activating"}
        \/ v = <<dont>> /\ t = "deactivating"
    BY <1>7, <1>8, <1>11, <2>1, TerminalHears
  <2>3. Phase(s, u, w \o z, Tail(v), size, announced)
    <3>1. CASE v = <<do>> /\ t \in {"inactive", "activating"}
      <4>1. Head(<<do>>) = do /\ Tail(<<do>>) = <<>>
        BY SMT
      <4>2. elem = do /\ Tail(v) = <<>>
        BY <1>8, <1>11, <3>1, <4>1
      <4> DEFINE a == IF t = "inactive" THEN <<will>> ELSE <<>>
                 r == report_window_size(size)
                 x == IF t = "inactive" THEN Append(w, will) ELSE w
      <4>3. u = "active" /\ z = a \o r
        BY <1>1, <3>1, <4>2, TerminalReplies DEF u, z, ListenersType
      <4>4. Phase(s, "active", x \o r, <<>>, size, announced)
        BY <1>1, <1>7, <2>1, <3>1, PhaseDo DEF ListenersType
      <4>5. a \in Seq(Naws) /\ r \in Seq(Naws)
        <5>1. <<will>> \in Seq(Naws)
          BY NawsElements, SMT
        <5>. QED BY <1>1, <5>1, EmptySeq, ReportType DEF ListenersType
      <4>6. w \o a = x
        <5>1. w \o <<will>> = Append(w, will) /\ w \o <<>> = w
          BY <1>7, NawsElements, AppendIs, ConcatEmptySeq
        <5>. QED BY <5>1
      <4> HIDE DEF a, r, x, w
      <4>7. w \o (a \o r) = (w \o a) \o r
        BY <1>7, <4>5, ConcatAssociative, SMTT(30)
      <4>. QED BY <4>2, <4>3, <4>4, <4>6, <4>7 DEF w
    <3>2. CASE v = <<dont>> /\ t = "deactivating"
      <4>1. Head(<<dont>>) = dont /\ Tail(<<dont>>) = <<>>
        BY SMT
      <4>2. elem = dont /\ Tail(v) = <<>>
        BY <1>8, <1>11, <3>2, <4>1
      <4>3. u = "inactive" /\ z = <<>>
        BY <1>1, <3>2, <4>2, TerminalReplies DEF u, z, ListenersType
      <4>4. Phase(s, "inactive", w, <<>>, size, announced)
        BY <2>1, <3>2, PhaseDont
      <4>5. w \o <<>> = w
        BY <1>7, ConcatEmptySeq
      <4>. QED BY <4>2, <4>3, <4>4, <4>5
    <3>. QED BY <2>2, <3>1, <3>2
  <2>4. NawsPhase'
    BY <1>3, <1>8, <1>9, <1>11, <2>3, PhaseIs
  <2>5. Unaccepted'
    <3>1. CASE connections_ = "none"
      <4>1. s = "inactive" /\ t \in {"inactive", "activating"}
        BY <1>4, <3>1 DEF Unaccepted
      <4>2. v = <<>>
        BY <2>1, <4>1 DEF Phase
      <4>. QED BY <1>8, <1>11, <4>2
    <3>2. CASE connections_ # "none"
      BY <1>3, <3>2 DEF Unaccepted
    <3>. QED BY <3>1, <3>2
  <2>. QED BY <1>8, <2>4, <2>5 DEF SizeOnItsWay
<1>. QED BY <1>10, <1>11

LEMMA TerminalReadsKeeps ==
    ASSUME Inductive, terminal_reads
    PROVE  SizeOnItsWay' /\ EchoInOrder'
<1>1. OptionsType /\ ListenersType /\ unechoed \in Seq(Byte) /\ SizeOnItsWay /\ EchoInOrder
  BY TypeParts DEF Inductive
<1>2. "terminal" \in Ends /\ "server" \in Ends /\ Other("terminal") = "server"
  BY DEF Ends, Other
<1>3. alive /\ wire["terminal"] # <<>> /\ UNCHANGED <<socket, listeners>>
  BY DEF terminal_reads
<1>4. UNCHANGED <<alive, connections_, window_size_, announced>>
  BY <1>3 DEF socket, listeners
<1> DEFINE elem == Head(wire["terminal"])
           v == Only(wire["terminal"], Naws)
<1>5. wire["terminal"] \in Seq(element) /\ wire["server"] \in Seq(element) /\ elem \in element
  BY <1>1, <1>2, <1>3, ReadOne DEF OptionsType
<1>6. CASE negotiate("terminal", elem) /\ UNCHANGED unechoed
  <2>1. SizeOnItsWay' /\ \A d \in Ends : Typed(wire'[d]) = Typed(wire[d])
    BY <1>3, <1>6, TerminalNegotiates
  <2>. QED BY <1>1, <1>4, <1>6, <2>1, EchoKept
<1>7. CASE /\ elem.kind = "subnegotiation"
           /\ read_and_write("terminal",
                  IF active("terminal", elem.of)
                  THEN <<subnegotiation(elem.of, terminal_answer)>> ELSE <<>>)
           /\ UNCHANGED <<state_, unechoed>>
  <2> DEFINE o == elem.of
             z == IF active("terminal", o) THEN <<subnegotiation(o, terminal_answer)>> ELSE <<>>
  <2>1. o \in Options /\ elem \in Of(o)
    BY <1>5, <1>7, ElementIs
  <2>2. z \in Seq(Of(o)) /\ read_and_write("terminal", z)
    <3>1. <<subnegotiation(o, terminal_answer)>> \in Seq(Of(o))
      BY <2>1, Contents, SubnegotiationOf
    <3>. QED BY <1>7, <3>1, EmptySeq
  <2> HIDE DEF z, o
  <2>3. /\ \A d \in Ends : Typed(wire'[d]) = Typed(wire[d])
        /\ o = "naws" => v # <<>> /\ Head(v) = elem
        /\ o # "naws" => \A d \in Ends : Only(wire'[d], Naws) = Only(wire[d], Naws)
    BY <1>1, <1>2, <1>3, <2>1, <2>2, Hears
  <2>4. o # "naws"
    <3>1. CASE o = "naws"
      <4>1. v \in Seq(Naws) /\ Only(wire["server"], Naws) \in Seq(Naws)
        BY <1>5, TypedType
      <4>2. NawsPhase
        BY <1>1, <1>3 DEF SizeOnItsWay
      <4>3. v = <<do>> \/ v = <<dont>>
        BY <2>3, <3>1, <4>1, <4>2, PhaseIs, TerminalHears
      <4>4. Head(<<do>>) = do /\ Head(<<dont>>) = dont
        BY SMT
      <4>. QED BY <1>7, <2>3, <3>1, <4>3, <4>4, NawsElements
    <3>. QED BY <3>1
  <2>5. \A d \in Ends : /\ Only(wire'[d], Naws) = Only(wire[d], Naws)
                        /\ state_'[d]["naws"] = state_[d]["naws"]
    BY <1>7, <2>3, <2>4
  <2>6. SizeOnItsWay'
    BY <1>1, <1>4, <2>5, PhaseKept
  <2>. QED BY <1>1, <1>4, <1>7, <2>3, <2>6, EchoKept
<1>8. CASE /\ elem.kind = "text"
           /\ read_and_write("terminal", <<>>)
           /\ unechoed' = Tail(unechoed)
           /\ UNCHANGED state_
  <2>1. elem \in typing
    BY <1>5, <1>8, ElementIs
  <2> DEFINE none == <<>>
  <2>2. none \in Seq(element) /\ read_and_write("terminal", none)
        /\ wire["server"] \o none = wire["server"]
    BY <1>5, <1>8, EmptySeq, ConcatEmptySeq
  <2> HIDE DEF none
  <2>3. wire'["terminal"] = Tail(wire["terminal"]) /\ wire'["server"] = wire["server"]
    BY <1>1, <1>2, <1>3, <2>2, Reads DEF OptionsType
  <2>4. /\ Typed(wire["terminal"]) # <<>>
        /\ Typed(Tail(wire["terminal"])) = Tail(Typed(wire["terminal"]))
        /\ Only(Tail(wire["terminal"]), Naws) = v
    BY <1>3, <1>5, <2>1, ReadOne
  <2>5. Typed(wire["terminal"]) \in Seq(Byte) /\ Typed(wire["server"]) \in Seq(Byte)
    BY <1>5, TypedType
  <2>6. EchoInOrder'
    BY <1>1, <1>3, <1>8, <2>3, <2>4, <2>5, EchoRead, EchoInOrderIs
  <2>7. \A d \in Ends : /\ Only(wire'[d], Naws) = Only(wire[d], Naws)
                        /\ state_'[d]["naws"] = state_[d]["naws"]
    BY <1>8, <2>3, <2>4 DEF Ends
  <2>. QED BY <1>1, <1>4, <2>6, <2>7, PhaseKept
<1>. QED BY <1>6, <1>7, <1>8 DEF terminal_reads

LEMMA NewConnectionKeeps ==
    ASSUME Inductive, new_connection
    PROVE  SizeOnItsWay' /\ EchoInOrder'
<1>1. TypeOK /\ OptionsType /\ SizeOnItsWay /\ EchoInOrder
  BY TypeParts DEF Inductive
<1>2. "terminal" \in Ends /\ "server" \in Ends /\ "naws" \in Options
  BY DEF Ends, Options
<1>3. /\ alive /\ connections_ = "none" /\ connections_' = "serving"
      /\ UNCHANGED <<alive, window_size_, announced, unechoed>>
  BY DEF new_connection
<1>4. NawsPhase /\ Unaccepted
  BY <1>1, <1>3 DEF SizeOnItsWay
<1>5. /\ state_'["server"]["naws"] = "activating"
      /\ state_'["terminal"] = state_["terminal"]
      /\ wire'["server"] = wire["server"] /\ wire'["terminal"] = wire["terminal"] \o Asked
  BY <1>1, <1>2, NewConnectionType
<1> DEFINE w == Only(wire["server"], Naws)
           v == Only(wire["terminal"], Naws)
           t == state_["terminal"]["naws"]
<1>6. wire["terminal"] \in Seq(element) /\ w \in Seq(Naws) /\ v \in Seq(Naws)
  BY <1>1, <1>2, TypedType DEF OptionsType
<1>7. /\ Typed(wire'["terminal"]) = Typed(wire["terminal"])
      /\ Only(wire'["terminal"], Naws) = Append(v, do)
  BY <1>5, <1>6, AskedIs
<1>8. EchoInOrder'
  <2>1. \A d \in Ends : Typed(wire'[d]) = Typed(wire[d])
    BY <1>5, <1>7 DEF Ends
  <2>. QED BY <1>1, <1>3, <2>1, EchoKept
<1>9. state_["server"]["naws"] = "inactive" /\ t \in {"inactive", "activating"}
  BY <1>3, <1>4 DEF Unaccepted
<1>10. Phase("inactive", t, w, v, window_size_, announced)
  BY <1>4, <1>9, PhaseIs
<1>11. Phase("activating", t, w, Append(v, do), window_size_, announced)
  BY <1>6, <1>9, <1>10, PhaseAccept
<1>12. NawsPhase'
  BY <1>3, <1>5, <1>7, <1>11, PhaseIs
<1>13. Unaccepted'
  BY <1>3 DEF Unaccepted
<1>. QED BY <1>8, <1>12, <1>13 DEF SizeOnItsWay

\* The server's answer to what it can hear.
LEMMA ServerNegotiates ==
    ASSUME Inductive, alive, wire["server"] # <<>>, negotiate("server", Head(wire["server"])),
           connections_' # "none", UNCHANGED <<alive, listeners>>
    PROVE  /\ SizeOnItsWay'
           /\ \A d \in Ends : Typed(wire'[d]) = Typed(wire[d])
<1>1. OptionsType /\ ListenersType /\ SizeOnItsWay
  BY TypeParts DEF Inductive
<1>2. "terminal" \in Ends /\ "server" \in Ends /\ Other("server") = "terminal"
  BY DEF Ends, Other
<1>3. UNCHANGED <<window_size_, announced>>
  BY DEF listeners
<1>4. NawsPhase /\ Unaccepted'
  BY <1>1 DEF SizeOnItsWay, Unaccepted
<1> DEFINE elem == Head(wire["server"])
           o == elem.of
           z == replies("server", elem)
           u == negotiated("server", elem)
           w == Only(wire["server"], Naws)
           v == Only(wire["terminal"], Naws)
           s == state_["server"]["naws"]
           t == state_["terminal"]["naws"]
           size == window_size_
<1>5. o \in Options /\ elem \in Of(o) /\ z \in Seq(Of(o)) /\ u \in internal_state
      /\ elem.kind = "negotiation"
  BY <1>1, <1>2, NegotiateType
<1>6. read_and_write("server", z) /\ become("server", o, u)
  BY DEF negotiate
<1>7. w \in Seq(Naws) /\ v \in Seq(Naws)
  BY <1>1, <1>2, TypedType DEF OptionsType
<1> HIDE DEF z, u, o, elem
<1>8. /\ \A d \in Ends : Typed(wire'[d]) = Typed(wire[d])
      /\ o = "naws" => /\ w # <<>> /\ Head(w) = elem
                       /\ Only(wire'["server"], Naws) = Tail(w)
                       /\ Only(wire'["terminal"], Naws) = v \o z
      /\ o # "naws" => \A d \in Ends : Only(wire'[d], Naws) = Only(wire[d], Naws)
  BY <1>1, <1>2, <1>5, <1>6, Hears DEF elem
<1>9. /\ state_'["server"][o] = u /\ state_'["terminal"] = state_["terminal"]
      /\ \A p \in Options : p # o => state_'["server"][p] = state_["server"][p]
  BY <1>1, <1>2, <1>5, <1>6, Becomes
<1>10. CASE o # "naws"
  <2>1. NawsPhase'
    <3>1. /\ Only(wire'["server"], Naws) = w /\ Only(wire'["terminal"], Naws) = v
          /\ state_'["server"]["naws"] = s
      BY <1>2, <1>8, <1>9, <1>10, Elements
    <3>. QED BY <1>3, <1>4, <1>9, <3>1, PhaseIs
  <2>. QED BY <1>4, <1>8, <2>1 DEF SizeOnItsWay
<1>11. CASE o = "naws"
  <2>1. Phase(s, t, w, v, size, announced)
    BY <1>4, PhaseIs
  <2>2. \/ elem = will /\ s \in {"inactive", "activating"}
        \/ elem = wont /\ s = "active"
    BY <1>5, <1>7, <1>8, <1>11, <2>1, ServerHears
  <2>3. Phase(u, t, Tail(w), v \o z, size, announced)
    <3>1. CASE elem = will /\ s \in {"inactive", "activating"}
      <4>1. u = "active" /\ z = IF s = "inactive" THEN <<do>> ELSE <<>>
        BY <3>1, ServerReplies DEF u, z
      <4>2. v \o <<do>> = Append(v, do) /\ v \o <<>> = v
        BY <1>7, NawsElements, AppendIs, ConcatEmptySeq
      <4>3. v \o z = IF s = "inactive" THEN Append(v, do) ELSE v
        BY <4>1, <4>2
      <4>4. size \in WindowSize
        BY <1>1 DEF ListenersType
      <4>5. Phase("active", t, Tail(w), IF s = "inactive" THEN Append(v, do) ELSE v, size, announced)
        BY <1>7, <1>8, <1>11, <2>1, <3>1, <4>4, PhaseWill
      <4>. QED BY <4>1, <4>3, <4>5
    <3>2. CASE elem = wont /\ s = "active"
      <4>1. u = "inactive" /\ z = <<dont>>
        BY <3>2, ServerReplies DEF u, z
      <4>2. v \o <<dont>> = Append(v, dont)
        BY <1>7, NawsElements, AppendIs
      <4>3. Phase("active", t, w, v, size, announced) /\ w # <<>> /\ Head(w) = wont
        BY <1>8, <1>11, <2>1, <3>2
      <4>4. Phase("inactive", t, Tail(w), Append(v, dont), size, announced)
        BY <1>7, <4>3, PhaseWont
      <4>. QED BY <4>1, <4>2, <4>4
    <3>. QED BY <2>2, <3>1, <3>2
  <2>4. NawsPhase'
    BY <1>3, <1>8, <1>9, <1>11, <2>3, PhaseIs
  <2>. QED BY <1>4, <1>8, <2>4 DEF SizeOnItsWay
<1>. QED BY <1>10, <1>11

\* A subnegotiation: of NAWS, the listener is told what is in it.
LEMMA ServerIsTold ==
    ASSUME Inductive, alive, wire["server"] # <<>>, handle_subnegotiation(Head(wire["server"])),
           connections_' # "none", UNCHANGED alive
    PROVE  /\ SizeOnItsWay'
           /\ \A d \in Ends : Typed(wire'[d]) = Typed(wire[d])
<1>1. OptionsType /\ ListenersType /\ SizeOnItsWay
  BY TypeParts DEF Inductive
<1>2. "terminal" \in Ends /\ "server" \in Ends /\ Other("server") = "terminal"
  BY DEF Ends, Other
<1> DEFINE elem == Head(wire["server"])
           o == elem.of
           z == <<>>
           w == Only(wire["server"], Naws)
           v == Only(wire["terminal"], Naws)
           s == state_["server"]["naws"]
           t == state_["terminal"]["naws"]
           size == window_size_
<1>3. UNCHANGED <<state_, window_size_>>
  BY DEF handle_subnegotiation
<1>4. NawsPhase /\ Unaccepted'
  BY <1>1 DEF SizeOnItsWay, Unaccepted
<1>5. elem.kind = "subnegotiation" /\ elem \in element
  BY <1>1, <1>2, ReadOne DEF OptionsType, handle_subnegotiation
<1>6. o \in Options /\ elem \in Of(o)
  BY <1>5, ElementIs
<1>7. z \in Seq(Of(o)) /\ read_and_write("server", z)
  BY EmptySeq DEF handle_subnegotiation
<1>8. w \in Seq(Naws) /\ v \in Seq(Naws)
  BY <1>1, <1>2, TypedType DEF OptionsType
<1>9. v \o z = v
  BY <1>8, ConcatEmptySeq
<1>10. announced' = IF o = "naws" /\ s = "active" THEN window_size_read(elem.content) ELSE announced
  BY DEF handle_subnegotiation, active
<1> HIDE DEF z, o, elem
<1>11. /\ \A d \in Ends : Typed(wire'[d]) = Typed(wire[d])
       /\ o = "naws" => /\ w # <<>> /\ Head(w) = elem
                        /\ Only(wire'["server"], Naws) = Tail(w)
                        /\ Only(wire'["terminal"], Naws) = v
       /\ o # "naws" => \A d \in Ends : Only(wire'[d], Naws) = Only(wire[d], Naws)
  BY <1>1, <1>2, <1>6, <1>7, <1>9, Hears DEF elem
<1>12. Phase(s, t, w, v, size, announced)
  BY <1>4, PhaseIs
<1>13. CASE o # "naws"
  <2>1. NawsPhase'
    BY <1>2, <1>3, <1>10, <1>11, <1>12, <1>13, PhaseIs
  <2>. QED BY <1>4, <1>11, <2>1 DEF SizeOnItsWay
<1>14. CASE o = "naws"
  <2>1. s = "active"
    <3>1. elem # will /\ elem # wont
      BY <1>5, NawsElements
    <3>. QED BY <1>8, <1>11, <1>12, <1>14, <3>1, ServerHears
  <2> DEFINE now == window_size_read(elem.content)
  <2>2. \A n \in Size : elem = Report(n) => now = n
    BY SizeReported
  <2>3. announced' = now
    BY <1>10, <1>14, <2>1
  <2> HIDE DEF now
  <2>4. Phase("active", t, Tail(w), v, size, now)
    <3>1. size \in WindowSize
      BY <1>1 DEF ListenersType
    <3>2. w # <<>> /\ Head(w).kind = "subnegotiation" /\ \A n \in Size : Head(w) = Report(n) => now = n
      BY <1>5, <1>11, <1>14, <2>2
    <3>3. Phase("active", t, w, v, size, announced)
      BY <1>12, <2>1
    <3>. QED BY <1>8, <3>1, <3>2, <3>3, PhaseTold
  <2>5. NawsPhase'
    BY <1>3, <1>11, <1>14, <2>1, <2>3, <2>4, PhaseIs
  <2>. QED BY <1>4, <1>11, <2>5 DEF SizeOnItsWay
<1>. QED BY <1>13, <1>14

LEMMA HandleKeeps ==
    ASSUME Inductive, handle
    PROVE  SizeOnItsWay' /\ EchoInOrder'
<1>1. TypeOK /\ OptionsType /\ unechoed \in Seq(Byte) /\ SizeOnItsWay /\ EchoInOrder
  BY TypeParts DEF Inductive
<1>2. "terminal" \in Ends /\ "server" \in Ends /\ Other("server") = "terminal"
  BY DEF Ends, Other
<1>3. UNCHANGED <<alive, connections_, reading, unechoed>>
  BY DEF handle
<1>4. wire["server"] # <<>> /\ connections_ = "serving" /\ Head(wire["server"]) \in element
  BY <1>1, HandleType
<1> DEFINE elem == Head(wire["server"])
<1>5. CASE ~alive
  BY <1>3, <1>5 DEF SizeOnItsWay, EchoInOrder
<1>6. CASE alive
  <2>1. CASE negotiate("server", elem) /\ UNCHANGED listeners
    <3>1. SizeOnItsWay' /\ \A d \in Ends : Typed(wire'[d]) = Typed(wire[d])
      BY <1>3, <1>4, <1>6, <2>1, ServerNegotiates
    <3>. QED BY <1>1, <1>3, <3>1, EchoKept
  <2>2. CASE handle_subnegotiation(elem)
    <3>1. SizeOnItsWay' /\ \A d \in Ends : Typed(wire'[d]) = Typed(wire[d])
      BY <1>3, <1>4, <1>6, <2>2, ServerIsTold
    <3>. QED BY <1>1, <1>3, <3>1, EchoKept
  <2>3. CASE read_handler(elem)
    <3> DEFINE by == elem.of
               r == Rot13(by)
               z == <<text(r)>>
    <3>1. elem \in typing /\ by \in Byte
      BY <1>4, <2>3, ElementIs DEF read_handler
    <3>2. r \in Byte /\ read_and_write("server", z) /\ UNCHANGED <<state_, listeners>>
      BY <2>3, <3>1, RotationIs DEF read_handler
    <3>3. wire["server"] \in Seq(element) /\ wire["terminal"] \in Seq(element)
      BY <1>1, <1>2 DEF OptionsType
    <3> HIDE DEF r
    <3>4. /\ z \in Seq(element)
          /\ Typed(wire["terminal"] \o z) = Append(Typed(wire["terminal"]), r)
          /\ Only(wire["terminal"] \o z, Naws) = Only(wire["terminal"], Naws)
      BY <3>2, <3>3, TypedOne
    <3> HIDE DEF z
    <3>5. wire'["server"] = Tail(wire["server"]) /\ wire'["terminal"] = wire["terminal"] \o z
      BY <1>1, <1>2, <1>4, <1>6, <3>2, <3>4, Reads DEF OptionsType
    <3>6. /\ Typed(wire["server"]) # <<>> /\ Head(Typed(wire["server"])) = by
          /\ Typed(Tail(wire["server"])) = Tail(Typed(wire["server"]))
          /\ Only(Tail(wire["server"]), Naws) = Only(wire["server"], Naws)
      BY <1>4, <3>1, <3>3, ReadOne
    <3>7. EchoInOrder'
      <4> DEFINE b == Typed(wire["terminal"])
                 h == Typed(wire["server"])
      <4>1. b \in Seq(Byte) /\ h \in Seq(Byte) /\ Echoed(b, h, unechoed)
        BY <1>1, <1>6, <3>3, TypedType, EchoInOrderIs
      <4>2. h # <<>> /\ Rot13(Head(h)) = r
        BY <3>6 DEF r
      <4> HIDE DEF b, h
      <4>3. Echoed(Append(b, r), Tail(h), unechoed)
        BY <1>1, <4>1, <4>2, EchoSent
      <4>. QED BY <1>3, <3>4, <3>5, <3>6, <4>3, EchoInOrderIs DEF b, h
    <3>8. \A d \in Ends : /\ Only(wire'[d], Naws) = Only(wire[d], Naws)
                          /\ state_'[d]["naws"] = state_[d]["naws"]
      BY <3>2, <3>4, <3>5, <3>6 DEF Ends
    <3>. QED BY <1>1, <1>3, <3>2, <3>7, <3>8, PhaseKept DEF listeners
  <2>. QED BY <2>1, <2>2, <2>3 DEF handle
<1>. QED BY <1>5, <1>6

LEMMA ReadArrivesKeeps ==
    ASSUME Inductive, NEW n \in 0..Len(wire["server"]), read_arrives(n)
    PROVE  SizeOnItsWay' /\ EchoInOrder'
<1>1. SizeOnItsWay /\ EchoInOrder
  BY DEF Inductive
<1>2. UNCHANGED <<state_, alive, connections_, listeners, unechoed>>
  BY DEF read_arrives
<1>3. CASE n = 0
  <2>1. ~alive'
    BY <1>2, <1>3 DEF read_arrives
  <2>. QED BY <2>1 DEF SizeOnItsWay, EchoInOrder
<1>4. CASE n # 0
  <2>1. UNCHANGED wire
    BY <1>4 DEF read_arrives
  <2>. QED BY <1>1, <1>2, <2>1, EchoKept, PhaseKept DEF listeners
<1>. QED BY <1>3, <1>4

LEMMA ReadCompleteKeeps ==
    ASSUME Inductive, read_complete
    PROVE  SizeOnItsWay' /\ EchoInOrder'
<1>1. SizeOnItsWay /\ EchoInOrder
  BY DEF Inductive
<1>2. UNCHANGED <<options, alive, left, listeners, unechoed>>
  BY DEF read_complete
<1>3. connections_' = "none" => connections_ = "none"
  BY DEF read_complete, connection_death_handler
<1>. QED BY <1>1, <1>2, <1>3, EchoKept, PhaseKept DEF options, listeners

LEMMA CloseKeeps ==
    ASSUME close
    PROVE  SizeOnItsWay' /\ EchoInOrder'
BY DEF close, SizeOnItsWay, EchoInOrder

-------------------------------------------------------------------------------
(***************************************************************************)
(* The theorems.                                                           *)
(***************************************************************************)
LEMMA InitInductive ==
    Init => Inductive
<1> SUFFICES ASSUME Init PROVE Inductive
  OBVIOUS
<1>1. "terminal" \in Ends /\ "server" \in Ends /\ "naws" \in Options
  BY DEF Ends, Options
<1> DEFINE none == <<>>
<1>2. /\ none \in Seq(element) /\ none \in Seq(Byte) /\ none \in WindowSize /\ Len(none) = 0
      /\ Only(none, Naws) = <<>> /\ Typed(none) = <<>>
  BY EmptySeq, ProjectEmpty, TypedIs DEF WindowSize, Only
<1>3. /\ wire = [e \in Ends |-> none] /\ unechoed = none /\ window_size_ = none /\ announced = none
      /\ state_ = [e \in Ends |-> [o \in Options |-> "inactive"]]
      /\ alive = TRUE /\ connections_ = "none" /\ reading = "no" /\ left = 0
      /\ terminal_type_requests_ = 0
  BY DEF Init
<1> HIDE DEF none
<1>4. OptionsType /\ SocketType /\ LeftType /\ ListenersType
  BY <1>1, <1>2, <1>3 DEF OptionsType, SocketType, LeftType, ListenersType, internal_state
<1>5. TypeOK
  BY <1>2, <1>3, <1>4, TypeParts
<1>6. wire["server"] = none /\ wire["terminal"] = none
      /\ state_["server"]["naws"] = "inactive" /\ state_["terminal"]["naws"] = "inactive"
  BY <1>1, <1>3
<1>7. NawsPhase /\ Unaccepted
  <2>1. Phase("inactive", "inactive", <<>>, <<>>, window_size_, announced)
    BY DEF Phase
  <2>. QED BY <1>2, <1>6, <2>1, PhaseIs DEF Unaccepted
<1>8. EchoInOrder
  <2>1. Encoded(none) \in Seq(Byte)
    BY <1>2, EncodedIs
  <2>2. <<>> \o Encoded(none) = Encoded(none)
    BY <2>1, ConcatEmptySeq
  <2>3. none = <<>>
    BY DEF none
  <2>4. Echoed(<<>>, <<>>, none)
    BY <2>2, <2>3 DEF Echoed
  <2>. QED BY <1>2, <1>3, <1>6, <2>4, EchoInOrderIs
<1>. QED BY <1>5, <1>7, <1>8 DEF Inductive, SizeOnItsWay

LEMMA NextInductive ==
    Inductive /\ [Next]_vars => Inductive'
<1> SUFFICES ASSUME Inductive, [Next]_vars PROVE Inductive'
  OBVIOUS
<1>1. TypeOK /\ SizeOnItsWay /\ EchoInOrder
  BY DEF Inductive
<1>2. ASSUME NEW o \in TerminalCalls, activate(o) PROVE Inductive'
  <2>1. o \in Options
    BY ConnectionAssumption DEF ConnectionAssumption
  <2>. QED BY <1>1, <1>2, <2>1, ActivateType, ActivateKeeps DEF Inductive
<1>3. ASSUME NEW o \in TerminalCalls, deactivate(o) PROVE Inductive'
  <2>1. o \in Options
    BY ConnectionAssumption DEF ConnectionAssumption
  <2>. QED BY <1>1, <1>3, <2>1, DeactivateType, DeactivateKeeps DEF Inductive
<1>4. ASSUME NEW size \in Sizes, set_window_size(size) PROVE Inductive'
  <2>1. size \in Size
    BY ConnectionAssumption DEF ConnectionAssumption, Size
  <2>. QED BY <1>1, <1>4, <2>1, SetWindowSizeType, SetWindowSizeKeeps DEF Inductive
<1>5. ASSUME NEW by \in Keys, type_key(by) PROVE Inductive'
  <2>1. by \in Byte
    BY ConnectionAssumption DEF ConnectionAssumption
  <2>. QED BY <1>1, <1>5, <2>1, TypeKeyType, TypeKeyKeeps DEF Inductive
<1>6. CASE terminal_reads
  BY <1>1, <1>6, TerminalReadsType, TerminalReadsKeeps DEF Inductive
<1>7. CASE new_connection
  BY <1>1, <1>7, NewConnectionType, NewConnectionKeeps DEF Inductive
<1>8. ASSUME NEW n \in 0..Len(wire["server"]), read_arrives(n) PROVE Inductive'
  BY <1>1, <1>8, ReadArrivesType, ReadArrivesKeeps DEF Inductive
<1>9. CASE handle
  BY <1>1, <1>9, HandleType, HandleKeeps DEF Inductive
<1>10. CASE read_complete
  BY <1>1, <1>10, ReadCompleteType, ReadCompleteKeeps DEF Inductive
<1>11. CASE close
  BY <1>1, <1>11, CloseType, CloseKeeps DEF Inductive
<1>12. CASE UNCHANGED vars
  <2>1. TypeOK'
    BY <1>1, <1>12, TypeParts
       DEF vars, OptionsType, SocketType, LeftType, ListenersType
  <2>. QED BY <1>1, <1>12, <2>1, EchoKept, PhaseKept DEF vars, Inductive
<1>. QED BY <1>2, <1>3, <1>4, <1>5, <1>6, <1>7, <1>8, <1>9, <1>10, <1>11, <1>12
         DEF Next, server_runs

\* What is under way of NAWS and of the echo is at all times what the phases
\* and the alphabet say: the inductive invariant of the connection.
THEOREM InductiveHolds ==
    Spec => []Inductive
BY InitInductive, NextInductive, PTL DEF Spec

\* The variables keep their types, and the connection has one read under way
\* exactly as long as the server has it in its list.
THEOREM TypeCorrect ==
    Spec => []TypeOK
<1>1. Inductive => TypeOK
  BY DEF Inductive
<1>. QED BY <1>1, InductiveHolds, PTL

\* Once nothing is on its way to the server, its listener has been told the
\* size that the terminal's window has, whenever that was set and however
\* often NAWS was turned off and on.
THEOREM SizeFollowsHolds ==
    Spec => []SizeFollows
<1>1. Inductive => SizeFollows
  <2> SUFFICES ASSUME Inductive, alive, active("server", "naws"), active("terminal", "naws"),
                      wire["server"] = <<>>, window_size_ # <<>>
               PROVE  announced = window_size_
    BY DEF SizeFollows
  <2>1. Only(<<>>, Naws) = <<>>
    BY ProjectEmpty DEF Only
  <2>2. Phase("active", "active", <<>>, Only(wire["terminal"], Naws), window_size_, announced)
    BY <2>1, PhaseIs DEF Inductive, SizeOnItsWay, active
  <2>. QED BY <2>2 DEF Phase, Reported
<1>. QED BY <1>1, InductiveHolds, PTL

\* Every byte that is typed comes back in rot13, once and in the order of
\* typing, as long as the connection is alive.
THEOREM EchoInOrderHolds ==
    Spec => []EchoInOrder
<1>1. Inductive => EchoInOrder
  BY DEF Inductive
<1>. QED BY <1>1, InductiveHolds, PTL
===============================================================================
