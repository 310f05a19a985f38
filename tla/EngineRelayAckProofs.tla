------------------------ MODULE EngineRelayAckProofs ------------------------
(***************************************************************************)
(* The line relay on one socket, with lines of at most one row and no      *)
(* batches: whatever the engine lets go of because of an ack is stored,    *)
(* for any processes, links and lines.  On a second socket, and with       *)
(* batches, the code does not keep this (the runs engine_relay_stale_ack   *)
(* and engine_relay_batch_ack).                                            *)
(***************************************************************************)
EXTENDS EngineRelayProofs

\* The scenario.  The registration burst stores nothing by itself.
OneSocketPlain ==
    /\ MaxSockets = 1
    /\ \A s \in Seqs : RowsAt[s] \in {0, 1} /\ BatchStart[s] = s
    /\ BurstEnd \in Seqs => RowsAt[BurstEnd] = 0

-----------------------------------------------------------------------------
(* The invariant.                                                          *)

Stored(s) == RowsOf(1, s) \subseteq StoredRows

\* Lines nobody has to store any more: the engine has let go of them, or their
\* rows are there.
Done == {s \in Seqs : s < up.buf.first \/ Stored(s)}
Received == LastSeq(up.buf)

\* Lines up to q were received, and are done.
Settled(D, n, q) == q <= n /\ 1 .. q \subseteq D

\* The line a process is storing.
Hand(p) == {s \in Seqs : p.todo # {} /\ s = p.at}

\* A process that reads frame t[i] has read line s before.
Before(t, i, s) == \E j \in 1 .. i - 1 : IsLine(t[j]) /\ t[j].seq = s

\* Of the lines up to n, frames t leave none out: what comes before a line of
\* theirs is in G, or earlier in t.
Whole(t, G, n) ==
    \A i \in DOMAIN t : IsLine(t[i]) =>
        /\ t[i].seq <= n
        /\ \A s \in 1 .. t[i].seq - 1 : s \in G \/ Before(t, i, s)

\* Nor will what is sent after line q.
Reaches(t, G, q) == \A s \in 1 .. q : s \in G \/ Before(t, Len(t) + 1, s)

\* Acks are of lines that are done.
AcksTrue(e, D, n) == \A i \in DOMAIN e : e[i].op = "ack" => Settled(D, n, e[i].seq)

\* So is the ack a process is about to send; of the line it has in hand, what
\* comes before is done.
Honest(p, D, n) ==
    /\ Settled(D, n, p.ackSeq)
    /\ p.todo # {} => p.todo = {1} /\ p.at <= n /\ 1 .. p.at - 1 \subseteq D

Safe(l) == Done \union Hand(apps[links[l].owner])

AckInv ==
    /\ \A l \in Links : AcksTrue(links[l].toEng, Done, Received)
    /\ \A l \in Links : links[l].appEnd => Whole(links[l].toApp, Safe(l), Received)
    /\ up.sink # 0 /\ links[up.sink].appEnd => Reaches(links[up.sink].toApp, Safe(up.sink), up.sent)
    /\ \A a \in Apps : Honest(apps[a], Done, Received)
    /\ Settled(Done, Received, marks[1])
    /\ \A s \in Seqs : <<1, s>> \in hist.acked => Stored(s)

-----------------------------------------------------------------------------
(* Frames on a link.                                                       *)

\* A line, or none.
LEMMA OrNone == \A s \in {0} \union Seqs : s \in Nat
<1>1. \A s \in Seqs : s \in Nat
  BY Bounds
<1> QED BY <1>1

\* A line frame is of a line.
LEMMA LineSeq == ASSUME NEW f \in ToApp, IsLine(f) PROVE f.seq \in Seqs /\ f.seq \in Nat
BY Bounds DEF ToApp, IsLine, Bare

\* The more is done, the less can be left out.
LEMMA WholeMore ==
    ASSUME NEW t \in Seq(ToApp), NEW G, NEW G2, G \subseteq G2,
           NEW n \in Nat, NEW n2 \in Nat, n <= n2, Whole(t, G, n)
    PROVE  Whole(t, G2, n2)
<1> SUFFICES ASSUME NEW i \in DOMAIN t, IsLine(t[i])
             PROVE  t[i].seq <= n2 /\ \A s \in 1 .. t[i].seq - 1 : s \in G2 \/ Before(t, i, s)
  BY DEF Whole
<1>1. t[i] \in ToApp
  BY ElementOfSeq, LenProperties
<1>2. t[i].seq \in Nat
  BY <1>1, LineSeq
<1>3. t[i].seq <= n /\ \A s \in 1 .. t[i].seq - 1 : s \in G \/ Before(t, i, s)
  BY DEF Whole
<1> QED BY <1>2, <1>3

LEMMA ReachesMore ==
    ASSUME NEW t, NEW G, NEW G2, G \subseteq G2,
           NEW q \in Nat, NEW q2 \in Nat, q2 <= q, Reaches(t, G, q)
    PROVE  Reaches(t, G2, q2)
<1>1. ASSUME NEW s \in 1 .. q2 PROVE s \in G2 \/ Before(t, Len(t) + 1, s)
  <2>1. s \in 1 .. q
    BY <1>1
  <2> QED BY <2>1 DEF Reaches
<1> QED BY <1>1 DEF Reaches

\* Every line of t2 is where t has it, and so is all before it; t2 has all of t.
NoNewLine(t, t2) ==
    \A i \in DOMAIN t2 : IsLine(t2[i]) => i \in DOMAIN t /\ \A j \in 1 .. i : t2[j] = t[j]
Longer(t, t2) == \A j \in DOMAIN t : j \in DOMAIN t2 /\ t2[j] = t[j]

LEMMA WholeQuiet ==
    ASSUME NEW t \in Seq(ToApp), NEW t2 \in Seq(ToApp), NEW G, NEW n, Whole(t, G, n),
           NoNewLine(t, t2)
    PROVE  Whole(t2, G, n)
<1> SUFFICES ASSUME NEW i \in DOMAIN t2, IsLine(t2[i])
             PROVE  t2[i].seq <= n /\ \A s \in 1 .. t2[i].seq - 1 : s \in G \/ Before(t2, i, s)
  BY DEF Whole
<1>1. i \in DOMAIN t /\ (\A j \in 1 .. i : t2[j] = t[j]) /\ i \in Nat \ {0}
  BY LenProperties DEF NoNewLine
<1>2. t2[i] = t[i]
  BY <1>1
<1>3. t[i].seq <= n /\ \A s \in 1 .. t[i].seq - 1 : s \in G \/ Before(t, i, s)
  BY <1>1, <1>2 DEF Whole
<1>4. ASSUME NEW s, Before(t, i, s) PROVE Before(t2, i, s)
  <2>1. PICK j \in 1 .. i - 1 : IsLine(t[j]) /\ t[j].seq = s
    BY <1>4 DEF Before
  <2>2. t2[j] = t[j]
    BY <1>1, <2>1
  <2> QED BY <2>1, <2>2 DEF Before
<1> QED BY <1>2, <1>3, <1>4

LEMMA ReachesLonger ==
    ASSUME NEW t \in Seq(ToApp), NEW t2 \in Seq(ToApp), NEW G, NEW q, Reaches(t, G, q),
           Longer(t, t2)
    PROVE  Reaches(t2, G, q)
<1>1. ASSUME NEW s, Before(t, Len(t) + 1, s) PROVE Before(t2, Len(t2) + 1, s)
  <2>1. PICK j \in 1 .. (Len(t) + 1) - 1 : IsLine(t[j]) /\ t[j].seq = s
    BY <1>1 DEF Before
  <2>2. j \in DOMAIN t
    BY <2>1, LenProperties
  <2>3. j \in DOMAIN t2 /\ t2[j] = t[j]
    BY <2>2 DEF Longer
  <2>4. j \in 1 .. (Len(t2) + 1) - 1
    BY <2>3, LenProperties
  <2> QED BY <2>1, <2>3, <2>4 DEF Before
<1> QED BY <1>1 DEF Reaches

\* Frames other than lines leave none out; nor does a prefix.
LEMMA QuietJoin ==
    ASSUME NEW t \in Seq(ToApp), NEW out \in Seq(ToApp), \A i \in DOMAIN out : ~IsLine(out[i])
    PROVE  NoNewLine(t, t \o out) /\ Longer(t, t \o out)
<1> DEFINE r == t \o out
           m == Len(t)
<1>1. /\ m \in Nat /\ Len(out) \in Nat /\ DOMAIN t = 1 .. m /\ DOMAIN out = 1 .. Len(out)
      /\ DOMAIN r = 1 .. m + Len(out)
      /\ \A i \in 1 .. m : r[i] = t[i]
      /\ \A i \in 1 .. m + Len(out) : i > m => i - m \in 1 .. Len(out) /\ r[i] = out[i - m]
  BY Joined
<1> HIDE DEF r, m
<1>2. ASSUME NEW i \in DOMAIN r, IsLine(r[i]) PROVE i \in DOMAIN t /\ \A j \in 1 .. i : r[j] = t[j]
  <2>1. ~(i > m)
    BY <1>1, <1>2
  <2>2. i \in 1 .. m
    BY <1>1, <2>1
  <2> QED BY <1>1, <2>2
<1>3. Longer(t, r)
  BY <1>1 DEF Longer
<1>4. NoNewLine(t, r)
  BY <1>2 DEF NoNewLine
<1> QED BY <1>3, <1>4 DEF r

LEMMA QuietPrefix ==
    ASSUME NEW t \in Seq(ToApp), NEW t2 \in PrefixesOf(t)
    PROVE  NoNewLine(t, t2)
<1>1. PICK k \in 0 .. Len(t) : t2 = SubSeq(t, 1, k)
  BY DEF PrefixesOf
<1>2. Len(t) \in Nat /\ DOMAIN t = 1 .. Len(t)
  BY LenProperties
<1>3. DOMAIN t2 = 1 .. k /\ \A j \in 1 .. k : t2[j] = t[j]
  BY <1>1, <1>2, SubSeqProperties
<1> QED BY <1>2, <1>3 DEF NoNewLine

\* What is written or read one after the other.
LEMMA QuietThen ==
    ASSUME NEW t \in Seq(ToApp), NEW t2 \in Seq(ToApp), NEW t3 \in Seq(ToApp)
    PROVE  /\ NoNewLine(t, t2) /\ NoNewLine(t2, t3) => NoNewLine(t, t3)
           /\ Longer(t, t2) /\ Longer(t2, t3) => Longer(t, t3)
<1>1. ASSUME NoNewLine(t, t2), NoNewLine(t2, t3), NEW i \in DOMAIN t3, IsLine(t3[i])
      PROVE  i \in DOMAIN t /\ \A j \in 1 .. i : t3[j] = t[j]
  <2>1. i \in DOMAIN t2 /\ (\A j \in 1 .. i : t3[j] = t2[j]) /\ i \in Nat \ {0}
    BY <1>1, LenProperties DEF NoNewLine
  <2>2. t3[i] = t2[i]
    BY <2>1
  <2>3. i \in DOMAIN t /\ \A j \in 1 .. i : t2[j] = t[j]
    BY <1>1, <2>1, <2>2 DEF NoNewLine
  <2> QED BY <2>1, <2>3
<1>2. NoNewLine(t, t2) /\ NoNewLine(t2, t3) => NoNewLine(t, t3)
  BY <1>1 DEF NoNewLine
<1> QED BY <1>2 DEF Longer

\* A frame is read: its line is in hand, or done.
LEMMA WholeRead ==
    ASSUME NEW t \in Seq(ToApp), t # <<>>, NEW G, NEW G2, NEW n, Whole(t, G, n),
           \A s \in G : s \in G2, IsLine(Head(t)) => Head(t).seq \in G2
    PROVE  /\ Whole(Tail(t), G2, n)
           /\ \A q : Reaches(t, G, q) => Reaches(Tail(t), G2, q)
           /\ IsLine(Head(t)) => Head(t).seq <= n /\ 1 .. Head(t).seq - 1 \subseteq G
<1> DEFINE r == Tail(t)
           m == Len(t)
<1>1. /\ r \in Seq(ToApp) /\ Len(r) = m - 1 /\ m \in Nat \ {0}
      /\ \A i \in 1 .. m - 1 : r[i] = t[i + 1]
  BY SessionRead
<1>2. DOMAIN r = 1 .. m - 1 /\ DOMAIN t = 1 .. m /\ Head(t) = t[1]
  BY <1>1, LenProperties
<1> HIDE DEF r, m
<1>3. ASSUME NEW i \in 1 .. m, NEW s, Before(t, i + 1, s) PROVE s \in G2 \/ Before(r, i, s)
  <2>1. PICK j \in 1 .. (i + 1) - 1 : IsLine(t[j]) /\ t[j].seq = s
    BY <1>3 DEF Before
  <2>2. CASE j = 1
    BY <1>2, <2>1, <2>2
  <2>3. CASE j # 1
    <3>1. j - 1 \in 1 .. i - 1 /\ j - 1 \in 1 .. m - 1 /\ (j - 1) + 1 = j
      BY <1>1, <2>1, <2>3
    <3>2. r[j - 1] = t[j]
      BY <1>1, <3>1
    <3> QED BY <2>1, <3>1, <3>2 DEF Before
  <2> QED BY <2>2, <2>3
<1>4. ASSUME NEW i \in DOMAIN r, IsLine(r[i])
      PROVE  r[i].seq <= n /\ \A s \in 1 .. r[i].seq - 1 : s \in G2 \/ Before(r, i, s)
  <2>1. i \in 1 .. m /\ i + 1 \in DOMAIN t /\ r[i] = t[i + 1]
    BY <1>1, <1>2, <1>4
  <2>2. t[i + 1].seq <= n /\ \A s \in 1 .. t[i + 1].seq - 1 : s \in G \/ Before(t, i + 1, s)
    BY <1>4, <2>1 DEF Whole
  <2> QED BY <1>3, <2>1, <2>2
<1>5. ASSUME NEW q, Reaches(t, G, q) PROVE Reaches(r, G2, q)
  <2>1. Len(r) + 1 = m /\ Len(t) + 1 = m + 1 /\ m \in 1 .. m
    BY <1>1 DEF m
  <2> QED BY <1>3, <1>5, <2>1 DEF Reaches
<1>6. ASSUME IsLine(Head(t)) PROVE Head(t).seq <= n /\ 1 .. Head(t).seq - 1 \subseteq G
  <2>1. 1 \in DOMAIN t
    BY <1>1, <1>2
  <2>2. t[1].seq <= n /\ \A s \in 1 .. t[1].seq - 1 : s \in G \/ Before(t, 1, s)
    BY <1>2, <1>6, <2>1 DEF Whole
  <2>3. \A s : ~Before(t, 1, s)
    BY DEF Before
  <2> QED BY <1>2, <2>2, <2>3
<1>7. Whole(r, G2, n)
  BY <1>4 DEF Whole
<1> QED BY <1>5, <1>6, <1>7 DEF r

\* What a flush sends to one that is owed the lines after `from', up to `to'.
Brings(out, G, from, to, n) ==
    /\ \A i \in DOMAIN out : IsLine(out[i]) =>
          /\ out[i].seq <= n
          /\ \A s \in 1 .. out[i].seq - 1 : s <= from \/ s \in G \/ Before(out, i, s)
    /\ \A s \in 1 .. to : s <= from \/ s \in G \/ Before(out, Len(out) + 1, s)

LEMMA WholeBrings ==
    ASSUME NEW t \in Seq(ToApp), NEW out \in Seq(ToApp), NEW G, NEW n, NEW from \in Nat,
           NEW to \in Nat, Whole(t, G, n), Reaches(t, G, from), Brings(out, G, from, to, n)
    PROVE  Whole(t \o out, G, n) /\ Reaches(t \o out, G, to)
<1> DEFINE r == t \o out
           m == Len(t)
           k == Len(out)
<1>1. /\ m \in Nat /\ k \in Nat /\ DOMAIN t = 1 .. m /\ DOMAIN out = 1 .. k
      /\ DOMAIN r = 1 .. m + k /\ r \in Seq(ToApp) /\ Len(r) = m + k
      /\ \A i \in 1 .. m : r[i] = t[i]
      /\ \A i \in 1 .. k : r[m + i] = out[i]
      /\ \A i \in 1 .. m + k : i > m => i - m \in 1 .. k /\ r[i] = out[i - m]
  BY Joined
<1>2. \A i \in DOMAIN r : IsLine(r[i]) => r[i].seq \in Nat
  BY <1>1, ElementOfSeq, LineSeq
<1>r. \A s \in 1 .. from : s \in G \/ Before(t, m + 1, s)
  BY DEF Reaches
<1>b. /\ \A i \in 1 .. k : IsLine(out[i]) =>
            /\ out[i].seq <= n
            /\ \A s \in 1 .. out[i].seq - 1 : s <= from \/ s \in G \/ Before(out, i, s)
      /\ \A s \in 1 .. to : s <= from \/ s \in G \/ Before(out, k + 1, s)
  BY <1>1 DEF Brings
<1>w. \A i \in 1 .. m : IsLine(t[i]) =>
            /\ t[i].seq <= n
            /\ \A s \in 1 .. t[i].seq - 1 : s \in G \/ Before(t, i, s)
  BY <1>1 DEF Whole
<1> HIDE DEF r, m, k
<1>3. ASSUME NEW i \in 1 .. m + 1, NEW s, Before(t, i, s), NEW j \in 1 .. m + k + 1, i <= j
      PROVE  Before(r, j, s)
  <2>1. PICK x \in 1 .. i - 1 : IsLine(t[x]) /\ t[x].seq = s
    BY <1>3 DEF Before
  <2>2. x \in 1 .. j - 1 /\ x \in 1 .. m
    BY <1>1, <1>3, <2>1
  <2> QED BY <1>1, <2>1, <2>2 DEF Before
<1>4. ASSUME NEW i \in 1 .. k + 1, NEW s, Before(out, i, s) PROVE Before(r, m + i, s)
  <2>1. PICK x \in 1 .. i - 1 : IsLine(out[x]) /\ out[x].seq = s
    BY <1>4 DEF Before
  <2>2. m + x \in 1 .. (m + i) - 1 /\ x \in 1 .. k
    BY <1>1, <2>1
  <2> QED BY <1>1, <2>1, <2>2 DEF Before
<1>5. ASSUME NEW s \in 1 .. from, NEW j \in 1 .. m + k + 1, m + 1 <= j
      PROVE  s \in G \/ Before(r, j, s)
  <2>1. m + 1 \in 1 .. m + 1
    BY <1>1
  <2> QED BY <1>3, <1>5, <1>r, <2>1
<1>6. ASSUME NEW i \in DOMAIN r, IsLine(r[i])
      PROVE  r[i].seq <= n /\ \A s \in 1 .. r[i].seq - 1 : s \in G \/ Before(r, i, s)
  <2>1. CASE i <= m
    <3>1. i \in 1 .. m /\ i \in 1 .. m + 1 /\ i \in 1 .. m + k + 1 /\ i <= i
      BY <1>1, <1>6, <2>1
    <3> QED BY <1>1, <1>3, <1>6, <1>w, <3>1
  <2>2. CASE i > m
    <3> DEFINE z == i - m
    <3>1. z \in 1 .. k /\ z \in 1 .. k + 1 /\ r[i] = out[z] /\ m + z = i
      BY <1>1, <1>6, <2>2
    <3>2. i \in 1 .. m + k + 1 /\ m + 1 <= i
      BY <1>1, <1>6, <2>2
    <3> HIDE DEF z
    <3>3. out[z].seq <= n /\ \A s \in 1 .. out[z].seq - 1 : s <= from \/ s \in G \/ Before(out, z, s)
      BY <1>6, <1>b, <3>1
    <3>4. ASSUME NEW s \in 1 .. r[i].seq - 1 PROVE s \in G \/ Before(r, i, s)
      <4>1. s \in 1 .. out[z].seq - 1
        BY <3>1
      <4>2. CASE s <= from
        <5>1. s \in 1 .. from
          BY <4>2
        <5> QED BY <1>5, <3>2, <5>1
      <4>3. CASE s \in G
        BY <4>3
      <4>4. CASE Before(out, z, s)
        <5>1. Before(r, m + z, s)
          BY <1>4, <3>1, <4>4
        <5> QED BY <3>1, <5>1
      <4> QED BY <3>3, <4>1, <4>2, <4>3, <4>4
    <3> QED BY <3>1, <3>3, <3>4
  <2>3. i \in Nat /\ m \in Nat
    BY <1>1, <1>6
  <2> QED BY <2>1, <2>2, <2>3
<1>7. ASSUME NEW s \in 1 .. to PROVE s \in G \/ Before(r, m + k + 1, s)
  <2>1. m + k + 1 \in 1 .. m + k + 1 /\ m + 1 <= m + k + 1 /\ k + 1 \in 1 .. k + 1
        /\ m + (k + 1) = m + k + 1
    BY <1>1
  <2>2. CASE s <= from
    <3>1. s \in 1 .. from
      BY <2>2
    <3> QED BY <1>5, <2>1, <3>1
  <2>3. CASE Before(out, k + 1, s)
    <3>1. Before(r, m + (k + 1), s)
      BY <1>4, <2>1, <2>3
    <3> QED BY <2>1, <3>1
  <2> QED BY <1>b, <2>2, <2>3
<1>8. Whole(r, G, n)
  BY <1>6 DEF Whole
<1>9. Reaches(r, G, to)
  BY <1>1, <1>7 DEF Reaches
<1> QED BY <1>8, <1>9 DEF r

\* That is what a flush does.
LEMMA FlowsBring ==
    ASSUME NEW u, NEW v, UpSound(u), UpSound(v), NEW out, Flows(u, v, out),
           NEW G, \A s \in Seqs : s < v.buf.first => s \in G
    PROVE  Brings(out, G, u.sent, v.sent, LastSeq(v.buf))
<1>1. /\ u.sent \in Nat /\ v.sent \in {0} \union Seqs /\ v.sent \in Nat /\ LastSeq(v.buf) \in Nat
      /\ u.buf.first = v.buf.first /\ v.sent <= LastSeq(v.buf)
  BY UpIs DEF Flows, UpSound
<1>2. \A s \in 1 .. v.sent : s \in Seqs
  BY <1>1, Bounds DEF Seqs
<1>3. ASSUME NEW i \in DOMAIN out, IsLine(out[i])
      PROVE  /\ out[i].seq <= LastSeq(v.buf)
             /\ \A s \in 1 .. out[i].seq - 1 : s <= u.sent \/ s \in G \/ Before(out, i, s)
  <2>1. /\ out[i].seq <= v.sent
        /\ \A s \in 1 .. out[i].seq - 1 :
              s <= u.sent \/ s < v.buf.first \/ \E m \in 1 .. i - 1 : IsLine(out[m]) /\ out[m].seq = s
    BY <1>1, <1>3 DEF Flows
  <2>2. out[i].seq \in Nat
    BY <1>3, ElementOfSeq, LineSeq DEF Flows
  <2>3. \A s \in 1 .. out[i].seq - 1 : s \in 1 .. v.sent
    BY <1>1, <2>1, <2>2
  <2>4. \A s \in 1 .. out[i].seq - 1 : s <= u.sent \/ s \in G \/ Before(out, i, s)
    BY <1>2, <2>1, <2>3 DEF Before
  <2> QED BY <1>1, <2>1, <2>2, <2>4
<1>4. ASSUME NEW s \in 1 .. v.sent PROVE s <= u.sent \/ s \in G \/ Before(out, Len(out) + 1, s)
  <2>1. s <= u.sent \/ s < v.buf.first \/ \E n \in DOMAIN out : IsLine(out[n]) /\ out[n].seq = s
    BY <1>1, <1>4 DEF Flows
  <2>2. CASE \E n \in DOMAIN out : IsLine(out[n]) /\ out[n].seq = s
    <3>1. PICK n \in DOMAIN out : IsLine(out[n]) /\ out[n].seq = s
      BY <2>2
    <3>2. n \in 1 .. (Len(out) + 1) - 1
      BY LenProperties DEF Flows
    <3> QED BY <3>1, <3>2 DEF Before
  <2> QED BY <1>2, <1>4, <2>1, <2>2
<1> QED BY <1>3, <1>4 DEF Brings

\* Other frames may go first.
LEMMA BringsPadded ==
    ASSUME NEW h \in Seq(ToApp), \A i \in DOMAIN h : ~IsLine(h[i]), NEW out \in Seq(ToApp),
           NEW G, NEW from, NEW to, NEW n, Brings(out, G, from, to, n)
    PROVE  Brings(h \o out, G, from, to, n)
<1> DEFINE r == h \o out
           m == Len(h)
           k == Len(out)
<1>1. /\ m \in Nat /\ k \in Nat /\ DOMAIN h = 1 .. m /\ DOMAIN out = 1 .. k
      /\ DOMAIN r = 1 .. m + k /\ Len(r) = m + k
      /\ \A i \in 1 .. m : r[i] = h[i]
      /\ \A i \in 1 .. k : r[m + i] = out[i]
      /\ \A i \in 1 .. m + k : i > m => i - m \in 1 .. k /\ r[i] = out[i - m]
  BY Joined
<1>b. /\ \A i \in 1 .. k : IsLine(out[i]) =>
            /\ out[i].seq <= n
            /\ \A s \in 1 .. out[i].seq - 1 : s <= from \/ s \in G \/ Before(out, i, s)
      /\ \A s \in 1 .. to : s <= from \/ s \in G \/ Before(out, k + 1, s)
  BY <1>1 DEF Brings
<1>h. \A i \in 1 .. m : ~IsLine(h[i])
  BY <1>1
<1> HIDE DEF r, m, k
<1>2. ASSUME NEW i \in 1 .. k + 1, NEW s, Before(out, i, s) PROVE Before(r, m + i, s)
  <2>1. PICK x \in 1 .. i - 1 : IsLine(out[x]) /\ out[x].seq = s
    BY <1>2 DEF Before
  <2>2. m + x \in 1 .. (m + i) - 1 /\ x \in 1 .. k
    BY <1>1, <2>1
  <2> QED BY <1>1, <2>1, <2>2 DEF Before
<1>3. ASSUME NEW i \in DOMAIN r, IsLine(r[i])
      PROVE  /\ r[i].seq <= n
             /\ \A s \in 1 .. r[i].seq - 1 : s <= from \/ s \in G \/ Before(r, i, s)
  <2>1. i \in 1 .. m + k /\ ~(i \in 1 .. m)
    BY <1>1, <1>3, <1>h
  <2>2. i > m
    BY <1>1, <2>1
  <2> DEFINE z == i - m
  <2>3. z \in 1 .. k /\ z \in 1 .. k + 1 /\ r[i] = out[z] /\ m + z = i
    BY <1>1, <2>1, <2>2
  <2> HIDE DEF z
  <2>4. out[z].seq <= n /\ \A s \in 1 .. out[z].seq - 1 : s <= from \/ s \in G \/ Before(out, z, s)
    BY <1>3, <1>b, <2>3
  <2>5. \A s : Before(out, z, s) => Before(r, i, s)
    BY <1>2, <2>3
  <2> QED BY <2>3, <2>4, <2>5
<1>4. ASSUME NEW s \in 1 .. to PROVE s <= from \/ s \in G \/ Before(r, Len(r) + 1, s)
  <2>1. k + 1 \in 1 .. k + 1 /\ m + (k + 1) = Len(r) + 1
    BY <1>1
  <2>2. Before(out, k + 1, s) => Before(r, Len(r) + 1, s)
    BY <1>2, <2>1
  <2> QED BY <1>b, <2>2
<1> QED BY <1>3, <1>4 DEF Brings, r

-----------------------------------------------------------------------------
(* What a step leaves as it was.                                           *)

\* Lines done stay done, as long as the socket is the same and rows stay.
LEMMA Grows ==
    ASSUME IInv, IInv', up.buf.first <= up'.buf.first, LastSeq(up.buf) <= LastSeq(up'.buf),
           StoredRows \subseteq StoredRows'
    PROVE  /\ Done \subseteq Done' /\ Received <= Received' /\ Received \in Nat /\ Received' \in Nat
           /\ \A s \in Seqs : Stored(s) => Stored(s)'
<1>1. UpSound(up) /\ UpSound(up') /\ UpSound(up)'
  BY DEF IInv
<1>2. /\ up.buf.first \in Nat /\ up'.buf.first \in Nat
      /\ LastSeq(up.buf) \in Nat /\ LastSeq(up'.buf) \in Nat
  BY <1>1, UpIs
<1>3. \A s \in Seqs : s \in Nat
  BY Bounds
<1>4. \A s \in Seqs : Stored(s) => Stored(s)'
  BY DEF Stored, RowsOf
<1>5. \A s \in Seqs : s < up.buf.first => s < up'.buf.first
  BY <1>2, <1>3
<1>6. Done \subseteq Done'
  BY <1>4, <1>5 DEF Done
<1>7. Received = LastSeq(up.buf) /\ Received' = LastSeq(up'.buf)
  BY DEF Received, LastSeq
<1> QED BY <1>2, <1>4, <1>6, <1>7

LEMMA SettledMore ==
    ASSUME NEW D, NEW D2, D \subseteq D2, NEW n \in Nat, NEW n2 \in Nat, n <= n2
    PROVE  /\ \A q \in Nat : Settled(D, n, q) => Settled(D2, n2, q)
           /\ \A e \in Seq(ToEng) : AcksTrue(e, D, n) => AcksTrue(e, D2, n2)
           /\ \A p \in Process : Honest(p, D, n) => Honest(p, D2, n2)
<1>1. \A q \in Nat : Settled(D, n, q) => Settled(D2, n2, q)
  BY DEF Settled
<1>2. ASSUME NEW e \in Seq(ToEng), AcksTrue(e, D, n), NEW i \in DOMAIN e, e[i].op = "ack"
      PROVE  Settled(D2, n2, e[i].seq)
  <2>1. e[i] \in ToEng
    BY ElementOfSeq, LenProperties
  <2>2. e[i].seq \in Nat
    BY <1>2, <2>1, Bounds DEF ToEng
  <2> QED BY <1>1, <1>2, <2>2 DEF AcksTrue
<1>3. ASSUME NEW p \in Process, Honest(p, D, n) PROVE Honest(p, D2, n2)
  <2>0. p.ackSeq \in {0} \union Seqs /\ p.at \in {0} \union Seqs
    BY <1>3 DEF Process
  <2>1. p.ackSeq \in Nat /\ p.at \in Nat
    BY <2>0, OrNone
  <2> QED BY <1>1, <1>3, <2>1 DEF Honest
<1>4. \A e \in Seq(ToEng) : AcksTrue(e, D, n) => AcksTrue(e, D2, n2)
  BY <1>2 DEF AcksTrue
<1> QED BY <1>1, <1>3, <1>4

\* Nothing is written to the engine that was not there.
Echo(e, e2) == \A i \in DOMAIN e2 : \E j \in DOMAIN e : e2[i] = e[j]

LEMMA AcksEcho ==
    ASSUME NEW e, NEW e2, Echo(e, e2), NEW D, NEW n, AcksTrue(e, D, n)
    PROVE  AcksTrue(e2, D, n)
<1> SUFFICES ASSUME NEW i \in DOMAIN e2, e2[i].op = "ack" PROVE Settled(D, n, e2[i].seq)
  BY DEF AcksTrue
<1>1. PICK j \in DOMAIN e : e2[i] = e[j]
  BY DEF Echo
<1> QED BY <1>1 DEF AcksTrue

\* A link on which no line is written, and nothing to the engine.
Quiet(k, k2) ==
    /\ k2.owner = k.owner /\ k2.appEnd = k.appEnd
    /\ NoNewLine(k.toApp, k2.toApp)
    /\ k2.engEnd => k.engEnd /\ Longer(k.toApp, k2.toApp)
    /\ Echo(k.toEng, k2.toEng)

LEMMA QuietSelf ==
    ASSUME NEW k \in Link
    PROVE  Quiet(k, k)
<1>1. NoNewLine(k.toApp, k.toApp)
  BY LinkIs DEF NoNewLine
<1> QED BY <1>1 DEF Quiet, Longer, Echo

LEMMA QuietTwice ==
    ASSUME NEW k \in Link, NEW k2 \in Link, NEW k3 \in Link, Quiet(k, k2), Quiet(k2, k3)
    PROVE  Quiet(k, k3)
<1>1. k.toApp \in Seq(ToApp) /\ k2.toApp \in Seq(ToApp) /\ k3.toApp \in Seq(ToApp)
  BY LinkIs
<1>2. NoNewLine(k.toApp, k3.toApp)
  BY <1>1, QuietThen DEF Quiet
<1>3. Longer(k.toApp, k2.toApp) /\ Longer(k2.toApp, k3.toApp) => Longer(k.toApp, k3.toApp)
  BY <1>1, QuietThen
<1>4. Echo(k.toEng, k3.toEng)
  <2>1. Echo(k.toEng, k2.toEng) /\ Echo(k2.toEng, k3.toEng)
    BY DEF Quiet
  <2> SUFFICES ASSUME NEW i \in DOMAIN k3.toEng PROVE \E j \in DOMAIN k.toEng : k3.toEng[i] = k.toEng[j]
    BY DEF Echo
  <2>2. PICK x \in DOMAIN k2.toEng : k3.toEng[i] = k2.toEng[x]
    BY <2>1 DEF Echo
  <2>3. PICK j \in DOMAIN k.toEng : k2.toEng[x] = k.toEng[j]
    BY <2>1 DEF Echo
  <2> QED BY <2>2, <2>3
<1> QED BY <1>2, <1>3, <1>4 DEF Quiet

LEMMA QuietSays ==
    ASSUME NEW k \in Link, NEW k2 \in Link, NEW out \in Seq(ToApp),
           \A i \in DOMAIN out : ~IsLine(out[i]), Wrote(k, k2, k.toApp \o out, k.toEng)
    PROVE  Quiet(k, k2)
<1>1. NoNewLine(k.toApp, k.toApp \o out) /\ Longer(k.toApp, k.toApp \o out)
  BY LinkIs, QuietJoin
<1>2. Echo(k.toEng, k.toEng)
  BY DEF Echo
<1> QED BY <1>1, <1>2 DEF Quiet, Wrote

LEMMA DeliverQuiet ==
    ASSUME NEW ls \in [Links -> Link], NEW l \in {0} \union Links, NEW out \in Seq(ToApp),
           \A i \in DOMAIN out : ~IsLine(out[i])
    PROVE  /\ Deliver(ls, l, out) \in [Links -> Link]
           /\ \A m \in Links : Quiet(ls[m], Deliver(ls, l, out)[m])
<1> DEFINE d == Deliver(ls, l, out)
<1>1. /\ d \in [Links -> Link]
      /\ \A m \in Links : m # l \/ ~ls[m].appEnd \/ ~ls[m].engEnd => d[m] = ls[m]
      /\ \A m \in Links : m = l /\ ls[m].appEnd /\ ls[m].engEnd =>
            Wrote(ls[m], d[m], ls[m].toApp \o out, ls[m].toEng)
  BY Delivers
<1> HIDE DEF d
<1>2. ASSUME NEW m \in Links PROVE Quiet(ls[m], d[m])
  <2>1. ls[m] \in Link /\ d[m] \in Link
    BY <1>1
  <2>2. CASE m = l /\ ls[m].appEnd /\ ls[m].engEnd
    BY <1>1, <2>1, <2>2, QuietSays
  <2>3. CASE ~(m = l /\ ls[m].appEnd /\ ls[m].engEnd)
    BY <1>1, <2>1, <2>3, QuietSelf
  <2> QED BY <2>2, <2>3
<1> QED BY <1>1, <1>2 DEF d

LEMMA OfferQuiet ==
    ASSUME NEW ls \in [Links -> Link]
    PROVE  /\ Offered(ls) \in [Links -> Link]
           /\ \A m \in Links : Quiet(ls[m], Offered(ls)[m])
<1> DEFINE d == Offered(ls)
           out == <<Op("held")>>
<1>1. /\ d \in [Links -> Link]
      /\ \A m \in Links : ~ls[m].appEnd \/ ~ls[m].engEnd => d[m] = ls[m]
      /\ \A m \in Links : ls[m].appEnd /\ ls[m].engEnd =>
            Wrote(ls[m], d[m], ls[m].toApp \o out, ls[m].toEng)
  BY Offers
<1>2. out \in Seq(ToApp) /\ \A i \in DOMAIN out : ~IsLine(out[i])
  BY BareIs DEF Bare, IsLine
<1> HIDE DEF d, out
<1>3. ASSUME NEW m \in Links PROVE Quiet(ls[m], d[m])
  <2>1. ls[m] \in Link /\ d[m] \in Link
    BY <1>1
  <2>2. CASE ls[m].appEnd /\ ls[m].engEnd
    BY <1>1, <1>2, <2>1, <2>2, QuietSays
  <2>3. CASE ~(ls[m].appEnd /\ ls[m].engEnd)
    BY <1>1, <2>1, <2>3, QuietSelf
  <2> QED BY <2>2, <2>3
<1> QED BY <1>1, <1>3 DEF d

-----------------------------------------------------------------------------
(* Steps of the engine.                                                    *)

\* What the invariants say of a link that is there.
LEMMA AckIs ==
    ASSUME IInv, AckInv, NEW m \in Links
    PROVE  /\ links \in [Links -> Link] /\ links[m] \in Link
           /\ links[m].toApp \in Seq(ToApp) /\ links[m].toEng \in Seq(ToEng)
           /\ AcksTrue(links[m].toEng, Done, Received)
           /\ links[m].appEnd =>
                 /\ Whole(links[m].toApp, Safe(m), Received)
                 /\ up.sink = m => Reaches(links[m].toApp, Safe(m), up.sent)
           /\ up.sent \in Nat /\ Received \in Nat /\ up.sent <= Received /\ 0 \notin Links
<1>1. links \in [Links -> Link] /\ links[m] \in Link /\ UpSound(up)
  BY DEF IInv, Typed
<1>2. up.sent \in Nat /\ LastSeq(up.buf) \in Nat /\ up.sent <= LastSeq(up.buf)
  BY <1>1, UpIs DEF UpSound
<1>3. 0 \notin Links
  BY Bounds
<1>4. links[m].toApp \in Seq(ToApp) /\ links[m].toEng \in Seq(ToEng)
  BY <1>1, LinkIs
<1>5. AcksTrue(links[m].toEng, Done, Received)
  BY DEF AckInv
<1>6. links[m].appEnd =>
         /\ Whole(links[m].toApp, Safe(m), Received)
         /\ up.sink = m => Reaches(links[m].toApp, Safe(m), up.sent)
  BY <1>3 DEF AckInv
<1> QED BY <1>1, <1>2, <1>3, <1>4, <1>5, <1>6 DEF Received

\* What is to be shown of a step of the engine: no ack is new, whatever it lets
\* go of on an ack is stored, and no link leaves lines out.
LEMMA EngineCarries ==
    ASSUME IInv, IInv', AckInv, UNCHANGED <<apps, marks, log>>,
           up.buf.first <= up'.buf.first, LastSeq(up.buf) <= LastSeq(up'.buf),
           \A m \in Links : Echo(links[m].toEng, links'[m].toEng) /\ links'[m].owner = links[m].owner,
           \A m \in Links : links'[m].appEnd =>
               /\ Whole(links'[m].toApp, Done' \union Hand(apps[links[m].owner]), Received')
               /\ up'.sink = m =>
                     Reaches(links'[m].toApp, Done' \union Hand(apps[links[m].owner]), up'.sent),
           \A s \in Seqs : <<1, s>> \in hist'.acked => <<1, s>> \in hist.acked \/ Stored(s)
    PROVE  AckInv'
<1>1. /\ Done \subseteq Done' /\ Received <= Received' /\ Received \in Nat /\ Received' \in Nat
      /\ \A s \in Seqs : Stored(s) => Stored(s)'
  BY Grows DEF StoredRows
<1> DEFINE D == Done'
           n == Received'
<1>2. /\ \A q \in Nat : Settled(Done, Received, q) => Settled(D, n, q)
      /\ \A e \in Seq(ToEng) : AcksTrue(e, Done, Received) => AcksTrue(e, D, n)
      /\ \A p \in Process : Honest(p, Done, Received) => Honest(p, D, n)
  BY <1>1, SettledMore
<1> HIDE DEF D, n
<1>3. ASSUME NEW m \in Links PROVE AcksTrue(links'[m].toEng, D, n)
  <2>1. AcksTrue(links[m].toEng, Done, Received) /\ links[m].toEng \in Seq(ToEng)
    BY AckIs
  <2>2. AcksTrue(links[m].toEng, D, n)
    BY <1>2, <2>1
  <2> QED BY <2>2, AcksEcho
<1>4. ASSUME NEW a \in Apps PROVE Honest(apps'[a], D, n)
  <2>1. apps[a] \in Process
    BY AppIs
  <2>2. Honest(apps[a], Done, Received)
    BY DEF AckInv
  <2> QED BY <1>2, <2>1, <2>2
<1>5. Settled(D, n, marks'[1])
  <2>1. 1 \in Socks
    BY Bounds DEF Socks
  <2>2. marks[1] \in {0} \union Seqs
    BY <2>1 DEF IInv, Typed
  <2>3. marks[1] \in Nat
    BY <2>2, OrNone
  <2>4. Settled(Done, Received, marks[1])
    BY DEF AckInv
  <2> QED BY <1>2, <2>3, <2>4
<1>6. ASSUME NEW s \in Seqs, <<1, s>> \in hist'.acked PROVE Stored(s)'
  <2>1. Stored(s)
    BY <1>6 DEF AckInv
  <2> QED BY <1>1, <2>1
<1>7. \A m \in Links : Safe(m)' = D \union Hand(apps[links[m].owner])
  BY DEF Safe, D, Hand
<1>8. ASSUME NEW m \in Links, links'[m].appEnd
      PROVE  /\ Whole(links'[m].toApp, Safe(m)', n)
             /\ up'.sink = m => Reaches(links'[m].toApp, Safe(m)', up'.sent)
  BY <1>7, <1>8 DEF D, n
<1>9. up'.sink # 0 => up'.sink \in Links
  <2>1. UpSound(up')
    BY DEF IInv
  <2> QED BY <2>1, UpIs
<1>10. /\ \A l \in Links : AcksTrue(links'[l].toEng, Done', Received')
       /\ \A l \in Links : links'[l].appEnd => Whole(links'[l].toApp, Safe(l)', Received')
       /\ \A a \in Apps : Honest(apps'[a], Done', Received')
       /\ Settled(Done', Received', marks'[1])
       /\ \A s \in Seqs : <<1, s>> \in hist'.acked => Stored(s)'
  BY <1>3, <1>4, <1>5, <1>6, <1>8 DEF D, n
<1>11. up'.sink # 0 /\ links'[up'.sink].appEnd => Reaches(links'[up'.sink].toApp, Safe(up.sink)', up'.sent)
  <2>1. CASE up'.sink = 0
    BY <2>1
  <2>2. CASE up'.sink # 0
    <3>1. PICK m \in Links : m = up'.sink
      BY <1>9, <2>2
    <3>2. links'[m].appEnd => Reaches(links'[m].toApp, D \union Hand(apps[links[m].owner]), up'.sent)
      BY <3>1 DEF D
    <3>3. links'[m].owner = links[m].owner
      BY <3>1
    <3>4. Safe(up.sink)' = Done' \union Hand(apps[links[m].owner])
      BY <3>1, <3>3 DEF Safe, Hand
    <3> QED BY <3>1, <3>2, <3>4 DEF D
  <2> QED BY <2>1, <2>2
<1> QED BY <1>10, <1>11 DEF AckInv

\* A step in which no line is written to a link.
LEMMA EngineQuiet ==
    ASSUME IInv, IInv', AckInv, UNCHANGED <<apps, marks, log>>,
           up.buf.first <= up'.buf.first, LastSeq(up.buf) <= LastSeq(up'.buf),
           \A m \in Links : Quiet(links[m], links'[m]),
           up'.sink # 0 => up'.sent = 0 \/ (up'.sink = up.sink /\ up'.sent = up.sent),
           \A s \in Seqs : <<1, s>> \in hist'.acked => <<1, s>> \in hist.acked \/ Stored(s)
    PROVE  AckInv'
<1>1. Done \subseteq Done' /\ Received <= Received' /\ Received \in Nat /\ Received' \in Nat
  BY Grows DEF StoredRows
<1> DEFINE D == Done'
           n == Received'
<1>2. links' \in [Links -> Link] /\ UpSound(up') /\ up'.sent \in Nat /\ 0 \notin Links
      /\ up'.sink \in {0} \union Links /\ (up'.sink # 0 => links'[up'.sink].engEnd)
  <2>1. links' \in [Links -> Link] /\ UpSound(up') /\ (up'.sink # 0 => links'[up'.sink].engEnd)
    BY DEF IInv, Typed, Placed
  <2> QED BY <2>1, UpIs, Bounds
<1> HIDE DEF D, n
<1>3. ASSUME NEW m \in Links, links'[m].appEnd, NEW G, G = D \union Hand(apps[links[m].owner])
      PROVE  /\ Whole(links'[m].toApp, G, n)
             /\ up'.sink = m => Reaches(links'[m].toApp, G, up'.sent)
  <2>1. links[m].toApp \in Seq(ToApp) /\ links'[m].toApp \in Seq(ToApp) /\ links[m].appEnd
    BY <1>2, <1>3, AckIs, LinkIs DEF Quiet
  <2>2. Whole(links[m].toApp, Safe(m), Received) /\ Safe(m) \subseteq G
    BY <1>1, <1>3, <2>1, AckIs DEF Safe, D
  <2>3. Whole(links[m].toApp, G, n)
    BY <1>1, <2>1, <2>2, WholeMore DEF n
  <2>4. Whole(links'[m].toApp, G, n)
    BY <2>1, <2>3, WholeQuiet DEF Quiet
  <2>5. ASSUME up'.sink = m PROVE Reaches(links'[m].toApp, G, up'.sent)
    <3>1. CASE up'.sent = 0
      BY <3>1 DEF Reaches
    <3>2. CASE up.sink = m /\ up'.sent = up.sent
      <4>1. Reaches(links[m].toApp, Safe(m), up.sent)
        BY <2>1, <3>2, AckIs
      <4>2. Reaches(links[m].toApp, G, up'.sent)
        BY <1>2, <2>2, <3>2, <4>1, ReachesMore
      <4>3. links'[m].engEnd /\ Quiet(links[m], links'[m])
        BY <1>2, <2>5
      <4>4. Longer(links[m].toApp, links'[m].toApp)
        BY <4>3 DEF Quiet
      <4> QED BY <2>1, <4>2, <4>4, ReachesLonger
    <3> QED BY <1>2, <2>5, <3>1, <3>2
  <2> QED BY <2>4, <2>5
<1>4. \A m \in Links : Echo(links[m].toEng, links'[m].toEng) /\ links'[m].owner = links[m].owner
  BY DEF Quiet
<1>5. \A m \in Links : links'[m].appEnd =>
         /\ Whole(links'[m].toApp, Done' \union Hand(apps[links[m].owner]), Received')
         /\ up'.sink = m =>
               Reaches(links'[m].toApp, Done' \union Hand(apps[links[m].owner]), up'.sent)
  BY <1>3 DEF D, n
<1> QED BY <1>4, <1>5, EngineCarries

\* A step in which the engine flushes to link l, owed the lines after `from'.
LEMMA EngineFlushes ==
    ASSUME IInv, IInv', AckInv, UNCHANGED <<apps, marks, log>>,
           up.buf.first <= up'.buf.first, LastSeq(up.buf) <= LastSeq(up'.buf),
           NEW ls \in [Links -> Link], \A m \in Links : Quiet(links[m], ls[m]),
           NEW l \in Links, ls[l].engEnd, NEW out \in Seq(ToApp), links' = Deliver(ls, l, out),
           up'.sink = l, NEW from \in Nat,
           (l = up.sink /\ from = up.sent) \/ \A s \in 1 .. from : s \in Done',
           Brings(out, Done', from, up'.sent, Received'),
           \A s \in Seqs : <<1, s>> \in hist'.acked => <<1, s>> \in hist.acked \/ Stored(s)
    PROVE  AckInv'
<1>1. Done \subseteq Done' /\ Received <= Received' /\ Received \in Nat /\ Received' \in Nat
  BY Grows DEF StoredRows
<1> DEFINE D == Done'
           n == Received'
           k == up'.sent
<1>2. k \in Nat
  <2>1. UpSound(up')
    BY DEF IInv
  <2> QED BY <2>1, UpIs
<1> HIDE DEF D, n, k
<1>3. /\ links' \in [Links -> Link]
      /\ \A m \in Links : m # l \/ ~ls[m].appEnd \/ ~ls[m].engEnd => links'[m] = ls[m]
      /\ \A m \in Links : m = l /\ ls[m].appEnd /\ ls[m].engEnd =>
            Wrote(ls[m], links'[m], ls[m].toApp \o out, ls[m].toEng)
  <2> DEFINE d == Deliver(ls, l, out)
  <2>1. /\ d \in [Links -> Link]
        /\ \A m \in Links : m # l \/ ~ls[m].appEnd \/ ~ls[m].engEnd => d[m] = ls[m]
        /\ \A m \in Links : m = l /\ ls[m].appEnd /\ ls[m].engEnd =>
              Wrote(ls[m], d[m], ls[m].toApp \o out, ls[m].toEng)
    BY ONLY ls \in [Links -> Link], l \in Links, out \in Seq(ToApp), Delivers
  <2>2. links' = d
    OBVIOUS
  <2> HIDE DEF d
  <2> QED BY ONLY <2>1, <2>2
<1>4. ASSUME NEW m \in Links
      PROVE  /\ Echo(links[m].toEng, links'[m].toEng) /\ links'[m].owner = links[m].owner
             /\ links'[m].appEnd = ls[m].appEnd
  <2>1. Quiet(links[m], ls[m])
    OBVIOUS
  <2>2. CASE m = l /\ ls[m].appEnd /\ ls[m].engEnd
    BY <1>3, <2>1, <2>2 DEF Quiet, Wrote
  <2>3. CASE ~(m = l /\ ls[m].appEnd /\ ls[m].engEnd)
    BY <1>3, <2>1, <2>3 DEF Quiet
  <2> QED BY <2>2, <2>3
<1>5. ASSUME NEW m \in Links, links'[m].appEnd, NEW G, G = D \union Hand(apps[links[m].owner])
      PROVE  /\ Whole(links'[m].toApp, G, n)
             /\ m = l => Reaches(links'[m].toApp, G, k)
  <2>1. links[m].toApp \in Seq(ToApp) /\ ls[m].toApp \in Seq(ToApp) /\ links[m].appEnd /\ ls[m].appEnd
    BY <1>4, <1>5, AckIs, LinkIs DEF Quiet
  <2>2. Whole(links[m].toApp, Safe(m), Received) /\ Safe(m) \subseteq G
    BY <1>1, <1>5, <2>1, AckIs DEF Safe, D
  <2>3. Whole(links[m].toApp, G, n)
    BY <1>1, <2>1, <2>2, WholeMore DEF n
  <2>4. Whole(ls[m].toApp, G, n)
    BY <2>1, <2>3, WholeQuiet DEF Quiet
  <2>5. CASE m # l
    BY <1>3, <2>4, <2>5
  <2>6. CASE m = l
    <3>1. links'[m].toApp = ls[m].toApp \o out
      BY <1>3, <2>1, <2>6 DEF Wrote
    <3>2. Reaches(ls[m].toApp, G, from)
      <4>1. CASE \A s \in 1 .. from : s \in Done'
        BY <1>5, <4>1 DEF Reaches, D
      <4>2. CASE l = up.sink /\ from = up.sent
        <5>1. Reaches(links[m].toApp, Safe(m), from)
          BY <2>1, <2>6, <4>2, AckIs
        <5>2. Reaches(links[m].toApp, G, from)
          BY <2>2, <5>1 DEF Reaches
        <5>3. Longer(links[m].toApp, ls[m].toApp)
          BY <2>6 DEF Quiet
        <5> QED BY <2>1, <5>2, <5>3, ReachesLonger
      <4> QED BY <4>1, <4>2
    <3>3. Brings(out, G, from, k, n)
      BY <1>5 DEF Brings, D, n, k
    <3>4. Whole(ls[m].toApp \o out, G, n) /\ Reaches(ls[m].toApp \o out, G, k)
      BY <1>2, <2>1, <2>4, <3>2, <3>3, WholeBrings
    <3> QED BY <3>1, <3>4
  <2> QED BY <2>5, <2>6
<1>6. \A m \in Links : links'[m].appEnd =>
         /\ Whole(links'[m].toApp, Done' \union Hand(apps[links[m].owner]), Received')
         /\ up'.sink = m =>
               Reaches(links'[m].toApp, Done' \union Hand(apps[links[m].owner]), up'.sent)
  BY <1>5 DEF D, n, k
<1> QED BY <1>4, <1>6, EngineCarries

LEMMA LinksQuiet ==
    ASSUME IInv
    PROVE  links \in [Links -> Link] /\ \A m \in Links : Quiet(links[m], links[m])
<1>1. links \in [Links -> Link]
  BY DEF IInv, Typed
<1> QED BY <1>1, QuietSelf

\* EngineUpstream.onOpen
LEMMA OpensAck == ASSUME IInv, IInv', AckInv, Opens PROVE AckInv'
<1> DEFINE out == <<[op |-> "open", sock |-> up.sock]>>
<1>1. UpSound(up) /\ up.sock \in Socks /\ up' = [up EXCEPT !.st = "open"]
      /\ links' = Deliver(links, up.sink, out) /\ up.sink \in {0} \union Links
      /\ UNCHANGED <<nLinks, apps, marks, log, hist>>
  BY InTurnIs, UpIs DEF Opens
<1>2. up'.buf = up.buf /\ up'.sink = up.sink /\ up'.sent = up.sent
  BY <1>1 DEF UpSound, Upstream
<1>3. out \in Seq(ToApp) /\ \A i \in DOMAIN out : ~IsLine(out[i])
  BY <1>1 DEF ToApp, IsLine
<1> HIDE DEF out
<1>4. \A m \in Links : Quiet(links[m], links'[m])
  BY <1>1, <1>3, LinksQuiet, DeliverQuiet
<1>5. up.buf.first <= up'.buf.first /\ LastSeq(up.buf) <= LastSeq(up'.buf)
  BY <1>1, <1>2, UpIs
<1> QED BY <1>1, <1>2, <1>4, <1>5, EngineQuiet

\* EngineUpstream.flush, of what the upstream has become.
LEMMA FlushAck ==
    ASSUME IInv, IInv', AckInv, NEW u, UpSound(u), u.st = "open", u.sink = up.sink,
           u.sent = up.sent, up.buf.first <= u.buf.first, LastSeq(up.buf) <= LastSeq(u.buf),
           NEW f \in FlushOutcomes(u), up' = f.u, links' = Deliver(links, up.sink, f.out),
           UNCHANGED <<apps, marks, log>>,
           \A s \in Seqs : <<1, s>> \in hist'.acked => <<1, s>> \in hist.acked \/ Stored(s)
    PROVE  AckInv'
<1>1. UpSound(f.u) /\ Flows(u, f.u, f.out)
  BY FlushFlows
<1> DEFINE out == f.out
<1>2. /\ UpSound(up') /\ up'.sink = up.sink /\ up'.buf.first = u.buf.first
      /\ LastSeq(up'.buf) = LastSeq(u.buf) /\ out \in Seq(ToApp) /\ Flows(u, up', out)
      /\ links' = Deliver(links, up.sink, out)
  BY <1>1 DEF Flows
<1> HIDE DEF out
<1>3. links \in [Links -> Link] /\ up.sink \in {0} \union Links /\ UpSound(up)
      /\ (up.sink # 0 => links[up.sink].engEnd)
  BY InTurnIs
<1>4. up.buf.first <= up'.buf.first /\ LastSeq(up.buf) <= LastSeq(up'.buf)
  BY <1>2
<1>5. CASE up.sink = 0
  <2>1. links' = links
    BY <1>2, <1>5 DEF Deliver
  <2>2. \A m \in Links : Quiet(links[m], links'[m])
    BY <2>1, LinksQuiet
  <2> QED BY <1>2, <1>4, <1>5, <2>2, EngineQuiet
<1>6. CASE up.sink # 0
  <2>1. \A s \in Seqs : s < up'.buf.first => s \in Done'
    BY DEF Done
  <2>2. Brings(out, Done', up.sent, up'.sent, LastSeq(up'.buf))
    BY <1>2, <2>1, FlowsBring
  <2>3. Received' = LastSeq(up'.buf)
    BY DEF Received, LastSeq
  <2>4. up.sink \in Links /\ links[up.sink].engEnd /\ up.sent \in Nat
    BY <1>3, <1>6, UpIs
  <2>5. \A m \in Links : Quiet(links[m], links[m])
    BY LinksQuiet
  <2> QED BY <1>2, <1>3, <1>4, <2>2, <2>3, <2>4, <2>5, EngineFlushes
<1> QED BY <1>5, <1>6

\* EngineUpstream.onLine: what is shed of the backlog is done with.
LEMMA ServerLineAck == ASSUME IInv, IInv', AckInv, ServerLine PROVE AckInv'
<1>1. PICK k \in ShedCounts(Pushed(up.buf)) :
         /\ hist' = Note("shed", up.sock, Dropped(up.buf, k))
         /\ \E f \in FlushOutcomes([up EXCEPT !.buf = Shed(Pushed(up.buf), k)]) :
              /\ up' = f.u
              /\ links' = IF up.sink = 0 /\ LastSeq(f.u.buf) = BurstEnd
                          THEN Offered(links) ELSE Deliver(links, up.sink, f.out)
  BY DEF ServerLine
<1>2. /\ up.st = "open" /\ LastSeq(up.buf) < MaxSeq /\ UNCHANGED <<nLinks, apps, marks, log>>
      /\ UpSound(up) /\ Held(up.buf) /\ LastSeq(up.buf) \in Nat /\ up.buf.first \in Nat
      /\ hist \in History
  BY InTurnIs, UpIs DEF ServerLine
<1> DEFINE b == Shed(Pushed(up.buf), k)
           u == [up EXCEPT !.buf = b]
<1>3. Held(b) /\ LastSeq(b) = LastSeq(up.buf) + 1 /\ up.buf.first <= b.first
  <2>1. Held(Pushed(up.buf)) /\ LastSeq(Pushed(up.buf)) = LastSeq(up.buf) + 1
    BY <1>2, PushedHeld
  <2>2. Pushed(up.buf).first = up.buf.first
    BY <1>2 DEF Pushed, Held, BufferType
  <2>3. Held(b) /\ LastSeq(b) = LastSeq(Pushed(up.buf)) /\ b.first = Pushed(up.buf).first + k
    BY <2>1, ShedHeld
  <2>4. k \in Nat
    BY DEF ShedCounts
  <2> QED BY <1>2, <2>1, <2>2, <2>3, <2>4
<1> HIDE DEF b
<1>4. LastSeq(b) >= LastSeq(up.buf) /\ LastSeq(up.buf) <= LastSeq(b)
  BY <1>2, <1>3
<1>5. UpSound(u) /\ u.st = "open" /\ u.sink = up.sink /\ u.sent = up.sent /\ u.buf = b
  BY <1>2, <1>3, <1>4, Rebuffered
<1>6. hist'.acked = hist.acked
  BY <1>1, <1>2 DEF Note, History
<1>7. PICK f \in FlushOutcomes(u) :
              /\ up' = f.u
              /\ links' = IF up.sink = 0 /\ LastSeq(f.u.buf) = BurstEnd
                          THEN Offered(links) ELSE Deliver(links, up.sink, f.out)
  BY <1>1 DEF b
<1> HIDE DEF u
<1>8. CASE links' = Deliver(links, up.sink, f.out)
  BY <1>2, <1>3, <1>4, <1>5, <1>6, <1>7, <1>8, FlushAck
<1>9. CASE up.sink = 0 /\ links' = Offered(links)
  <2>1. Flows(u, f.u, f.out)
    BY <1>5, FlushFlows
  <2>2. up'.sink = 0 /\ up.buf.first <= up'.buf.first /\ LastSeq(up.buf) <= LastSeq(up'.buf)
    BY <1>3, <1>4, <1>5, <1>7, <1>9, <2>1 DEF Flows
  <2>3. \A m \in Links : Quiet(links[m], links'[m])
    BY <1>9, LinksQuiet, OfferQuiet
  <2> QED BY <1>2, <1>6, <2>2, <2>3, EngineQuiet
<1> QED BY <1>7, <1>8, <1>9

\* LineBuffer sheds for another connection's line.
LEMMA SqueezedAck == ASSUME IInv, IInv', AckInv, Squeezed PROVE AckInv'
<1>1. PICK k \in ShedCounts(up.buf) : /\ up' = [up EXCEPT !.buf = Shed(up.buf, k)]
                                      /\ hist' = Note("shed", up.sock, Dropped(up.buf, k))
  BY DEF Squeezed
<1>2. /\ up.st = "open" /\ UNCHANGED <<links, nLinks, apps, marks, log>>
      /\ UpSound(up) /\ Held(up.buf) /\ LastSeq(up.buf) \in Nat /\ up.buf.first \in Nat
      /\ hist \in History
  BY InTurnIs, UpIs DEF Squeezed
<1> DEFINE b == Shed(up.buf, k)
<1>3. Held(b) /\ LastSeq(b) = LastSeq(up.buf) /\ b.first = up.buf.first + k /\ k \in Nat
  BY <1>2, ShedHeld DEF ShedCounts
<1>4. up' = [up EXCEPT !.buf = b]
  BY <1>1
<1> HIDE DEF b
<1>5. LastSeq(b) >= LastSeq(up.buf) /\ LastSeq(up.buf) <= LastSeq(b) /\ up.buf.first <= b.first
  BY <1>2, <1>3
<1>6. up'.sink = up.sink /\ up'.sent = up.sent /\ up'.buf = b
  BY <1>2, <1>3, <1>4, <1>5, Rebuffered
<1>7. hist'.acked = hist.acked
  BY <1>1, <1>2 DEF Note, History
<1>8. \A m \in Links : Quiet(links[m], links'[m])
  BY <1>2, LinksQuiet
<1> QED BY <1>2, <1>5, <1>6, <1>7, <1>8, EngineQuiet

\* EngineUpstream.resume
LEMMA DrainAck == ASSUME IInv, IInv', AckInv, Drain PROVE AckInv'
<1> DEFINE u == [up EXCEPT !.stalled = FALSE]
<1>1. UpSound(up) /\ up.st = "open" /\ UNCHANGED <<nLinks, apps, marks, log, hist>>
  BY InTurnIs DEF Drain, UpSound
<1>2. PICK f \in FlushOutcomes(u) : up' = f.u /\ links' = Deliver(links, up.sink, f.out)
  BY DEF Drain
<1>3. u \in Upstream /\ u.st = up.st /\ u.sock = up.sock /\ u.sink = up.sink /\ u.buf = up.buf
      /\ u.sent = up.sent /\ ~u.stalled
  BY <1>1 DEF UpSound, Upstream
<1> HIDE DEF u
<1>4. UpSound(u) /\ u.st = "open"
  BY <1>1, <1>3 DEF UpSound
<1>5. up.buf.first <= u.buf.first /\ LastSeq(up.buf) <= LastSeq(u.buf)
  BY <1>1, <1>3, UpIs
<1> QED BY <1>1, <1>2, <1>3, <1>4, <1>5, FlushAck

\* There is no other socket to dial, so this one stays.
LEMMA NoSocketDies == ASSUME OneSocketPlain, IInv, SocketDies PROVE FALSE
<1>1. UpSound(up) /\ up.st # "none" /\ up.sock < MaxSockets
  BY InTurnIs DEF SocketDies
<1>2. up.sock \in Socks /\ MaxSockets = 1
  BY <1>1, UpIs DEF OneSocketPlain
<1> QED BY <1>1, <1>2 DEF Socks

-----------------------------------------------------------------------------
(* The engine's side of a link.                                            *)

\* A frame is read.
LEMMA HeardQuiet ==
    ASSUME IInv, NEW l \in Links, links[l].engEnd, links[l].toEng # <<>>,
           NEW ls, ls = Heard(l)
    PROVE  ls \in [Links -> Link] /\ \A m \in Links : Quiet(links[m], ls[m])
<1> DEFINE k  == links[l]
           w  == Tail(k.toEng)
           k2 == [k EXCEPT !.toEng = w]
<1>0. k \in Link /\ k.toEng \in Seq(ToEng) /\ k.toEng # <<>> /\ links \in [Links -> Link]
  BY InTurnIs, LinkIs
<1>1. w \in Seq(ToEng) /\ Echo(k.toEng, w)
  <2> DEFINE e == k.toEng
  <2> HIDE DEF k
  <2>1. e \in Seq(ToEng) /\ e # <<>>
    BY <1>0
  <2> HIDE DEF e
  <2>2. /\ Tail(e) \in Seq(ToEng) /\ Len(Tail(e)) = Len(e) - 1 /\ Len(e) \in Nat
        /\ \A i \in 1 .. Len(Tail(e)) : Tail(e)[i] = e[i + 1]
        /\ DOMAIN e = 1 .. Len(e) /\ DOMAIN Tail(e) = 1 .. Len(Tail(e))
    BY <2>1, HeadTailProperties, LenProperties
  <2>3. \A i \in DOMAIN Tail(e) : i + 1 \in DOMAIN e /\ Tail(e)[i] = e[i + 1]
    BY <2>2
  <2> QED BY <2>2, <2>3 DEF Echo, e
<1>2. ls = [links EXCEPT ![l] = k2]
  BY DEF Heard
<1> HIDE DEF w
<1>3. k2 \in Link /\ Wrote(k, k2, k.toApp, w)
  BY <1>0, <1>1 DEF Link, Wrote
<1> HIDE DEF k2
<1>4. ls \in [Links -> Link] /\ ls[l] = k2 /\ \A m \in Links : m # l => ls[m] = links[m]
  BY <1>0, <1>2, <1>3
<1>5. Quiet(k, k)
  BY <1>0, QuietSelf
<1>6. Quiet(k, k2)
  BY <1>1, <1>3, <1>5 DEF Quiet, Wrote
<1>7. ASSUME NEW m \in Links, m # l PROVE Quiet(links[m], ls[m])
  BY <1>4, <1>7, LinksQuiet
<1> QED BY <1>4, <1>6, <1>7 DEF k

\* EngineServer.release and onLinkClose
LEMMA LetGoAck ==
    ASSUME IInv, IInv', AckInv, NEW l \in Links, NEW ls \in [Links -> Link],
           \A m \in Links : Quiet(links[m], ls[m]), LetGo(l, ls),
           UNCHANGED <<apps, marks, log, hist>>
    PROVE  AckInv'
<1>1. UpSound(up) /\ up.buf.first <= up.buf.first /\ LastSeq(up.buf) <= LastSeq(up.buf)
      /\ links \in [Links -> Link]
  BY InTurnIs, UpIs
<1>2. CASE UNCHANGED up /\ links' = ls
  BY <1>1, <1>2, EngineQuiet
<1>3. CASE up' = Detached(up) /\ (links' = ls \/ links' = Offered(ls))
  <2>1. up'.sink = 0 /\ up'.buf = up.buf
    BY <1>1, <1>3 DEF Detached, UpSound, Upstream
  <2>2. \A m \in Links : Quiet(links[m], links'[m])
    <3>1. CASE links' = ls
      BY <3>1
    <3>2. CASE links' = Offered(ls)
      <4>1. links' \in [Links -> Link] /\ \A m \in Links : Quiet(ls[m], links'[m])
        BY <3>2, OfferQuiet
      <4>2. ASSUME NEW m \in Links PROVE Quiet(links[m], links'[m])
        <5>1. links[m] \in Link /\ ls[m] \in Link /\ links'[m] \in Link
          BY <1>1, <4>1
        <5> QED BY <4>1, <5>1, QuietTwice
      <4> QED BY <4>2
    <3> QED BY <1>3, <3>1, <3>2
  <2> QED BY <1>1, <2>1, <2>2, EngineQuiet
<1> QED BY <1>2, <1>3 DEF LetGo

\* EngineServer.onLinkClose
LEMMA SeesEOFAck == ASSUME IInv, IInv', AckInv, NEW l \in Links, EngineSeesEOF(l) PROVE AckInv'
<1> DEFINE ls == [links EXCEPT ![l].engEnd = FALSE]
           k2 == [links[l] EXCEPT !.engEnd = FALSE]
<1>1. LetGo(l, ls) /\ links \in [Links -> Link] /\ links[l] \in Link
      /\ UNCHANGED <<nLinks, apps, marks, log, hist>>
  BY InTurnIs DEF EngineSeesEOF
<1>2. /\ k2 \in Link /\ k2.owner = links[l].owner /\ k2.appEnd = links[l].appEnd /\ ~k2.engEnd
      /\ k2.toApp = links[l].toApp /\ k2.toEng = links[l].toEng
  BY <1>1 DEF Link
<1>3. ls = [links EXCEPT ![l] = k2]
  OBVIOUS
<1> HIDE DEF k2
<1>4. ls \in [Links -> Link] /\ ls[l] = k2 /\ \A m \in Links : m # l => ls[m] = links[m]
  BY <1>1, <1>2, <1>3
<1> HIDE DEF ls
<1>5. Quiet(links[l], k2)
  <2>1. Quiet(links[l], links[l])
    BY LinksQuiet
  <2> QED BY <1>2, <2>1 DEF Quiet
<1>6. \A m \in Links : Quiet(links[m], ls[m])
  BY <1>4, <1>5, LinksQuiet
<1> QED BY <1>1, <1>4, <1>6, LetGoAck

\* EngineServer.sweepSilentLinks
LEMMA DropsAck == ASSUME IInv, IInv', AckInv, NEW l \in Links, EngineDropsLink(l) PROVE AckInv'
<1>0. PICK kept \in PrefixesOf(links[l].toApp) :
        LetGo(l, [links EXCEPT ![l].engEnd = FALSE, ![l].toEng = <<>>, ![l].toApp = kept])
  BY DEF EngineDropsLink
<1> DEFINE ls == [links EXCEPT ![l].engEnd = FALSE, ![l].toEng = <<>>, ![l].toApp = kept]
           k  == links[l]
           k2 == [k EXCEPT !.engEnd = FALSE, !.toEng = <<>>, !.toApp = kept]
<1>1. LetGo(l, ls) /\ links \in [Links -> Link] /\ k \in Link /\ k.toApp \in Seq(ToApp)
      /\ UNCHANGED <<nLinks, apps, marks, log, hist>>
  BY <1>0, InTurnIs, LinkIs DEF EngineDropsLink
<1>2. kept \in Seq(ToApp) /\ NoNewLine(k.toApp, kept)
  BY <1>1, PrefixIs, QuietPrefix
<1>3. k2 \in Link /\ k2.owner = k.owner /\ k2.appEnd = k.appEnd /\ ~k2.engEnd
      /\ k2.toApp = kept /\ k2.toEng = <<>>
  <2>1. <<>> \in Seq(ToEng)
    BY EmptySeq
  <2> HIDE DEF k
  <2> QED BY <1>1, <1>2, <2>1 DEF Link
<1>4. ls = [links EXCEPT ![l] = k2]
  BY <1>1
<1> HIDE DEF k2
<1>5. ls \in [Links -> Link] /\ ls[l] = k2 /\ \A m \in Links : m # l => ls[m] = links[m]
  BY <1>1, <1>3, <1>4
<1> HIDE DEF ls
<1>6. Quiet(k, k2)
  <2>1. Echo(k.toEng, <<>>)
    BY DEF Echo
  <2> HIDE DEF k
  <2> QED BY <1>2, <1>3, <2>1 DEF Quiet
<1>7. \A m \in Links : Quiet(links[m], ls[m])
  BY <1>5, <1>6, LinksQuiet DEF k
<1> QED BY <1>1, <1>5, <1>7, LetGoAck

\* EngineUpstream.attach: what an attach brings, to one that has the burst.
LEMMA AttachBrings ==
    ASSUME IInv, NEW l \in Links, Registered, NEW f \in AttachOutcomes(l)
    PROVE  /\ UpSound(f.u) /\ f.u.sink = l /\ f.out \in Seq(ToApp)
           /\ up.buf.first <= f.u.buf.first /\ LastSeq(f.u.buf) = LastSeq(up.buf)
           /\ \A G : (\A s \in Seqs : s < f.u.buf.first => s \in G) =>
                 Brings(f.out, G, BurstEnd, f.u.sent, LastSeq(f.u.buf))
<1> DEFINE b == Acked(up.buf, BurstEnd)
           u == [up EXCEPT !.buf = b, !.sink = l, !.sent = BurstEnd,
                           !.stalled = FALSE, !.liveAfter = LiveAfter(b)]
           first == <<[op |-> "attached", sock |-> up.sock]>>
           next  == IF u.liveAfter = 0 THEN <<Op("live")>> ELSE <<>>
           ops   == {"attached", "live"}
<1>1. UpSound(up) /\ up.st = "open" /\ up.sock \in Socks /\ Held(up.buf)
      /\ LastSeq(up.buf) \in Nat /\ LastSeq(up.buf) >= 1
  BY InTurnIs, UpIs DEF Registered, BurstEnd
<1>2. Held(b) /\ LastSeq(b) = LastSeq(up.buf) /\ b.first >= up.buf.first
      /\ b.first \in Nat /\ up.buf.first \in Nat
  BY <1>1, AckedHeld, HeldIs DEF BurstEnd
<1>3. LiveAfter(b) \in {0} \union Seqs /\ BurstEnd \in {0} \union Seqs
  <2>1. LastSeq(b) \in {0} \union Seqs
    BY <1>2, HeldIs
  <2>2. 1 \in Seqs
    BY <1>1, <1>2, <2>1, Bounds DEF Seqs
  <2> QED BY <2>1, <2>2 DEF LiveAfter, BurstEnd
<1>4. PICK g \in FlushOutcomes(u) : f = [u |-> g.u, out |-> (first \o next) \o g.out]
  BY DEF AttachOutcomes
<1>5. first \in Seq(ToApp) /\ AllOf(first, ops)
  BY <1>1 DEF ToApp, AllOf
<1>6. next \in Seq(ToApp) /\ AllOf(next, ops)
  BY BareIs DEF Bare, AllOf, Op
<1> HIDE DEF b, first, next, ops
<1>7. u \in Upstream /\ u.st = "open" /\ u.sock = up.sock /\ u.buf = b /\ u.sink = l
      /\ u.sent = BurstEnd /\ ~u.stalled
  BY <1>1, <1>2, <1>3 DEF UpSound, Upstream, Held
<1> HIDE DEF u
<1>8. UpSound(u)
  <2>1. u.sent <= LastSeq(u.buf) /\ u.sock # 0
    BY <1>1, <1>2, <1>7, Bounds DEF BurstEnd
  <2> QED BY <1>2, <1>7, <2>1 DEF UpSound
<1>9. UpSound(g.u) /\ Flows(u, g.u, g.out)
  BY <1>7, <1>8, FlushFlows
<1> DEFINE h == first \o next
           v == g.u
           rest == g.out
<1>10. h \in Seq(ToApp) /\ \A i \in DOMAIN h : ~IsLine(h[i])
  <2>1. h \in Seq(ToApp)
    BY <1>5, <1>6, Joined
  <2>2. AllOf(h, ops)
    BY <1>5, <1>6, JoinedOf
  <2> QED BY <2>1, <2>2 DEF AllOf, IsLine, ops
<1>11. rest \in Seq(ToApp) /\ v.sink = l /\ v.buf.first = b.first /\ LastSeq(v.buf) = LastSeq(b)
  BY <1>7, <1>9 DEF Flows
<1>12. f.u = v /\ f.out = h \o rest
  BY <1>4
<1>13. UpSound(v) /\ Flows(u, v, rest)
  BY <1>9
<1> HIDE DEF h, v, rest
<1>14. ASSUME NEW G, \A s \in Seqs : s < v.buf.first => s \in G
       PROVE  Brings(h \o rest, G, BurstEnd, v.sent, LastSeq(v.buf))
  <2>1. Brings(rest, G, u.sent, v.sent, LastSeq(v.buf))
    BY <1>8, <1>13, <1>14, FlowsBring
  <2>2. Brings(rest, G, BurstEnd, v.sent, LastSeq(v.buf))
    BY <1>7, <2>1
  <2> QED BY <1>10, <1>11, <2>2, BringsPadded
<1>15. h \o rest \in Seq(ToApp)
  BY <1>10, <1>11, Joined
<1>16. up.buf.first <= v.buf.first
  BY <1>2, <1>11
<1> QED BY <1>2, <1>11, <1>12, <1>13, <1>14, <1>15, <1>16

\* EngineServer.connect: the holder before is told.
LEMMA SupersededQuiet ==
    ASSUME IInv, NEW l \in Links, NEW ls \in [Links -> Link], \A m \in Links : Quiet(links[m], ls[m]),
           NEW ls1, ls1 = Superseded(ls, l)
    PROVE  /\ ls1 \in [Links -> Link] /\ \A m \in Links : Quiet(links[m], ls1[m])
           /\ ls1[l] = ls[l]
<1> DEFINE out == <<Op("detached")>>
<1>1. out \in Seq(ToApp) /\ \A i \in DOMAIN out : ~IsLine(out[i])
  BY BareIs DEF Bare, IsLine
<1>2. links \in [Links -> Link] /\ up.sink \in {0} \union Links
  BY InTurnIs
<1> HIDE DEF out
<1>3. CASE ls1 = ls
  BY <1>3
<1>4. CASE up.sink # l /\ ls1 = Deliver(ls, up.sink, out)
  <2>1. ls1 \in [Links -> Link] /\ \A m \in Links : Quiet(ls[m], ls1[m])
    BY <1>1, <1>2, <1>4, DeliverQuiet
  <2>2. ASSUME NEW m \in Links PROVE Quiet(links[m], ls1[m])
    <3>1. links[m] \in Link /\ ls[m] \in Link /\ ls1[m] \in Link
      BY <1>2, <2>1
    <3> QED BY <2>1, <3>1, QuietTwice
  <2>3. ls1[l] = ls[l]
    <3> DEFINE d == Deliver(ls, up.sink, out)
    <3>1. /\ d \in [Links -> Link]
          /\ \A m \in Links : m # up.sink \/ ~ls[m].appEnd \/ ~ls[m].engEnd => d[m] = ls[m]
          /\ \A m \in Links : m = up.sink /\ ls[m].appEnd /\ ls[m].engEnd =>
                Wrote(ls[m], d[m], ls[m].toApp \o out, ls[m].toEng)
      BY ONLY <1>1, <1>2, ls \in [Links -> Link], Delivers
    <3>2. ls1 = d
      BY <1>4
    <3> HIDE DEF d
    <3> QED BY <1>4, <3>1, <3>2
  <2> QED BY <2>1, <2>2, <2>3
<1> QED BY <1>3, <1>4 DEF Superseded, out

\* Frames other than lines, after another quiet step.
LEMMA ThenDeliver ==
    ASSUME IInv, NEW ls \in [Links -> Link], \A m \in Links : Quiet(links[m], ls[m]),
           NEW l \in Links, NEW o \in Bare, NEW d, d = Deliver(ls, l, <<Op(o)>>)
    PROVE  d \in [Links -> Link] /\ \A m \in Links : Quiet(links[m], d[m])
<1> DEFINE out == <<Op(o)>>
<1>1. out \in Seq(ToApp) /\ \A i \in DOMAIN out : ~IsLine(out[i])
  BY BareIs DEF Bare, IsLine
<1>2. d = Deliver(ls, l, out)
  OBVIOUS
<1> HIDE DEF out
<1>3. d \in [Links -> Link] /\ \A m \in Links : Quiet(ls[m], d[m])
  BY <1>1, <1>2, DeliverQuiet
<1>4. ASSUME NEW m \in Links PROVE Quiet(links[m], d[m])
  <2>1. links[m] \in Link /\ ls[m] \in Link /\ d[m] \in Link
    BY <1>3, InTurnIs
  <2> QED BY <1>3, <2>1, QuietTwice
<1> QED BY <1>3, <1>4

\* EngineServer.connect
LEMMA ConnectAck ==
    ASSUME OneSocketPlain, IInv, IInv', AckInv, NEW l \in Links, links[l].engEnd,
           NEW ls \in [Links -> Link], \A m \in Links : Quiet(links[m], ls[m]), ls[l].engEnd,
           Connect(l, ls), UNCHANGED <<nLinks, apps, marks, log>>
    PROVE  AckInv'
<1> DEFINE ls1 == Superseded(ls, l)
<1>1. ls1 \in [Links -> Link] /\ (\A m \in Links : Quiet(links[m], ls1[m])) /\ ls1[l] = ls[l]
  BY SupersededQuiet
<1>2. /\ UpSound(up) /\ up.buf.first \in Nat /\ LastSeq(up.buf) \in Nat /\ hist \in History
      /\ up.sock \in 0 .. MaxSockets /\ Held(up.buf)
  BY InTurnIs, UpIs
<1> HIDE DEF ls1
<1>3. CASE links' = Deliver(ls, l, <<Op("detached")>>) /\ UNCHANGED <<up, hist>>
  <2>1. \A m \in Links : Quiet(links[m], links'[m])
    BY <1>3, ThenDeliver DEF Bare
  <2> QED BY <1>2, <1>3, <2>1, EngineQuiet
<1>4. CASE /\ up' = [up EXCEPT !.sink = l, !.sent = 0, !.stalled = FALSE]
           /\ links' = Deliver(ls1, l, <<Op("dialing")>>) /\ UNCHANGED hist
  <2>1. \A m \in Links : Quiet(links[m], links'[m])
    BY <1>1, <1>4, ThenDeliver DEF Bare
  <2>2. up'.buf = up.buf /\ up'.sent = 0
    BY <1>2, <1>4 DEF UpSound, Upstream
  <2>3. up.buf.first <= up'.buf.first /\ LastSeq(up.buf) <= LastSeq(up'.buf)
    BY <1>2, <2>2
  <2>4. \A s \in Seqs : <<1, s>> \in hist'.acked => <<1, s>> \in hist.acked \/ Stored(s)
    <3>1. hist' = hist
      BY <1>4
    <3> QED BY ONLY <3>1
  <2>5. up'.sink # 0 => up'.sent = 0 \/ (up'.sink = up.sink /\ up'.sent = up.sent)
    BY <2>2
  <2>6. IInv /\ IInv' /\ AckInv /\ UNCHANGED <<apps, marks, log>>
    OBVIOUS
  <2> QED BY ONLY <2>1, <2>3, <2>4, <2>5, <2>6, EngineQuiet
<1>5. CASE /\ Registered
           /\ \E f \in AttachOutcomes(l) : up' = f.u /\ links' = Deliver(ls1, l, f.out)
           /\ hist' = Note("acked", up.sock, Released(up.buf, BurstEnd))
  <2>1. PICK f \in AttachOutcomes(l) : up' = f.u /\ links' = Deliver(ls1, l, f.out)
    BY <1>5
  <2> DEFINE out == f.out
  <2>2. /\ UpSound(up') /\ up'.sink = l /\ out \in Seq(ToApp)
        /\ up.buf.first <= up'.buf.first /\ LastSeq(up'.buf) = LastSeq(up.buf)
        /\ \A G : (\A s \in Seqs : s < up'.buf.first => s \in G) =>
              Brings(out, G, BurstEnd, up'.sent, LastSeq(up'.buf))
    BY <1>5, <2>1, AttachBrings
  <2>3. links' = Deliver(ls1, l, out)
    BY <2>1
  <2> HIDE DEF out
  <2>4. \A s \in Seqs : s < up'.buf.first => s \in Done'
    BY DEF Done
  <2>5. Brings(out, Done', BurstEnd, up'.sent, Received')
    <3>1. Received' = LastSeq(up'.buf)
      BY DEF Received, LastSeq
    <3> QED BY <2>2, <2>4, <3>1
  <2>6. BurstEnd \in Nat /\ \A s \in Seqs : s <= BurstEnd => s = BurstEnd /\ Stored(s) /\ Stored(s)'
    <3>1. \A s \in Seqs : s \in Nat \ {0}
      BY Bounds
    <3>2. ASSUME NEW s \in Seqs, s <= BurstEnd PROVE s = BurstEnd /\ RowsAt[s] = 0
      BY <3>1, <3>2 DEF OneSocketPlain, BurstEnd
    <3>3. \A s \in Seqs : RowsAt[s] = 0 => Stored(s) /\ Stored(s)'
      BY DEF Stored, RowsOf
    <3> QED BY <3>2, <3>3 DEF BurstEnd
  <2>7. ASSUME NEW s \in 1 .. BurstEnd PROVE s \in Done'
    <3>1. s = 1 /\ 1 <= LastSeq(up.buf)
      BY <1>2, <1>5, <2>7 DEF BurstEnd, Registered
    <3>2. s \in Seqs
      BY <1>2, <3>1, HeldIs, Bounds DEF Seqs
    <3> QED BY <2>6, <2>7, <3>2 DEF Done
  <2>8. ASSUME NEW s \in Seqs, <<1, s>> \in hist'.acked PROVE <<1, s>> \in hist.acked \/ Stored(s)
    <3>1. hist'.acked = hist.acked \union ({up.sock} \X Released(up.buf, BurstEnd))
      BY <1>2, <1>5 DEF Note, History
    <3>2. CASE s \in Released(up.buf, BurstEnd)
      BY <2>6, <3>2 DEF Released
    <3> QED BY <2>8, <3>1, <3>2
  <2>9. LastSeq(up.buf) <= LastSeq(up'.buf)
    BY <1>2, <2>2
  <2> QED BY <1>1, <2>2, <2>3, <2>5, <2>6, <2>7, <2>8, <2>9, EngineFlushes
<1>6. CASE /\ up.st # "dialing" /\ ~Registered /\ up.sock < MaxSockets
           /\ up' = Dialing(up.sock + 1, l)
           /\ links' = Deliver(ls1, l, <<Op("dialing")>>) /\ UNCHANGED hist
  <2>1. \A m \in Links : Quiet(links[m], links'[m])
    BY <1>1, <1>6, ThenDeliver DEF Bare
  <2>2. up.st = "none"
    <3>1. up.sock = 0
      BY <1>2, <1>6 DEF OneSocketPlain
    <3> QED BY <1>2, <3>1 DEF UpSound
  <2>3. up.buf = EmptyBuffer
    BY <1>2, <2>2 DEF UpSound
  <2>4. up'.sent = 0 /\ up'.buf = EmptyBuffer
    BY <1>6 DEF Dialing, NoUpstream
  <2>5. up.buf.first <= up'.buf.first /\ LastSeq(up.buf) <= LastSeq(up'.buf)
    BY <1>2, <2>3, <2>4
  <2>6. \A s \in Seqs : <<1, s>> \in hist'.acked => <<1, s>> \in hist.acked \/ Stored(s)
    <3>1. hist' = hist
      BY <1>6
    <3> QED BY ONLY <3>1
  <2>7. up'.sink # 0 => up'.sent = 0 \/ (up'.sink = up.sink /\ up'.sent = up.sent)
    BY <2>4
  <2>8. IInv /\ IInv' /\ AckInv /\ UNCHANGED <<apps, marks, log>>
    OBVIOUS
  <2> QED BY ONLY <2>1, <2>5, <2>6, <2>7, <2>8, EngineQuiet
<1> QED BY <1>3, <1>4, <1>5, <1>6 DEF Connect, ls1

\* EngineServer.dispatch: an ack releases lines that are stored.
LEMMA ReadsAck ==
    ASSUME OneSocketPlain, IInv, IInv', AckInv, NEW l \in Links, EngineReads(l)
    PROVE  AckInv'
<1> DEFINE frame == Head(links[l].toEng)
           ls == Heard(l)
<1>1. /\ links[l].engEnd /\ links[l].toEng # <<>>
      /\ UNCHANGED <<nLinks, apps, marks, log>>
      /\ \/ /\ frame.op = "hello"
            /\ links' = IF Registered /\ up.sink = 0
                        THEN Deliver(ls, l, <<Op("held")>>) ELSE ls
            /\ UNCHANGED <<up, hist>>
         \/ frame.op = "connect" /\ Connect(l, ls)
         \/ /\ frame.op = "ack"
            /\ links' = ls
            /\ IF up.st = "none" THEN UNCHANGED <<up, hist>>
               ELSE /\ up' = [up EXCEPT !.buf = Acked(@, frame.seq)]
                    /\ hist' = Note("acked", up.sock, Released(up.buf, frame.seq))
         \/ frame.op = "detach" /\ LetGo(l, ls) /\ UNCHANGED hist
  BY DEF EngineReads, Heard
<1>2. ls \in [Links -> Link] /\ (\A m \in Links : Quiet(links[m], ls[m])) /\ ls[l].engEnd
  <2>1. ls = Heard(l)
    OBVIOUS
  <2> HIDE DEF ls
  <2>2. ls \in [Links -> Link] /\ \A m \in Links : Quiet(links[m], ls[m])
    BY <1>1, <2>1, HeardQuiet
  <2>3. Stays(links[l], ls[l])
    BY <1>1, <2>1, Reading
  <2> QED BY <1>1, <2>2, <2>3 DEF Stays
<1>3. /\ UpSound(up) /\ up.buf.first \in Nat /\ LastSeq(up.buf) \in Nat /\ hist \in History
      /\ up.sock \in 0 .. MaxSockets /\ Held(up.buf)
  BY InTurnIs, UpIs
<1> HIDE DEF ls
<1>4. CASE frame.op = "connect" /\ Connect(l, ls)
  BY <1>1, <1>2, <1>4, ConnectAck
<1>5. CASE links' = ls /\ UNCHANGED <<up, hist>>
  BY <1>1, <1>2, <1>3, <1>5, EngineQuiet
<1>6. CASE frame.op = "detach" /\ LetGo(l, ls) /\ UNCHANGED hist
  BY <1>1, <1>2, <1>6, LetGoAck
<1>7. CASE links' = Deliver(ls, l, <<Op("held")>>) /\ UNCHANGED <<up, hist>>
  <2>1. \A m \in Links : Quiet(links[m], links'[m])
    BY <1>2, <1>7, ThenDeliver DEF Bare
  <2> QED BY <1>1, <1>3, <1>7, <2>1, EngineQuiet
<1>8. CASE /\ frame.op = "ack" /\ links' = ls
           /\ up' = [up EXCEPT !.buf = Acked(@, frame.seq)]
           /\ hist' = Note("acked", up.sock, Released(up.buf, frame.seq))
  <2> DEFINE q == frame.seq
             b == Acked(up.buf, q)
  <2>1. q \in Nat /\ Settled(Done, Received, q)
    <3>1. links[l].toEng \in Seq(ToEng) /\ AcksTrue(links[l].toEng, Done, Received)
      BY AckIs
    <3>2. 1 \in DOMAIN links[l].toEng /\ frame = links[l].toEng[1] /\ frame \in ToEng
      BY <1>1, <3>1, HeadTailProperties, LenProperties, EmptySeq
    <3>3. frame.seq \in Seqs
      BY <1>8, <3>2 DEF ToEng
    <3>4. frame.seq \in Nat
      BY <3>3, OrNone
    <3>5. Settled(Done, Received, frame.seq)
      BY <1>8, <3>1, <3>2 DEF AcksTrue
    <3> QED BY <3>4, <3>5
  <2>2. up' = [up EXCEPT !.buf = b] /\ hist' = Note("acked", up.sock, Released(up.buf, q))
    BY <1>8
  <2> HIDE DEF q
  <2>3. Held(b) /\ LastSeq(b) = LastSeq(up.buf) /\ b.first >= up.buf.first /\ b.first \in Nat
    BY <1>3, <2>1, AckedHeld, HeldIs
  <2> HIDE DEF b
  <2>4. up'.buf = b /\ up'.sink = up.sink /\ up'.sent = up.sent
    BY <1>3, <2>2 DEF UpSound, Upstream
  <2>5. up.buf.first <= up'.buf.first /\ LastSeq(up.buf) <= LastSeq(up'.buf)
    BY <1>3, <2>3, <2>4
  <2>6. ASSUME NEW s \in Seqs, <<1, s>> \in hist'.acked PROVE <<1, s>> \in hist.acked \/ Stored(s)
    <3>1. hist'.acked = hist.acked \union ({up.sock} \X Released(up.buf, q))
      BY <1>3, <2>2 DEF Note, History
    <3>2. CASE s \in Released(up.buf, q)
      <4>1. s \in Nat /\ s >= up.buf.first /\ s <= q /\ s >= 1
        BY <1>3, <3>2, Bounds DEF Released, Pending, Held, BufferType
      <4>2. s \in Done
        BY <2>1, <4>1 DEF Settled
      <4> QED BY <1>3, <4>1, <4>2 DEF Done
    <3> QED BY <2>6, <3>1, <3>2
  <2>7. \A m \in Links : Quiet(links[m], links'[m])
    BY <1>2, <1>8
  <2> QED BY <1>1, <2>4, <2>5, <2>6, <2>7, EngineQuiet
<1> QED BY <1>1, <1>4, <1>5, <1>6, <1>7, <1>8

-----------------------------------------------------------------------------
(* Steps of a process.                                                     *)

\* What is to be shown of a step of process a: its acks are of lines that are
\* done, and what it has yet to read of its own link leaves none out.
LEMMA AppCarries ==
    ASSUME IInv, IInv', AckInv, up' = up, hist'.acked = hist.acked, StoredRows \subseteq StoredRows',
           NEW a \in Apps, NEW p, apps' = [apps EXCEPT ![a] = p],
           Honest(p, Done', Received'), Settled(Done', Received', marks'[1]),
           \A m \in Links : AcksTrue(links'[m].toEng, Done', Received'),
           \A m \in Links : m # p.link /\ links'[m].appEnd => links'[m] = links[m],
           \A m \in Links : m = p.link =>
               /\ Whole(links'[m].toApp, Done' \union Hand(p), Received')
               /\ up.sink = m => Reaches(links'[m].toApp, Done' \union Hand(p), up.sent)
    PROVE  AckInv'
<1> DEFINE D == Done'
           n == Received'
<1>1. /\ Done \subseteq D /\ Received <= n /\ Received \in Nat /\ n \in Nat
      /\ \A s \in Seqs : Stored(s) => Stored(s)'
  <2>1. UpSound(up)
    BY DEF IInv
  <2>2. up.buf.first \in Nat /\ LastSeq(up.buf) \in Nat
    BY <2>1, UpIs
  <2>3. up.buf.first <= up'.buf.first /\ LastSeq(up.buf) <= LastSeq(up'.buf)
    BY <2>2
  <2> QED BY <2>3, Grows
<1>2. apps \in [Apps -> Process] /\ apps'[a] = p /\ \A b \in Apps : b # a => apps'[b] = apps[b]
  BY AppIs
<1> HIDE DEF D, n
<1>3. \A q \in Process : Honest(q, Done, Received) => Honest(q, D, n)
  BY <1>1, SettledMore
<1>4. ASSUME NEW b \in Apps PROVE Honest(apps'[b], D, n)
  <2>1. CASE b = a
    BY <1>2, <2>1 DEF D, n
  <2>2. CASE b # a
    <3>1. Honest(apps[b], Done, Received)
      BY DEF AckInv
    <3> QED BY <1>2, <1>3, <2>2, <3>1
  <2> QED BY <2>1, <2>2
<1>5. ASSUME NEW m \in Links, links'[m].appEnd, NEW G, G = D \union Hand(apps'[links'[m].owner])
      PROVE  /\ Whole(links'[m].toApp, G, n)
             /\ up'.sink = m => Reaches(links'[m].toApp, G, up'.sent)
  <2>1. links'[m].owner \in Apps /\ apps'[links'[m].owner].link = m
    <3>1. links'[m].owner # 0 /\ apps'[links'[m].owner].link = m /\ links' \in [Links -> Link]
      BY <1>5 DEF IInv, Placed, Typed
    <3> QED BY <3>1 DEF Link
  <2>2. CASE m = p.link
    <3>1. links'[m].owner = a
      <4>1. apps'[a].link # 0
        BY <1>2, <2>2, Bounds
      <4>2. links'[apps'[a].link].owner = a
        BY <4>1 DEF IInv, Placed
      <4> QED BY <1>2, <2>2, <4>2
    <3>2. G = D \union Hand(p)
      BY <1>2, <1>5, <3>1
    <3> QED BY <2>2, <3>2 DEF D, n
  <2>3. CASE m # p.link
    <3>1. links'[m] = links[m]
      BY <1>5, <2>3
    <3>2. links[m].owner # a
      BY <1>2, <2>1, <2>3, <3>1
    <3>3. Safe(m) \subseteq G
      BY <1>1, <1>2, <1>5, <2>1, <3>1, <3>2 DEF Safe
    <3>4. /\ links[m].toApp \in Seq(ToApp) /\ Whole(links[m].toApp, Safe(m), Received)
          /\ up.sink = m => Reaches(links[m].toApp, Safe(m), up.sent)
          /\ up.sent \in Nat
      BY <1>5, <3>1, AckIs
    <3>5. Whole(links[m].toApp, G, n)
      BY <1>1, <3>3, <3>4, WholeMore
    <3>6. ASSUME up.sink = m PROVE Reaches(links[m].toApp, G, up.sent)
      BY <3>3, <3>4, <3>6 DEF Reaches
    <3> QED BY <3>1, <3>5, <3>6
  <2> QED BY <2>2, <2>3
<1>6. ASSUME NEW s \in Seqs, <<1, s>> \in hist'.acked PROVE Stored(s)'
  <2>1. Stored(s)
    BY <1>6 DEF AckInv
  <2> QED BY <1>1, <2>1
<1>7. \A m \in Links : Safe(m)' = D \union Hand(apps'[links'[m].owner])
  BY DEF Safe, D, Hand
<1>8. ASSUME NEW m \in Links, links'[m].appEnd
      PROVE  /\ Whole(links'[m].toApp, Safe(m)', n)
             /\ up'.sink = m => Reaches(links'[m].toApp, Safe(m)', up'.sent)
  BY <1>5, <1>7, <1>8
<1>9. /\ \A m \in Links : AcksTrue(links'[m].toEng, Done', Received')
      /\ \A m \in Links : links'[m].appEnd => Whole(links'[m].toApp, Safe(m)', Received')
      /\ \A b \in Apps : Honest(apps'[b], Done', Received')
      /\ Settled(Done', Received', marks'[1])
      /\ \A s \in Seqs : <<1, s>> \in hist'.acked => Stored(s)'
  BY <1>4, <1>6, <1>8 DEF D, n
<1>10. up'.sink # 0 /\ links'[up'.sink].appEnd => Reaches(links'[up'.sink].toApp, Safe(up.sink)', up'.sent)
  <2>1. CASE up'.sink = 0
    BY <2>1
  <2>2. CASE up'.sink # 0
    <3>1. UpSound(up')
      BY DEF IInv
    <3>2. PICK m \in Links : m = up'.sink
      BY <2>2, <3>1, UpIs
    <3>3. links'[m].appEnd => Reaches(links'[m].toApp, D \union Hand(apps'[links'[m].owner]), up'.sent)
      BY <1>5, <3>2
    <3>4. Safe(up.sink)' = D \union Hand(apps'[links'[m].owner])
      BY <3>2 DEF Safe, Hand, D
    <3> QED BY <3>2, <3>3, <3>4
  <2> QED BY <2>1, <2>2
<1> QED BY <1>9, <1>10 DEF AckInv

\* What the invariant says is still so after a step of a process.
LEMMA AppMore ==
    ASSUME IInv, IInv', AckInv, up' = up, StoredRows \subseteq StoredRows'
    PROVE  /\ Done \subseteq Done' /\ Received' = Received /\ Received \in Nat
           /\ \A m \in Links : AcksTrue(links[m].toEng, Done', Received')
           /\ \A b \in Apps : Honest(apps[b], Done', Received')
           /\ Settled(Done', Received', marks[1]) /\ Settled(Done', Received', 0)
<1> DEFINE D == Done'
           n == Received'
<1>1. Done \subseteq D /\ Received \in Nat /\ n = Received
  <2>1. UpSound(up)
    BY DEF IInv
  <2>2. up.buf.first \in Nat /\ LastSeq(up.buf) \in Nat
    BY <2>1, UpIs
  <2>3. up.buf.first <= up'.buf.first /\ LastSeq(up.buf) <= LastSeq(up'.buf)
    BY <2>2
  <2>4. Received' = Received
    BY DEF Received, LastSeq
  <2> QED BY <2>3, <2>4, Grows
<1> HIDE DEF D, n
<1>2. Received <= n /\ n \in Nat
  BY <1>1
<1>3. /\ \A q \in Nat : Settled(Done, Received, q) => Settled(D, n, q)
      /\ \A e \in Seq(ToEng) : AcksTrue(e, Done, Received) => AcksTrue(e, D, n)
      /\ \A p \in Process : Honest(p, Done, Received) => Honest(p, D, n)
  BY <1>1, <1>2, SettledMore
<1>4. \A m \in Links : AcksTrue(links[m].toEng, D, n)
  BY <1>3, AckIs
<1>5. ASSUME NEW b \in Apps PROVE Honest(apps[b], D, n)
  <2>1. apps[b] \in Process
    BY AppIs
  <2>2. Honest(apps[b], Done, Received)
    BY DEF AckInv
  <2> QED BY <1>3, <2>1, <2>2
<1>6. Settled(D, n, marks[1])
  <2>1. 1 \in Socks
    BY Bounds DEF Socks
  <2>2. marks[1] \in {0} \union Seqs
    BY <2>1 DEF IInv, Typed
  <2>3. marks[1] \in Nat
    BY <2>2, OrNone
  <2>4. Settled(Done, Received, marks[1])
    BY DEF AckInv
  <2> QED BY <1>3, <2>3, <2>4
<1>7. Settled(D, n, 0)
  BY <1>2 DEF Settled
<1> QED BY <1>1, <1>4, <1>5, <1>6, <1>7 DEF D, n

\* Rows stay as long as the log does.
LEMMA RowsStay == log' = log => StoredRows \subseteq StoredRows'
BY DEF StoredRows

\* What is honest of a process rests on what it stores and what it acks.
LEMMA HonestSame ==
    ASSUME NEW p, NEW q, q.ackSeq = p.ackSeq, q.todo = p.todo, q.at = p.at,
           NEW D, NEW n, Honest(p, D, n)
    PROVE  Honest(q, D, n)
BY DEF Honest

\* A process opens its end of a link.
LEMMA OpensLinkAck ==
    ASSUME IInv, IInv', AckInv, NEW a \in Apps, nLinks < MaxLinks, NEW first \in {"connect", "hello"},
           links' = [links EXCEPT ![nLinks + 1] = NewLink(a, first)],
           NEW p, apps' = [apps EXCEPT ![a] = p], p.link = nLinks + 1,
           p.ackSeq = apps[a].ackSeq, p.todo = apps[a].todo, p.at = apps[a].at,
           UNCHANGED <<up, marks, log, hist>>
    PROVE  AckInv'
<1> DEFINE k == NewLink(a, first)
<1>1. StoredRows \subseteq StoredRows'
  BY RowsStay
<1>2. /\ \A m \in Links : AcksTrue(links[m].toEng, Done', Received')
      /\ \A b \in Apps : Honest(apps[b], Done', Received')
      /\ Settled(Done', Received', marks[1])
  BY <1>1, AppMore
<1>3. nLinks \in Nat /\ links \in [Links -> Link] /\ nLinks + 1 \in Links
  <2>1. nLinks \in Nat /\ links \in [Links -> Link]
    BY AppIs, InTurnIs
  <2> QED BY <2>1, Bounds DEF Links
<1>4. k.toApp = <<>> /\ k.toEng = <<[op |-> first]>>
  BY DEF NewLink
<1> HIDE DEF k
<1>5. links'[nLinks + 1] = k /\ \A m \in Links : m # nLinks + 1 => links'[m] = links[m]
  BY <1>3 DEF k
<1>6. ASSUME NEW D, NEW n PROVE AcksTrue(k.toEng, D, n)
  BY <1>4 DEF AcksTrue
<1>7. \A m \in Links : AcksTrue(links'[m].toEng, Done', Received')
  BY <1>2, <1>5, <1>6
<1>8. Honest(p, Done', Received')
  BY <1>2, HonestSame
<1>9. up.sink # nLinks + 1
  <2>1. CASE up.sink = 0
    BY <1>3, <2>1
  <2>2. CASE up.sink # 0
    <3>1. up.sink \in Links /\ links[up.sink].engEnd
      BY <2>2, InTurnIs
    <3>2. up.sink <= nLinks /\ up.sink \in Nat
      BY <3>1, Bounds DEF IInv, Placed
    <3> QED BY <1>3, <3>2
  <2> QED BY <2>1, <2>2
<1>10. ASSUME NEW G, NEW n PROVE Whole(links'[nLinks + 1].toApp, G, n)
  BY <1>4, <1>5 DEF Whole
<1>11. Settled(Done', Received', marks'[1]) /\ hist'.acked = hist.acked /\ up' = up
  BY <1>2
<1> QED BY <1>1, <1>5, <1>7, <1>8, <1>9, <1>10, <1>11, AppCarries

LEMMA BootAck == ASSUME IInv, IInv', AckInv, NEW a \in Apps, Boot(a) PROVE AckInv'
<1> DEFINE p == [apps[a] EXCEPT !.st = "asking", !.link = nLinks + 1]
<1>1. apps[a] \in Process /\ apps \in [Apps -> Process]
  BY AppIs
<1>2. /\ nLinks < MaxLinks /\ links' = [links EXCEPT ![nLinks + 1] = NewLink(a, "connect")]
      /\ apps' = [apps EXCEPT ![a].st = "asking", ![a].link = nLinks + 1]
      /\ UNCHANGED <<up, marks, log, hist>>
  BY DEF Boot
<1>3. apps' = [apps EXCEPT ![a] = p] /\ p.link = nLinks + 1 /\ p.ackSeq = apps[a].ackSeq
      /\ p.todo = apps[a].todo /\ p.at = apps[a].at
  BY <1>1, <1>2 DEF Process
<1> HIDE DEF p
<1> QED BY <1>2, <1>3, OpensLinkAck

LEMMA RelinkAck == ASSUME IInv, IInv', AckInv, NEW a \in Apps, Relink(a) PROVE AckInv'
<1> DEFINE p == [apps[a] EXCEPT !.st = "asking", !.link = nLinks + 1]
           q == [apps[a] EXCEPT !.link = nLinks + 1]
<1>1. apps[a] \in Process /\ apps \in [Apps -> Process]
  BY AppIs
<1>2. nLinks < MaxLinks /\ UNCHANGED <<up, marks, log, hist>>
  BY DEF Relink
<1>3. CASE /\ links' = [links EXCEPT ![nLinks + 1] = NewLink(a, "connect")]
           /\ apps' = [apps EXCEPT ![a].st = "asking", ![a].link = nLinks + 1]
  <2>1. apps' = [apps EXCEPT ![a] = p] /\ p.link = nLinks + 1 /\ p.ackSeq = apps[a].ackSeq
        /\ p.todo = apps[a].todo /\ p.at = apps[a].at
    BY <1>1, <1>3 DEF Process
  <2> HIDE DEF p
  <2> QED BY <1>2, <1>3, <2>1, OpensLinkAck
<1>4. CASE /\ links' = [links EXCEPT ![nLinks + 1] = NewLink(a, "hello")]
           /\ apps' = [apps EXCEPT ![a].link = nLinks + 1]
  <2>1. apps' = [apps EXCEPT ![a] = q] /\ q.link = nLinks + 1 /\ q.ackSeq = apps[a].ackSeq
        /\ q.todo = apps[a].todo /\ q.at = apps[a].at
    BY <1>1, <1>4 DEF Process
  <2> HIDE DEF q
  <2> QED BY <1>2, <1>4, <2>1, OpensLinkAck
<1> QED BY <1>3, <1>4 DEF Relink

\* What is on the link of a process leaves as little out as before.
LEMMA OwnSame ==
    ASSUME IInv, IInv', AckInv, up' = up, StoredRows \subseteq StoredRows', NEW a \in Apps,
           NEW m \in Links, m = apps[a].link, NEW G, Done' \subseteq G,
           \A s \in Hand(apps[a]) : s \in G
    PROVE  /\ links[m].toApp \in Seq(ToApp) /\ Whole(links[m].toApp, G, Received')
           /\ up.sink = m => Reaches(links[m].toApp, G, up.sent)
<1>1. Done \subseteq Done' /\ Received' = Received /\ Received \in Nat
  BY AppMore
<1>2. links[m].appEnd /\ links[m].owner = a
  BY AppIs
<1>3. Safe(m) \subseteq G
  BY <1>1, <1>2 DEF Safe
<1>4. /\ links[m].toApp \in Seq(ToApp) /\ Whole(links[m].toApp, Safe(m), Received)
      /\ up.sink = m => Reaches(links[m].toApp, Safe(m), up.sent)
  BY <1>2, AckIs
<1> DEFINE n == Received'
<1>5. n \in Nat /\ Received <= n /\ Received \in Nat
  BY <1>1
<1> HIDE DEF n
<1>6. Whole(links[m].toApp, G, n)
  BY <1>3, <1>4, <1>5, WholeMore
<1>7. ASSUME up.sink = m PROVE Reaches(links[m].toApp, G, up.sent)
  BY <1>3, <1>4, <1>7 DEF Reaches
<1> QED BY <1>4, <1>6, <1>7 DEF n

\* A request that is not an ack, or an ack of what is done.
TrueFrame(f, D, n)  == f.op = "ack" => Settled(D, n, f.seq)
TrueLinks(ls, D, n) == \A m \in Links : AcksTrue(ls[m].toEng, D, n)

LEMMA AskTrue ==
    ASSUME NEW ls \in [Links -> Link], NEW l \in {0} \union Links, NEW f \in ToEng, NEW D, NEW n,
           TrueLinks(ls, D, n), TrueFrame(f, D, n)
    PROVE  \A m \in Links : /\ AcksTrue(Ask(ls, l, f)[m].toEng, D, n)
                            /\ Ask(ls, l, f)[m].toApp = ls[m].toApp
                            /\ m # l => Ask(ls, l, f)[m] = ls[m]
<1> DEFINE d == Ask(ls, l, f)
<1>1. /\ \A m \in Links : m # l \/ ~ls[m].engEnd => d[m] = ls[m]
      /\ \A m \in Links : m = l /\ ls[m].engEnd =>
            Wrote(ls[m], d[m], ls[m].toApp, Append(ls[m].toEng, f))
  BY AsksOne
<1> HIDE DEF d
<1>2. ASSUME NEW m \in Links, d[m].toEng = Append(ls[m].toEng, f) PROVE AcksTrue(d[m].toEng, D, n)
  <2> DEFINE e == ls[m].toEng
             r == d[m].toEng
             k == Len(e)
  <2>1. e \in Seq(ToEng) /\ AcksTrue(e, D, n)
    BY LinkIs DEF TrueLinks
  <2>2. r = Append(e, f)
    BY <1>2
  <2> HIDE DEF e, r
  <2>3. /\ DOMAIN e = 1 .. k /\ DOMAIN r = 1 .. k + 1 /\ k \in Nat
        /\ (\A i \in 1 .. k : r[i] = e[i]) /\ r[k + 1] = f
    BY <2>1, <2>2, AppendProperties, LenProperties
  <2> HIDE DEF k
  <2> SUFFICES ASSUME NEW i \in DOMAIN r, r[i].op = "ack" PROVE Settled(D, n, r[i].seq)
    BY DEF AcksTrue, r
  <2>4. CASE i = k + 1
    BY <2>3, <2>4 DEF TrueFrame
  <2>5. CASE i # k + 1
    <3>1. i \in 1 .. k
      BY <2>3, <2>5
    <3> QED BY <2>1, <2>3, <3>1 DEF AcksTrue
  <2> QED BY <2>4, <2>5
<1>3. ASSUME NEW m \in Links
      PROVE  /\ AcksTrue(d[m].toEng, D, n) /\ d[m].toApp = ls[m].toApp
             /\ m # l => d[m] = ls[m]
  <2>1. CASE m = l /\ ls[m].engEnd
    BY <1>1, <1>2, <2>1 DEF Wrote
  <2>2. CASE ~(m = l /\ ls[m].engEnd)
    BY <1>1, <2>2 DEF TrueLinks
  <2> QED BY <2>1, <2>2
<1> QED BY <1>3 DEF d

\* A process asks over its link.
LEMMA AsksAck ==
    ASSUME IInv, IInv', AckInv, NEW a \in Apps, NEW f \in ToEng,
           f.op = "ack" => Settled(Done', Received', f.seq),
           links' = Ask(links, apps[a].link, f), NEW p, apps' = [apps EXCEPT ![a] = p],
           p.link = apps[a].link, Honest(p, Done', Received'),
           p.todo = apps[a].todo, p.at = apps[a].at, UNCHANGED <<up, marks, log, hist>>
    PROVE  AckInv'
<1>1. StoredRows \subseteq StoredRows'
  BY RowsStay
<1>2. /\ \A m \in Links : AcksTrue(links[m].toEng, Done', Received')
      /\ Settled(Done', Received', marks[1])
  BY <1>1, AppMore
<1>3. links \in [Links -> Link] /\ p.link \in {0} \union Links
  BY AppIs, InTurnIs
<1>4. \A m \in Links : /\ AcksTrue(links'[m].toEng, Done', Received')
                       /\ links'[m].toApp = links[m].toApp
                       /\ m # p.link => links'[m] = links[m]
  <2> DEFINE D == Done'
             n == Received'
             l == p.link
             d == Ask(links, l, f)
  <2>1. /\ TrueLinks(links, D, n) /\ TrueFrame(f, D, n)
        /\ l \in {0} \union Links /\ links' = d
    BY <1>2, <1>3 DEF TrueLinks, TrueFrame
  <2> HIDE DEF D, n, l
  <2>2. \A m \in Links : /\ AcksTrue(d[m].toEng, D, n)
                         /\ d[m].toApp = links[m].toApp
                         /\ m # l => d[m] = links[m]
    BY ONLY <1>3, <2>1, f \in ToEng, AskTrue
  <2> HIDE DEF d
  <2> QED BY <2>1, <2>2 DEF D, n, l
<1>5. Hand(p) = Hand(apps[a])
  BY DEF Hand
<1>6. ASSUME NEW m \in Links, m = p.link
      PROVE  /\ Whole(links'[m].toApp, Done' \union Hand(p), Received')
             /\ up.sink = m => Reaches(links'[m].toApp, Done' \union Hand(p), up.sent)
  BY <1>1, <1>4, <1>5, <1>6, OwnSame
<1>7. Settled(Done', Received', marks'[1]) /\ hist'.acked = hist.acked /\ up' = up
  BY <1>2
<1> QED BY <1>1, <1>4, <1>6, <1>7, AppCarries

LEMMA RedialAck == ASSUME IInv, IInv', AckInv, NEW a \in Apps, Redial(a) PROVE AckInv'
<1> DEFINE p == [apps[a] EXCEPT !.st = "asking"]
           f == Op("connect")
<1>1. apps[a] \in Process /\ apps \in [Apps -> Process]
  BY AppIs
<1>2. /\ apps' = [apps EXCEPT ![a].st = "asking"] /\ links' = Ask(links, apps[a].link, f)
      /\ UNCHANGED <<up, marks, log, hist>>
  BY DEF Redial
<1>3. apps' = [apps EXCEPT ![a] = p] /\ p.link = apps[a].link /\ p.ackSeq = apps[a].ackSeq
      /\ p.todo = apps[a].todo /\ p.at = apps[a].at
  BY <1>1, <1>2 DEF Process
<1> HIDE DEF p
<1>4. f \in ToEng /\ f.op # "ack"
  BY DEF Op, ToEng
<1>5. Honest(apps[a], Done', Received')
  BY <1>2, RowsStay, AppMore
<1>6. Honest(p, Done', Received')
  BY <1>3, <1>5, HonestSame
<1> HIDE DEF f
<1> QED BY <1>2, <1>3, <1>4, <1>6, AsksAck

\* EngineTransport.ack: of what it has stored, and all before it.
LEMMA SendAckAck == ASSUME IInv, IInv', AckInv, NEW a \in Apps, SendAck(a) PROVE AckInv'
<1> DEFINE p == [apps[a] EXCEPT !.ackSeq = 0]
           f == [op |-> "ack", seq |-> apps[a].ackSeq]
<1>1. apps[a] \in Process /\ apps \in [Apps -> Process]
  BY AppIs
<1>2. /\ apps' = [apps EXCEPT ![a].ackSeq = 0] /\ links' = Ask(links, apps[a].link, f)
      /\ UNCHANGED <<up, marks, log, hist>> /\ apps[a].ackSeq # 0
  BY DEF SendAck
<1>3. apps' = [apps EXCEPT ![a] = p] /\ p.link = apps[a].link /\ p.ackSeq = 0
      /\ p.todo = apps[a].todo /\ p.at = apps[a].at
  BY <1>1, <1>2 DEF Process
<1> HIDE DEF p
<1>4. f \in ToEng /\ f.op = "ack" /\ f.seq = apps[a].ackSeq
  BY <1>1, <1>2 DEF ToEng, Process
<1>5. Honest(apps[a], Done', Received') /\ Settled(Done', Received', 0)
  BY <1>2, RowsStay, AppMore
<1>6. Honest(p, Done', Received') /\ Settled(Done', Received', f.seq)
  BY <1>3, <1>4, <1>5 DEF Honest
<1> HIDE DEF f
<1> QED BY <1>2, <1>3, <1>4, <1>6, AsksAck

\* A process leaves its link, and its connection.
LEMMA LeavesAck ==
    ASSUME IInv, IInv', AckInv, NEW a \in Apps, NEW p, apps' = [apps EXCEPT ![a] = p],
           p.link = 0, p.todo = {}, p.ackSeq = 0, UNCHANGED <<up, marks, log, hist>>,
           \A m \in Links : m # apps[a].link => links'[m] = links[m],
           \A m \in Links : m = apps[a].link =>
               ~links'[m].appEnd /\ AcksTrue(links'[m].toEng, Done', Received')
    PROVE  AckInv'
<1>1. StoredRows \subseteq StoredRows'
  BY RowsStay
<1>2. /\ \A m \in Links : AcksTrue(links[m].toEng, Done', Received')
      /\ Settled(Done', Received', marks[1]) /\ Settled(Done', Received', 0)
  BY <1>1, AppMore
<1>3. Honest(p, Done', Received')
  BY <1>2 DEF Honest
<1>4. \A m \in Links : AcksTrue(links'[m].toEng, Done', Received')
  BY <1>2
<1>5. \A m \in Links : m # p.link
  BY Bounds
<1>6. \A m \in Links : m # p.link /\ links'[m].appEnd => links'[m] = links[m]
  OBVIOUS
<1>7. Settled(Done', Received', marks'[1]) /\ hist'.acked = hist.acked /\ up' = up
  BY <1>2
<1> QED BY <1>1, <1>3, <1>4, <1>5, <1>6, <1>7, AppCarries

\* Of what it wrote the engine may read a prefix.
LEMMA PrefixTrue ==
    ASSUME NEW e \in Seq(ToEng), NEW r \in PrefixesOf(e), NEW D, NEW n, AcksTrue(e, D, n)
    PROVE  AcksTrue(r, D, n)
<1>1. PICK k \in 0 .. Len(e) : r = SubSeq(e, 1, k)
  BY DEF PrefixesOf
<1>2. Len(e) \in Nat /\ DOMAIN e = 1 .. Len(e)
  BY LenProperties
<1>3. DOMAIN r = 1 .. k /\ \A j \in 1 .. k : r[j] = e[j]
  BY <1>1, <1>2, SubSeqProperties
<1>4. Echo(e, r)
  BY <1>2, <1>3 DEF Echo
<1> QED BY <1>4, AcksEcho

LEMMA GoneIs ==
    ASSUME NEW ls \in [Links -> Link], NEW l \in Links, NEW r, NEW d, d = Gone(ls, l, r)
    PROVE  ~d[l].appEnd /\ d[l].toEng = r /\ \A m \in Links : m # l => d[m] = ls[m]
<1> DEFINE k == [ls[l] EXCEPT !.appEnd = FALSE, !.toEng = r, !.toApp = <<>>]
<1>1. d = [ls EXCEPT ![l] = k]
  BY DEF Gone
<1>2. ~k.appEnd /\ k.toEng = r
  <2>1. ls[l] \in Link
    OBVIOUS
  <2> QED BY <2>1 DEF Link
<1> HIDE DEF k
<1> QED BY <1>1, <1>2

\* A process that starts afresh.
LEMMA Blank ==
    ASSUME NEW st, NEW p, p = [NoApp EXCEPT !.st = st]
    PROVE  p.link = 0 /\ p.todo = {} /\ p.ackSeq = 0
BY DEF NoApp

LEMMA LinkLostAck == ASSUME IInv, IInv', AckInv, NEW a \in Apps, LinkLost(a) PROVE AckInv'
<1> DEFINE l == apps[a].link
           st == IF apps[a].st = "over" THEN "over" ELSE "linkless"
           p == [NoApp EXCEPT !.st = st]
<1>1. PICK r \in PrefixesOf(links[l].toEng) : links' = Gone(links, l, r)
  BY DEF LinkLost, Gone
<1>2. l # 0 /\ apps' = [apps EXCEPT ![a] = p] /\ UNCHANGED <<up, marks, log, hist>>
  <2> HIDE DEF l
  <2> QED BY DEF LinkLost, l
<1>3. l \in Links /\ links \in [Links -> Link] /\ links[l].toEng \in Seq(ToEng)
  <2>1. l \in Links /\ links \in [Links -> Link]
    BY <1>2, AppIs, InTurnIs
  <2> QED BY <2>1 DEF Link
<1>4. p.link = 0 /\ p.todo = {} /\ p.ackSeq = 0
  BY Blank
<1> HIDE DEF p
<1>5. ~links'[l].appEnd /\ links'[l].toEng = r /\ \A m \in Links : m # l => links'[m] = links[m]
  BY <1>1, <1>3, GoneIs
<1>6. AcksTrue(links[l].toEng, Done', Received')
  BY <1>2, <1>3, RowsStay, AppMore
<1>7. AcksTrue(r, Done', Received')
  BY <1>1, <1>3, <1>6, PrefixTrue
<1> QED BY <1>2, <1>4, <1>5, <1>7, LeavesAck

LEMMA CrashAck == ASSUME IInv, IInv', AckInv, NEW a \in Apps, Crash(a) PROVE AckInv'
<1> DEFINE l == apps[a].link
           p == [NoApp EXCEPT !.st = "gone"]
<1>1. PICK r \in IF l = 0 THEN {<<>>} ELSE PrefixesOf(links[l].toEng) :
         links' = IF l = 0 THEN links ELSE Gone(links, l, r)
  BY DEF Crash, Gone
<1>2. apps' = [apps EXCEPT ![a] = p] /\ UNCHANGED <<up, marks, log, hist>>
  BY DEF Crash
<1>3. l \in {0} \union Links /\ links \in [Links -> Link] /\ 0 \notin Links
  BY AppIs, InTurnIs
<1>4. p.link = 0 /\ p.todo = {} /\ p.ackSeq = 0
  BY Blank
<1> HIDE DEF p
<1>5. CASE l = 0
  BY <1>1, <1>2, <1>3, <1>4, <1>5, LeavesAck
<1>6. CASE l # 0
  <2>1. l \in Links /\ links[l].toEng \in Seq(ToEng) /\ r \in PrefixesOf(links[l].toEng)
        /\ links' = Gone(links, l, r)
    BY <1>1, <1>3, <1>6 DEF Link
  <2>2. ~links'[l].appEnd /\ links'[l].toEng = r /\ \A m \in Links : m # l => links'[m] = links[m]
    BY <1>3, <2>1, GoneIs
  <2>3. AcksTrue(links[l].toEng, Done', Received')
    BY <1>2, <2>1, RowsStay, AppMore
  <2>4. AcksTrue(r, Done', Received')
    BY <2>1, <2>3, PrefixTrue
  <2> QED BY <1>2, <1>4, <2>2, <2>4, LeavesAck
<1> QED BY <1>5, <1>6

LEMMA ShutdownAck == ASSUME IInv, IInv', AckInv, NEW a \in Apps, Shutdown(a) PROVE AckInv'
<1> DEFINE l == apps[a].link
           p == [NoApp EXCEPT !.st = "gone"]
           f == Op("detach")
           e == Ask(links, l, f)
           d == IF apps[a].st = "up" THEN e ELSE links
           D == Done'
           n == Received'
<1>1. links' = IF l = 0 THEN links ELSE [d EXCEPT ![l].appEnd = FALSE, ![l].toApp = <<>>]
  BY DEF Shutdown
<1>2. apps' = [apps EXCEPT ![a] = p] /\ UNCHANGED <<up, marks, log, hist>>
  BY DEF Shutdown
<1>3. l \in {0} \union Links /\ links \in [Links -> Link] /\ 0 \notin Links
  BY AppIs, InTurnIs
<1>4. p.link = 0 /\ p.todo = {} /\ p.ackSeq = 0
  BY Blank
<1>5. f \in ToEng /\ TrueFrame(f, D, n)
  BY DEF Op, ToEng, TrueFrame
<1>6. \A m \in Links : AcksTrue(links[m].toEng, D, n)
  BY <1>2, RowsStay, AppMore
<1> HIDE DEF p, f, D, n, l
<1>7. /\ \A m \in Links : /\ AcksTrue(e[m].toEng, D, n)
                          /\ e[m].toApp = links[m].toApp
                          /\ m # l => e[m] = links[m]
      /\ e \in [Links -> Link]
  <2>1. TrueLinks(links, D, n)
    BY <1>6 DEF TrueLinks
  <2>2. \A m \in Links : /\ AcksTrue(e[m].toEng, D, n)
                         /\ e[m].toApp = links[m].toApp
                         /\ m # l => e[m] = links[m]
    BY ONLY <1>3, <1>5, <2>1, AskTrue
  <2>3. e \in [Links -> Link]
    BY ONLY <1>3, <1>5, AsksOne
  <2> QED BY <2>2, <2>3
<1> HIDE DEF e
<1>8. /\ \A m \in Links : AcksTrue(d[m].toEng, D, n) /\ (m # l => d[m] = links[m])
      /\ d \in [Links -> Link]
  BY <1>3, <1>6, <1>7
<1> HIDE DEF d
<1>9. CASE l = 0
  BY <1>1, <1>2, <1>3, <1>4, <1>9, LeavesAck DEF l
<1>10. CASE l # 0
  <2> DEFINE k == [d[l] EXCEPT !.appEnd = FALSE, !.toApp = <<>>]
  <2>1. l \in Links /\ d[l] \in Link /\ links' = [d EXCEPT ![l] = k]
    BY <1>1, <1>3, <1>8, <1>10
  <2>2. ~k.appEnd /\ k.toEng = d[l].toEng
    BY <2>1 DEF Link
  <2> HIDE DEF k
  <2>3. links'[l] = k /\ \A m \in Links : m # l => links'[m] = links[m]
    BY <1>8, <2>1
  <2>4. AcksTrue(k.toEng, Done', Received')
    BY <1>8, <2>1, <2>2 DEF D, n
  <2>5. \A m \in Links : m = apps[a].link =>
            ~links'[m].appEnd /\ AcksTrue(links'[m].toEng, Done', Received')
    BY <2>2, <2>3, <2>4 DEF l
  <2>6. \A m \in Links : m # apps[a].link => links'[m] = links[m]
    BY <2>3 DEF l
  <2> QED BY <1>2, <1>4, <2>5, <2>6, LeavesAck
<1> QED BY <1>9, <1>10

\* A process that reads a frame: its line is in hand, or done.
LEMMA TakesAck ==
    ASSUME IInv, IInv', AckInv, NEW a \in Apps, NEW l, l = apps[a].link, l # 0, links[l].toApp # <<>>,
           apps[a].todo = {}, NEW f, f = Head(links[l].toApp),
           UNCHANGED <<up, log>>, hist'.acked = hist.acked,
           NEW p, apps' = [apps EXCEPT ![a] = p], p.link = l,
           Honest(p, Done', Received'), Settled(Done', Received', marks'[1]),
           IsLine(f) => f.seq \in Done' \union Hand(p),
           \A m \in Links : AcksTrue(links'[m].toEng, Done', Received'),
           \A m \in Links : m # l => links'[m] = links[m],
           links'[l].toApp = Tail(links[l].toApp)
    PROVE  AckInv'
<1> DEFINE G == Done'
           G2 == Done' \union Hand(p)
           n == Received'
           t == links[l].toApp
<1>1. StoredRows \subseteq StoredRows'
  BY RowsStay
<1>2. l \in Links
  BY AppIs
<1>3. Hand(apps[a]) = {}
  BY DEF Hand
<1>4. /\ t \in Seq(ToApp) /\ Whole(t, G, n)
      /\ up.sink = l => Reaches(t, G, up.sent)
  BY <1>1, <1>2, <1>3, OwnSame
<1>5. t # <<>> /\ (\A s \in G : s \in G2) /\ (IsLine(Head(t)) => Head(t).seq \in G2)
  OBVIOUS
<1> HIDE DEF G, G2, n, t
<1>6. Whole(Tail(t), G2, n) /\ (Reaches(t, G, up.sent) => Reaches(Tail(t), G2, up.sent))
  BY <1>4, <1>5, WholeRead
<1>7. links'[l].toApp = Tail(t)
  BY DEF t
<1>8. ASSUME NEW m \in Links, m = p.link
      PROVE  /\ Whole(links'[m].toApp, Done' \union Hand(p), Received')
             /\ up.sink = m => Reaches(links'[m].toApp, Done' \union Hand(p), up.sent)
  BY <1>4, <1>6, <1>7, <1>8 DEF G2, n
<1>9. \A m \in Links : m # p.link /\ links'[m].appEnd => links'[m] = links[m]
  OBVIOUS
<1> QED BY <1>1, <1>8, <1>9, AppCarries

\* What the invariant says of a line that is read.
LEMMA LineRead ==
    ASSUME IInv, AckInv, NEW a \in Apps, NEW l, l = apps[a].link, l # 0, links[l].toApp # <<>>,
           apps[a].todo = {}, NEW f, f = Head(links[l].toApp), IsLine(f)
    PROVE  /\ f.seq \in Seqs /\ f.seq \in Nat /\ f.seq <= Received /\ 1 .. f.seq - 1 \subseteq Done
           /\ Received \in Nat
<1> DEFINE t == links[l].toApp
<1>1. l \in Links /\ links[l].appEnd /\ links[l].owner = a
  BY AppIs
<1>2. t \in Seq(ToApp) /\ Whole(t, Safe(l), Received) /\ Received \in Nat
  BY <1>1, AckIs
<1>3. Safe(l) = Done
  BY <1>1 DEF Safe, Hand
<1>4. f \in ToApp
  BY <1>1, FrameIs
<1>5. t # <<>> /\ f = Head(t)
  OBVIOUS
<1> DEFINE G == Safe(l)
           G2 == G \union {f.seq}
           n == Received
<1>6. (\A s \in G : s \in G2) /\ (IsLine(Head(t)) => Head(t).seq \in G2)
  BY <1>5
<1>7. t \in Seq(ToApp) /\ Whole(t, G, n)
  BY <1>2
<1> HIDE DEF t, G, G2, n
<1>8. IsLine(Head(t)) => Head(t).seq <= n /\ 1 .. Head(t).seq - 1 \subseteq G
  BY <1>5, <1>6, <1>7, WholeRead
<1>9. f.seq <= n /\ 1 .. f.seq - 1 \subseteq G
  BY <1>5, <1>8
<1> QED BY <1>2, <1>3, <1>4, <1>9, LineSeq DEF n, G

\* The rows of a line, with no batches: its own.
LEMMA PlainRows ==
    ASSUME OneSocketPlain, NEW p, NEW s \in Seqs
    PROVE  /\ RowsFor(p, s) = {} => RowsAt[s] = 0
           /\ RowsFor(p, s) # {} => RowsFor(p, s) = {1}
<1>1. BatchStart[s] = s /\ RowsAt[s] \in {0, 1}
  BY DEF OneSocketPlain
<1>2. RowsFor(p, s) = 1 .. RowsAt[s]
  BY <1>1 DEF RowsFor
<1>3. 1 .. 0 = {} /\ 1 .. 1 = {1}
  OBVIOUS
<1> QED BY <1>1, <1>2, <1>3

\* Forgetting a mark claims nothing.
LEMMA PrunedTrue ==
    ASSUME NEW D, NEW n, NEW keep, marks' = Pruned(keep), Settled(D, n, marks[1]), Settled(D, n, 0)
    PROVE  Settled(D, n, marks'[1])
<1>1. 1 \in Socks
  BY Bounds DEF Socks
<1>2. Pruned(keep)[1] = IF 1 = keep THEN marks[1] ELSE 0
  BY <1>1 DEF Pruned
<1> QED BY <1>2

\* EngineTransport.onFrame, for each kind of frame.
LEMMA OnFrameAck ==
    ASSUME OneSocketPlain, IInv, IInv', AckInv, NEW a \in Apps, apps[a].link # 0,
           links[apps[a].link].toApp # <<>>, apps[a].todo = {},
           NEW f, f = Head(links[apps[a].link].toApp),
           links' = Took(apps[a].link), UNCHANGED <<up, log>>, OnFrame(a, f)
    PROVE  AckInv'
<1> DEFINE p == apps[a]
           l == apps[a].link
           D == Done'
           n == Received'
<1>1. p \in Process /\ apps \in [Apps -> Process] /\ l \in Links /\ hist \in History
  BY AppIs, InTurnIs
<1>2. /\ \A m \in Links : AcksTrue(links[m].toEng, D, n)
      /\ Honest(p, D, n) /\ Settled(D, n, marks[1]) /\ Settled(D, n, 0)
      /\ Done \subseteq D /\ n = Received
  BY RowsStay, AppMore
<1>3. /\ \A m \in Links : AcksTrue(links'[m].toEng, D, n)
      /\ \A m \in Links : m # l => links'[m] = links[m]
      /\ links'[l].toApp = Tail(links[l].toApp)
  <2> DEFINE d == Took(l)
  <2>1. /\ \A m \in Links : m # l => d[m] = links[m]
        /\ Wrote(links[l], d[l], Tail(links[l].toApp), links[l].toEng)
    BY <1>1, TookIs
  <2>2. links' = d
    OBVIOUS
  <2> HIDE DEF d, l, D, n
  <2> QED BY <1>1, <1>2, <2>1, <2>2 DEF Wrote
<1> DEFINE Step(q) ==
              /\ apps' = [apps EXCEPT ![a] = q] /\ q.link = p.link /\ Honest(q, D, n)
              /\ IsLine(f) => f.seq \in D \union Hand(q)
              /\ Settled(D, n, marks'[1]) /\ hist'.acked = hist.acked
<1>s. ASSUME NEW q, Step(q) PROVE AckInv'
  BY <1>1, <1>3, <1>s, TakesAck
<1> HIDE DEF D, n
<1>4. CASE f.op = "dialing" /\ apps' = [apps EXCEPT ![a] = Ended(p, "asking")]
           /\ marks' = Pruned(0) /\ hist' = [hist EXCEPT !.forgot = @ \union Forgotten(0)]
  <2> DEFINE q == Ended(p, "asking")
  <2>1. q.link = p.link /\ q.todo = {} /\ q.ackSeq = 0
    BY DEF Ended, NoApp
  <2>2. hist'.acked = hist.acked
    BY <1>1, <1>4 DEF History
  <2>3. Settled(D, n, marks'[1])
    BY <1>2, <1>4, PrunedTrue
  <2>4. apps' = [apps EXCEPT ![a] = q] /\ ~IsLine(f)
    BY <1>4 DEF IsLine
  <2> HIDE DEF q
  <2>5. Step(q)
    BY <1>2, <2>1, <2>2, <2>3, <2>4 DEF Honest
  <2> QED BY <2>5, <1>s
<1>5. CASE f.op \in {"detached", "closed"} /\ UNCHANGED <<marks, hist>>
           /\ apps' = [apps EXCEPT ![a] = Ended(p, IF f.op = "detached" THEN "over" ELSE "redial")]
  <2> DEFINE q == Ended(p, IF f.op = "detached" THEN "over" ELSE "redial")
  <2>1. q.link = p.link /\ q.todo = {} /\ q.ackSeq = 0
    BY DEF Ended, NoApp
  <2>2. hist'.acked = hist.acked /\ Settled(D, n, marks'[1])
    BY <1>2, <1>5
  <2>4. apps' = [apps EXCEPT ![a] = q] /\ ~IsLine(f)
    BY <1>5 DEF IsLine
  <2> HIDE DEF q
  <2>5. Step(q)
    BY <1>2, <2>1, <2>2, <2>4 DEF Honest
  <2> QED BY <2>5, <1>s
<1>6. CASE f.op = "open" /\ apps' = [apps EXCEPT ![a].st = "up", ![a].sock = f.sock]
           /\ UNCHANGED <<marks, hist>>
  <2> DEFINE q == [p EXCEPT !.st = "up", !.sock = f.sock]
  <2>1. apps' = [apps EXCEPT ![a] = q]
    BY <1>1, <1>6
  <2>2. q.link = p.link /\ q.ackSeq = p.ackSeq /\ q.todo = p.todo /\ q.at = p.at
    BY <1>1 DEF Process
  <2>3. hist'.acked = hist.acked /\ Settled(D, n, marks'[1]) /\ ~IsLine(f)
    BY <1>2, <1>6 DEF IsLine
  <2> HIDE DEF q
  <2>4. Honest(q, D, n)
    BY <1>2, <2>2, HonestSame
  <2>5. Step(q)
    BY <2>1, <2>2, <2>3, <2>4
  <2> QED BY <2>5, <1>s
<1>7. CASE f.op = "attached" /\ marks' = Pruned(f.sock)
           /\ apps' = [apps EXCEPT ![a] = [Ended(p, "up") EXCEPT !.sock = f.sock,
                                              !.catching = TRUE, !.maxRow = Len(log)]]
           /\ hist' = [hist EXCEPT !.forgot = @ \union Forgotten(f.sock)]
  <2> DEFINE q == [Ended(p, "up") EXCEPT !.sock = f.sock, !.catching = TRUE, !.maxRow = Len(log)]
  <2>1. q.link = p.link /\ q.todo = {} /\ q.ackSeq = 0
    BY DEF Ended, NoApp
  <2>2. hist'.acked = hist.acked
    BY <1>1, <1>7 DEF History
  <2>3. Settled(D, n, marks'[1])
    BY <1>2, <1>7, PrunedTrue
  <2>4. apps' = [apps EXCEPT ![a] = q] /\ ~IsLine(f)
    BY <1>7 DEF IsLine
  <2> HIDE DEF q
  <2>5. Step(q)
    BY <1>2, <2>1, <2>2, <2>3, <2>4 DEF Honest
  <2> QED BY <2>5, <1>s
<1>8. CASE f.op = "line" /\ apps' = [apps EXCEPT ![a] = Delivering(p, f.seq)]
           /\ UNCHANGED <<marks, hist>>
  <2> DEFINE s     == f.seq
             q     == Delivering(p, s)
             rows  == RowsFor(p, s)
             known == IF InOpenBatch(s) THEN p.known \union {s} ELSE p.known \ (BatchStart[s] .. s)
  <2>1. s \in Seqs /\ s \in Nat /\ s <= Received /\ 1 .. s - 1 \subseteq Done
    BY <1>8, LineRead DEF IsLine
  <2>2. q = IF rows = {} THEN [p EXCEPT !.known = known, !.ackSeq = s]
                         ELSE [p EXCEPT !.known = known, !.at = s, !.todo = rows]
    BY DEF Delivering
  <2>3. (rows = {} => RowsAt[s] = 0) /\ (rows # {} => rows = {1})
    BY <2>1, PlainRows
  <2>4. apps' = [apps EXCEPT ![a] = q] /\ hist'.acked = hist.acked /\ Settled(D, n, marks'[1])
    BY <1>2, <1>8
  <2> HIDE DEF rows, known, q
  <2>5. CASE rows = {}
    <3>1. q.link = p.link /\ q.ackSeq = s /\ q.todo = {}
      BY <1>1, <2>2, <2>5 DEF Process
    <3>2. s \in Done
      <4>1. 1 .. RowsAt[s] = {}
        BY <2>3, <2>5
      <4>2. Stored(s)
        BY <4>1 DEF Stored, RowsOf
      <4> QED BY <2>1, <4>2 DEF Done
    <3>3. 1 .. s \subseteq Done
      BY <2>1, <3>2
    <3>4. Honest(q, D, n) /\ s \in D
      BY <1>2, <2>1, <3>1, <3>2, <3>3 DEF Honest, Settled
    <3>5. Step(q)
      BY <2>4, <3>1, <3>4
    <3> QED BY <3>5, <1>s
  <2>6. CASE rows # {}
    <3>1. q.link = p.link /\ q.ackSeq = p.ackSeq /\ q.todo = {1} /\ q.at = s
      BY <1>1, <2>2, <2>3, <2>6 DEF Process
    <3>2. s \in Hand(q)
      BY <2>1, <3>1 DEF Hand
    <3>3. Honest(q, D, n)
      BY <1>2, <2>1, <3>1 DEF Honest
    <3>4. Step(q)
      BY <2>4, <3>1, <3>2, <3>3
    <3> QED BY <3>4, <1>s
  <2> QED BY <2>5, <2>6
<1>9. CASE f.op = "gap" /\ hist' = Note("told", f.sock, f.gap.first .. f.gap.last)
           /\ UNCHANGED <<apps, marks>>
  <2>1. hist'.acked = hist.acked
    BY <1>1, <1>9 DEF Note, History
  <2>2. apps' = [apps EXCEPT ![a] = p] /\ ~IsLine(f) /\ Settled(D, n, marks'[1])
    BY <1>1, <1>2, <1>9 DEF IsLine
  <2>3. Step(p)
    BY <1>2, <2>1, <2>2
  <2> QED BY <2>3, <1>s
<1>10. CASE f.op = "live" /\ apps' = [apps EXCEPT ![a].catching = FALSE, ![a].maxRow = 0]
            /\ UNCHANGED <<marks, hist>>
  <2> DEFINE q == [p EXCEPT !.catching = FALSE, !.maxRow = 0]
  <2>1. apps' = [apps EXCEPT ![a] = q]
    BY <1>1, <1>10
  <2>2. q.link = p.link /\ q.ackSeq = p.ackSeq /\ q.todo = p.todo /\ q.at = p.at
    BY <1>1 DEF Process
  <2>3. hist'.acked = hist.acked /\ Settled(D, n, marks'[1]) /\ ~IsLine(f)
    BY <1>2, <1>10 DEF IsLine
  <2> HIDE DEF q
  <2>4. Honest(q, D, n)
    BY <1>2, <2>2, HonestSame
  <2>5. Step(q)
    BY <2>1, <2>2, <2>3, <2>4
  <2> QED BY <2>5, <1>s
<1> QED BY <1>4, <1>5, <1>6, <1>7, <1>8, <1>9, <1>10 DEF OnFrame

LEMMA AppReadsAck == ASSUME OneSocketPlain, IInv, IInv', AckInv, NEW a \in Apps, AppReads(a) PROVE AckInv'
<1> DEFINE l == apps[a].link
           p == apps[a]
           f == Head(links[l].toApp)
           D == Done'
           n == Received'
<1>1. /\ p.todo = {} /\ l # 0 /\ links[l].toApp # <<>>
      /\ UNCHANGED <<up, log>>
  BY DEF AppReads
<1>2. p \in Process /\ apps \in [Apps -> Process] /\ l \in Links
  BY <1>1, AppIs
<1>3. /\ \A m \in Links : AcksTrue(links[m].toEng, D, n)
      /\ Honest(p, D, n) /\ Settled(D, n, marks[1])
  BY <1>1, RowsStay, AppMore
<1> DEFINE ls == Took(l)
<1>4. /\ ls \in [Links -> Link]
      /\ \A m \in Links : m # l => ls[m] = links[m]
      /\ Wrote(links[l], ls[l], Tail(links[l].toApp), links[l].toEng)
  BY <1>1, <1>2, TookIs
<1> HIDE DEF D, n
<1>5. CASE f.op = "held" /\ p.st = "over"
  <2> DEFINE q == [p EXCEPT !.st = "asking"]
             o == Op("connect")
             d == Ask(ls, l, o)
  <2>1. links' = d /\ apps' = [apps EXCEPT ![a].st = "asking"] /\ UNCHANGED <<marks, hist>>
    BY <1>5 DEF AppReads, Took
  <2>2. apps' = [apps EXCEPT ![a] = q]
    BY <1>2, <2>1
  <2>3. q.link = l /\ q.ackSeq = p.ackSeq /\ q.todo = p.todo /\ q.at = p.at
    BY <1>2 DEF Process
  <2> HIDE DEF q
  <2>4. Honest(q, D, n)
    BY <1>3, <2>3, HonestSame
  <2>5. o \in ToEng /\ TrueFrame(o, D, n)
    BY DEF Op, ToEng, TrueFrame
  <2> HIDE DEF ls, l, o
  <2>6. TrueLinks(ls, D, n)
    BY <1>3, <1>4 DEF TrueLinks, Wrote
  <2>7. \A m \in Links : /\ AcksTrue(d[m].toEng, D, n)
                         /\ d[m].toApp = ls[m].toApp
                         /\ m # l => d[m] = ls[m]
    BY ONLY <1>2, <1>4, <2>5, <2>6, AskTrue
  <2> HIDE DEF d
  <2>8. /\ \A m \in Links : AcksTrue(links'[m].toEng, D, n)
        /\ \A m \in Links : m # l => links'[m] = links[m]
        /\ links'[l].toApp = Tail(links[l].toApp)
    <3>1. ls[l].toApp = Tail(links[l].toApp)
      BY ONLY <1>4 DEF Wrote
    <3>2. links' = d /\ l \in Links
      BY <1>2, <2>1
    <3> QED BY ONLY <1>4, <2>7, <3>1, <3>2
  <2>9. l = apps[a].link /\ ~IsLine(f) /\ hist'.acked = hist.acked /\ Settled(D, n, marks'[1])
    BY <1>3, <1>5, <2>1 DEF l, IsLine
  <2> QED BY <1>1, <2>2, <2>3, <2>4, <2>8, <2>9, TakesAck DEF D, n
<1>6. CASE ~(f.op = "held" /\ p.st = "over")
  <2>1. /\ links' = Took(l)
        /\ \/ (f.op = "held" \/ p.st \notin {"asking", "up"}) /\ UNCHANGED <<apps, marks, hist>>
           \/ OnFrame(a, f)
    BY <1>6 DEF AppReads, Took
  <2>2. CASE OnFrame(a, f)
    BY <1>1, <2>1, <2>2, OnFrameAck
  <2>3. CASE (f.op = "held" \/ p.st \notin {"asking", "up"}) /\ UNCHANGED <<apps, marks, hist>>
    <3>1. f.op = "held"
      BY <1>1, <2>3, FrameIs
    <3>2. apps' = [apps EXCEPT ![a] = p]
      BY <1>2, <2>3
    <3>3. ~IsLine(f) /\ hist'.acked = hist.acked /\ Settled(D, n, marks'[1]) /\ links' = ls
      BY <1>3, <2>1, <2>3, <3>1 DEF IsLine
    <3> HIDE DEF ls
    <3>4. /\ \A m \in Links : AcksTrue(links'[m].toEng, D, n)
          /\ \A m \in Links : m # l => links'[m] = links[m]
          /\ links'[l].toApp = Tail(links[l].toApp)
      BY <1>2, <1>3, <1>4, <3>3 DEF Wrote
    <3>5. l = apps[a].link /\ p.link = l
      BY <1>1
    <3>6. IsLine(f) => f.seq \in D \union Hand(p)
      BY <3>3
    <3>7. l # 0 /\ links[l].toApp # <<>> /\ f = Head(links[l].toApp) /\ apps[a].todo = {}
          /\ UNCHANGED <<up, log>> /\ Honest(p, Done', Received')
      BY <1>1, <1>3 DEF D, n
    <3>8. ~IsLine(f) /\ hist'.acked = hist.acked /\ Settled(D, n, marks'[1])
      BY <3>3
    <3> HIDE DEF l, p, f
    <3> QED BY ONLY IInv, IInv', AckInv, a \in Apps, <3>2, <3>4, <3>5, <3>6, <3>7, <3>8, TakesAck
            DEF D, n
  <2> QED BY <2>1, <2>2, <2>3
<1> QED BY <1>5, <1>6

\* IrcConnection.publish: after it the line is done, stored now or before.
LEMMA StoreRowAck == ASSUME OneSocketPlain, IInv, IInv', AckInv, NEW a \in Apps, StoreRow(a) PROVE AckInv'
<1> DEFINE p     == apps[a]
           row   == [sock |-> p.sock, seq |-> p.at, part |-> Min(p.todo)]
           store == ~AlreadyPersisted(p, row) /\ ~RefusedByMark(p)
           last  == p.todo = {Min(p.todo)}
           q     == [p EXCEPT !.todo = @ \ {Min(@)}, !.under = IF store THEN p.at ELSE @,
                              !.at = IF last THEN 0 ELSE @, !.ackSeq = IF last THEN p.at ELSE @]
<1>1. /\ p \in Process /\ Sane(p) /\ p.maxRow <= Len(log) /\ p.maxRow \in Nat /\ Len(log) \in Nat
      /\ apps \in [Apps -> Process] /\ log \in Seq(Row) /\ marks \in [Socks -> {0} \union Seqs]
  BY AppIs
<1>2. /\ p.todo # {}
      /\ log' = IF store THEN Append(log, row) ELSE log
      /\ marks' = IF store /\ marks[p.sock] < p.at THEN [marks EXCEPT ![p.sock] = p.at] ELSE marks
      /\ UNCHANGED <<up, links, hist>>
  BY DEF StoreRow
<1>3. apps' = [apps EXCEPT ![a] = q]
  BY <1>1 DEF StoreRow
<1>4. Honest(p, Done, Received)
  BY DEF AckInv
<1>5. p.todo = {1} /\ p.at <= Received /\ 1 .. p.at - 1 \subseteq Done
  BY <1>2, <1>4 DEF Honest
<1>6. Min(p.todo) = 1
  <2>1. {1} \in SUBSET Nat
    OBVIOUS
  <2>2. Min({1}) \in {1}
    BY <2>1, MinIs
  <2> QED BY <1>5, <2>2
<1>7. p.sock = 1 /\ p.at \in Seqs /\ p.at \in Nat /\ Socks = {1}
  <2>1. p.sock \in Socks /\ p.at \in Seqs
    BY <1>1, <1>2 DEF Sane, Process
  <2>2. Socks = {1}
    BY DEF OneSocketPlain, Socks
  <2> QED BY <2>1, <2>2, OrNone
<1>8. RowsOf(1, p.at) \subseteq {row}
  <2>1. RowsAt[p.at] \in {0, 1}
    BY <1>7 DEF OneSocketPlain
  <2>2. \A i \in 1 .. RowsAt[p.at] : i = 1
    BY <2>1
  <2> QED BY <1>6, <1>7, <2>2 DEF RowsOf
<1>9. q.link = p.link /\ q.todo = {} /\ q.ackSeq = p.at
  <2> HIDE DEF store
  <2> QED BY <1>1, <1>5, <1>6 DEF Process
<1> HIDE DEF q
<1>10. (~store => p.at <= marks[1] \/ row \in StoredRows)
  <2> SUFFICES ASSUME ~store PROVE p.at <= marks[1] \/ row \in StoredRows
    OBVIOUS
  <2>1. marks[1] \in Nat
    <3>1. marks[1] \in {0} \union Seqs
      BY <1>1, <1>7
    <3> QED BY <3>1, OrNone
  <2>2. CASE AlreadyPersisted(p, row)
    <3>1. CASE p.at <= marks[p.sock]
      BY <1>7, <3>1
    <3>2. CASE \E i \in 1 .. p.maxRow : log[i] = row
      <4>1. PICK i \in 1 .. p.maxRow : log[i] = row
        BY <3>2
      <4>2. i \in DOMAIN log
        BY <1>1, <4>1, LenProperties
      <4> QED BY <4>1, <4>2 DEF StoredRows, ToSet
    <3> QED BY <2>2, <3>1, <3>2 DEF AlreadyPersisted
  <2>3. CASE RefusedByMark(p)
    BY <1>7, <2>1, <2>3 DEF RefusedByMark
  <2> QED BY <2>2, <2>3
<1>11. row \in Row
  BY <1>6, <1>7 DEF Row
<1> HIDE DEF row, store, last
<1>12. StoredRows \subseteq StoredRows' /\ (store => row \in StoredRows')
  <2>1. CASE store
    <3>1. log' = Append(log, row)
      BY <1>2, <2>1
    <3>2. /\ DOMAIN log = 1 .. Len(log) /\ DOMAIN log' = 1 .. Len(log) + 1
          /\ (\A i \in 1 .. Len(log) : log'[i] = log[i]) /\ log'[Len(log) + 1] = row
      BY <1>1, <1>11, <3>1, AppendProperties, LenProperties
    <3>3. \A i \in DOMAIN log : i \in DOMAIN log' /\ log'[i] = log[i]
      BY <1>1, <3>2
    <3>4. Len(log) + 1 \in DOMAIN log'
      BY <1>1, <3>2
    <3> QED BY <3>2, <3>3, <3>4 DEF StoredRows, ToSet
  <2>2. CASE ~store
    BY <1>2, <2>2 DEF StoredRows
  <2> QED BY <2>1, <2>2
<1> DEFINE D == Done'
           n == Received'
<1>13. /\ Done \subseteq D /\ n = Received /\ n \in Nat /\ Settled(D, n, marks[1])
       /\ \A m \in Links : AcksTrue(links[m].toEng, D, n)
  BY <1>2, <1>12, AppMore
<1>14. p.at \in D
  <2>1. row \in StoredRows' => p.at \in D
    <3>1. PICK z \in Seqs : z = p.at
      BY <1>7
    <3>2. row \in StoredRows' => Stored(z)'
      BY <1>8, <3>1 DEF Stored, RowsOf
    <3>3. Stored(z)' => z \in D
      BY DEF Done
    <3> QED BY <3>1, <3>2, <3>3
  <2>2. CASE p.at <= marks[1]
    <3>1. p.at \in 1 .. marks[1]
      <4>1. marks[1] \in {0} \union Seqs
        BY <1>1, <1>7
      <4>2. marks[1] \in Nat /\ p.at \in Nat \ {0}
        BY <1>7, <4>1, OrNone, Bounds
      <4> QED BY <2>2, <4>2
    <3> QED BY <1>13, <3>1 DEF Settled
  <2> QED BY <1>10, <1>12, <2>1, <2>2
<1> HIDE DEF D, n
<1>15. Settled(D, n, p.at)
  <2>1. 1 .. p.at \subseteq D
    BY <1>5, <1>7, <1>13, <1>14
  <2> QED BY <1>5, <1>13, <2>1 DEF Settled
<1>16. Honest(q, D, n)
  BY <1>9, <1>15 DEF Honest
<1>17. Settled(D, n, marks'[1])
  <2>1. marks'[1] = p.at \/ marks'[1] = marks[1]
    BY <1>1, <1>2, <1>7
  <2> QED BY <1>13, <1>15, <2>1
<1>18. \A m \in Links : AcksTrue(links'[m].toEng, D, n) /\ links'[m] = links[m]
  BY <1>2, <1>13
<1>19. ASSUME NEW m \in Links, m = q.link
       PROVE  /\ Whole(links'[m].toApp, Done' \union Hand(q), Received')
              /\ up.sink = m => Reaches(links'[m].toApp, Done' \union Hand(q), up.sent)
  <2> DEFINE G == Done' \union Hand(q)
  <2>1. Done' \subseteq G /\ \A s \in Hand(apps[a]) : s \in G
    BY <1>14 DEF Hand, D
  <2>2. m = apps[a].link /\ up' = up
    BY <1>2, <1>9, <1>19
  <2> HIDE DEF G
  <2>3. Whole(links[m].toApp, G, Received') /\ (up.sink = m => Reaches(links[m].toApp, G, up.sent))
    BY <1>12, <2>1, <2>2, OwnSame
  <2> QED BY <1>18, <2>3 DEF G
<1>20. hist'.acked = hist.acked /\ up' = up
  BY <1>2
<1> QED BY <1>3, <1>12, <1>16, <1>17, <1>18, <1>19, <1>20, AppCarries DEF D, n

-----------------------------------------------------------------------------
(* The theorem.                                                            *)

LEMMA InitAck == Init => AckInv
<1> SUFFICES ASSUME Init PROVE AckInv
  OBVIOUS
<1>1. IInv /\ UpSound(up)
  BY InitIInv DEF IInv
<1>2. /\ links = [l \in Links |-> NoLink] /\ apps = [a \in Apps |-> NoApp]
      /\ marks = [n \in Socks |-> 0] /\ hist.acked = {} /\ up.sink = 0
  BY DEF Init, NoUpstream
<1>3. Received \in Nat /\ 1 \in Socks
  <2>1. LastSeq(up.buf) \in Nat
    BY <1>1, UpIs
  <2>2. MaxSockets \in Nat \ {0}
    BY Bounds
  <2> QED BY <2>1, <2>2 DEF Received, Socks
<1>4. Settled(Done, Received, 0)
  BY <1>3 DEF Settled
<1>5. NoLink.toEng = <<>> /\ ~NoLink.appEnd
  BY DEF NoLink
<1>6. NoApp.ackSeq = 0 /\ NoApp.todo = {}
  BY DEF NoApp
<1>7. \A l \in Links : AcksTrue(links[l].toEng, Done, Received) /\ ~links[l].appEnd
  <2>1. DOMAIN NoLink.toEng = {}
    BY <1>5
  <2> QED BY <1>2, <1>5, <2>1 DEF AcksTrue
<1>8. \A a \in Apps : Honest(apps[a], Done, Received)
  BY <1>2, <1>4, <1>6 DEF Honest
<1>9. Settled(Done, Received, marks[1])
  BY <1>2, <1>3, <1>4
<1> QED BY ONLY <1>2, <1>7, <1>8, <1>9 DEF AckInv

LEMMA StutterAck == ASSUME IInv, IInv', AckInv, UNCHANGED vars PROVE AckInv'
<1>1. UNCHANGED <<up, links, apps, marks, log, hist>>
  BY DEF vars
<1>2. \A m \in Links : Quiet(links[m], links'[m])
  BY <1>1, LinksQuiet
<1>3. up.buf.first <= up'.buf.first /\ LastSeq(up.buf) <= LastSeq(up'.buf)
  <2>1. UpSound(up)
    BY DEF IInv
  <2> QED BY <1>1, <2>1, UpIs
<1> QED BY <1>1, <1>2, <1>3, EngineQuiet

LEMMA StepAck ==
    ASSUME OneSocketPlain, IInv, AckInv, [Next]_vars
    PROVE  AckInv'
<1>0. IInv'
  BY StepKeeps
<1>1. CASE EngineStep
  <2>1. ~SocketDies
    BY NoSocketDies
  <2>2. Opens \/ ServerLine \/ Squeezed \/ Drain
    BY <1>1, <2>1 DEF EngineStep
  <2> QED BY <1>0, <2>2, OpensAck, ServerLineAck, SqueezedAck, DrainAck
<1>2. ASSUME NEW l \in Links, LinkStep(l) PROVE AckInv'
  BY <1>0, <1>2, ReadsAck, SeesEOFAck, DropsAck DEF LinkStep
<1>3. ASSUME NEW a \in Apps, AppStep(a) PROVE AckInv'
  BY <1>0, <1>3, BootAck, RelinkAck, RedialAck, LinkLostAck, CrashAck, ShutdownAck,
     AppReadsAck, StoreRowAck, SendAckAck DEF AppStep
<1>4. CASE UNCHANGED vars
  BY <1>0, <1>4, StutterAck
<1> QED BY <1>1, <1>2, <1>3, <1>4 DEF Next

\* A line that is released by an ack has its row.
LEMMA ReleasedIsStored == OneSocketPlain /\ AckInv => AckedIsPersisted
<1> SUFFICES ASSUME OneSocketPlain, AckInv, NEW n \in Socks, NEW z \in Seqs,
                    {n} \X (BatchStart[z] .. z) \subseteq hist.acked
             PROVE  RowsOf(n, z) \subseteq StoredRows
  BY DEF AckedIsPersisted
<1>1. n = 1
  BY DEF OneSocketPlain, Socks
<1>2. z \in BatchStart[z] .. z
  BY Bounds DEF OneSocketPlain
<1>3. <<1, z>> \in hist.acked
  BY <1>1, <1>2
<1>4. Stored(z)
  BY <1>3 DEF AckInv
<1> QED BY <1>1, <1>4 DEF Stored

\* "The ack can never get ahead of the row" (engineTransport.ts:424-426): with
\* any number of processes and links, whatever breaks, crashes or takes over
\* and however the acks are delayed, the engine lets go of no line on an ack
\* whose row is not stored.  The code has it on one socket, for lines of one
\* row outside batches: an ack names only a number, which another socket also
\* has (engine_relay_stale_ack), a batch is stored when it ends
\* (engine_relay_batch_ack), and a line of several rows is marked with the
\* first of them (db/engineMarks.ts:35).
THEOREM AcksAreStored == OneSocketPlain => (Spec => []AckedIsPersisted)
<1> SUFFICES ASSUME OneSocketPlain PROVE Spec => []AckedIsPersisted
  OBVIOUS
<1>1. Init => IInv /\ AckInv
  BY InitIInv, InitAck
<1>2. (IInv /\ AckInv) /\ [Next]_vars => (IInv /\ AckInv)'
  BY StepKeeps, StepAck
<1>3. IInv /\ AckInv => AckedIsPersisted
  BY ReleasedIsStored
<1> QED BY <1>1, <1>2, <1>3, PTL DEF Spec

=============================================================================
