----------------------- MODULE EngineRelayOnceProofs -----------------------
(***************************************************************************)
(* The line relay, for any processes, links, sockets and lines.            *)
(*   - No row is stored twice while the catch-up mark of its socket        *)
(*     stands: between two attaches a process is brought lines in their    *)
(*     order, and of the processes with a line of several rows in hand     *)
(*     only one has the mark.                                              *)
(*   - What is delivered past `live' is new: when it is written nobody     *)
(*     has been brought the line, or one after it.                         *)
(*   - On one socket, with lines of one row, the relay implements          *)
(*     MessageLog.                                                         *)
(***************************************************************************)
EXTENDS EngineRelayAckProofs

-----------------------------------------------------------------------------
(* The invariant.                                                          *)

\* Frames on which a process starts over (EngineTransport.end, attached).
Resets(f) == f.op \in {"dialing", "attached", "detached", "closed"}

\* Between i and j, neither included, t does not start over.
Clear(t, i, j) == \A n \in i + 1 .. j - 1 : ~Resets(t[n])

\* What a process has behind it since it started over.
Floor(p) == {p.under, p.at}

\* Lines come in their order, after those of the floor F.
Rising(t, F) ==
    /\ \A i, j \in DOMAIN t :
          i < j /\ IsLine(t[i]) /\ IsLine(t[j]) /\ Clear(t, i, j) => t[i].seq < t[j].seq
    /\ \A j \in DOMAIN t : IsLine(t[j]) /\ Clear(t, 0, j) => \A q \in F : q < t[j].seq

\* Nothing since t last started over is past line s.
Below(t, F, s) ==
    /\ \A i \in DOMAIN t : IsLine(t[i]) /\ Clear(t, i, Len(t) + 1) => t[i].seq <= s
    /\ Clear(t, 0, Len(t) + 1) => \A q \in F : q <= s

\* Only a process that is up has lines behind it; what the engine has sent
\* there is what its cursor says.
OrderInv ==
    /\ \A a \in Apps : apps[a].st # "up" => Floor(apps[a]) = {0}
    /\ \A l \in Links : links[l].appEnd =>
          /\ Rising(links[l].toApp, Floor(apps[links[l].owner]))
          /\ up.sink = l => Below(links[l].toApp, Floor(apps[links[l].owner]), up.sent)

Stands(n) == n \notin hist.forgot

\* p has stored a row of the line in hand, and has others to store.
Partly(p) == p.todo # {} /\ p.under = p.at

\* While its mark stands: no row of the socket is past it; a line in part stored
\* is not past it either, what is left of it is not stored, and no other
\* process has it.
MarkInv ==
    /\ \A i \in DOMAIN log : Stands(log[i].sock) => log[i].seq <= marks[log[i].sock]
    /\ \A a \in Apps : Partly(apps[a]) /\ Stands(apps[a].sock) =>
          /\ apps[a].at <= marks[apps[a].sock]
          /\ \A i \in DOMAIN log :
                log[i].sock = apps[a].sock /\ log[i].seq = apps[a].at
                    => log[i].part \notin apps[a].todo
    /\ \A a, b \in Apps :
          a # b /\ Partly(apps[a]) /\ Partly(apps[b]) /\ apps[a].sock = apps[b].sock
              /\ Stands(apps[a].sock) => apps[a].at # apps[b].at
    /\ SecondCopyNeedsPrune

-----------------------------------------------------------------------------
(* Frames in their order.                                                  *)

\* Where two sequences agree, they start over alike.
LEMMA ClearSame ==
    ASSUME NEW t, NEW t2, NEW i \in Nat, NEW j \in Nat,
           \A n \in i + 1 .. j - 1 : t2[n] = t[n], Clear(t2, i, j)
    PROVE  Clear(t, i, j)
BY DEF Clear

LEMMA RisingQuiet ==
    ASSUME NEW t \in Seq(ToApp), NEW t2 \in Seq(ToApp), NEW F, Rising(t, F), NoNewLine(t, t2)
    PROVE  Rising(t2, F)
<1>0. DOMAIN t \subseteq Nat \ {0} /\ DOMAIN t2 \subseteq Nat \ {0}
  BY LenProperties
<1>1. ASSUME NEW j \in DOMAIN t2, IsLine(t2[j])
      PROVE  j \in DOMAIN t /\ \A n \in 1 .. j : t2[n] = t[n]
  BY <1>1 DEF NoNewLine
<1>2. ASSUME NEW i \in DOMAIN t2, NEW j \in DOMAIN t2, i < j, IsLine(t2[i]), IsLine(t2[j]),
             Clear(t2, i, j)
      PROVE  t2[i].seq < t2[j].seq
  <2>1. i \in DOMAIN t /\ j \in DOMAIN t /\ t2[i] = t[i] /\ t2[j] = t[j] /\ i \in Nat /\ j \in Nat
    BY <1>0, <1>1, <1>2
  <2>2. \A n \in i + 1 .. j - 1 : t2[n] = t[n]
    <3>1. \A n \in i + 1 .. j - 1 : n \in 1 .. j
      BY <2>1
    <3> QED BY <1>1, <1>2, <3>1
  <2>3. Clear(t, i, j)
    BY <1>2, <2>1, <2>2, ClearSame
  <2> QED BY <1>2, <2>1, <2>3 DEF Rising
<1>3. ASSUME NEW j \in DOMAIN t2, IsLine(t2[j]), Clear(t2, 0, j), NEW q \in F
      PROVE  q < t2[j].seq
  <2>1. j \in DOMAIN t /\ t2[j] = t[j] /\ j \in Nat
    BY <1>0, <1>1, <1>3
  <2>2. \A n \in 0 + 1 .. j - 1 : t2[n] = t[n]
    <3>1. \A n \in 0 + 1 .. j - 1 : n \in 1 .. j
      BY <2>1
    <3> QED BY <1>1, <1>3, <3>1
  <2>3. Clear(t, 0, j)
    BY <1>3, <2>1, <2>2, ClearSame
  <2> QED BY <1>3, <2>1, <2>3 DEF Rising
<1> QED BY <1>2, <1>3 DEF Rising

LEMMA BelowQuiet ==
    ASSUME NEW t \in Seq(ToApp), NEW t2 \in Seq(ToApp), NEW F, NEW s, Below(t, F, s),
           NoNewLine(t, t2), Longer(t, t2)
    PROVE  Below(t2, F, s)
<1>0. /\ DOMAIN t = 1 .. Len(t) /\ DOMAIN t2 = 1 .. Len(t2)
      /\ Len(t) \in Nat /\ Len(t2) \in Nat
  BY LenProperties
<1>1. ASSUME NEW i \in Nat, Clear(t2, i, Len(t2) + 1) PROVE Clear(t, i, Len(t) + 1)
  <2> SUFFICES ASSUME NEW n \in i + 1 .. (Len(t) + 1) - 1 PROVE ~Resets(t[n])
    BY DEF Clear
  <2>1. n \in DOMAIN t
    BY <1>0
  <2>2. n \in DOMAIN t2 /\ t2[n] = t[n]
    BY <2>1 DEF Longer
  <2>3. n \in i + 1 .. (Len(t2) + 1) - 1
    BY <1>0, <2>2
  <2> QED BY <1>1, <2>2, <2>3 DEF Clear
<1>2. ASSUME NEW i \in DOMAIN t2, IsLine(t2[i]), Clear(t2, i, Len(t2) + 1) PROVE t2[i].seq <= s
  <2>1. i \in DOMAIN t /\ (\A n \in 1 .. i : t2[n] = t[n]) /\ i \in Nat \ {0}
    BY <1>0, <1>2 DEF NoNewLine
  <2>2. t2[i] = t[i] /\ Clear(t, i, Len(t) + 1)
    BY <1>1, <1>2, <2>1
  <2> QED BY <1>2, <2>1, <2>2 DEF Below
<1>3. ASSUME Clear(t2, 0, Len(t2) + 1), NEW q \in F PROVE q <= s
  BY <1>1, <1>3 DEF Below
<1> QED BY <1>2, <1>3 DEF Below

\* After a frame on which one starts over nothing has been sent.
LEMMA BelowReset ==
    ASSUME NEW t \in Seq(ToApp), NEW out \in Seq(ToApp), \A i \in DOMAIN out : ~IsLine(out[i]),
           NEW k \in DOMAIN out, Resets(out[k]), NEW F, NEW s
    PROVE  Below(t \o out, F, s)
<1> DEFINE r == t \o out
           m == Len(t)
           e == Len(out)
<1>1. /\ m \in Nat /\ e \in Nat /\ DOMAIN t = 1 .. m /\ DOMAIN out = 1 .. e
      /\ DOMAIN r = 1 .. m + e /\ Len(r) = m + e
      /\ \A i \in 1 .. e : r[m + i] = out[i]
      /\ \A i \in 1 .. m + e : i > m => i - m \in 1 .. e /\ r[i] = out[i - m]
  BY Joined
<1> HIDE DEF r, m, e
<1>2. ASSUME NEW i \in 0 .. m PROVE ~Clear(r, i, Len(r) + 1)
  <2>1. m + k \in i + 1 .. (Len(r) + 1) - 1 /\ r[m + k] = out[k]
    BY <1>1
  <2> QED BY <2>1 DEF Clear
<1>3. ASSUME NEW i \in DOMAIN r, IsLine(r[i]) PROVE i \in 0 .. m
  <2>1. i \in 1 .. m + e
    BY <1>1
  <2>2. ~(i > m)
    BY <1>1, <1>3, <2>1
  <2> QED BY <1>1, <2>1, <2>2
<1>4. 0 \in 0 .. m
  BY <1>1
<1> QED BY <1>2, <1>3, <1>4 DEF Below, r

\* What a flush brings to one that was sent the lines up to `from': lines past
\* it, in order, up to `to'.
InOrder(out, from, to) ==
    /\ \A n \in DOMAIN out : IsLine(out[n]) => from < out[n].seq /\ out[n].seq <= to
    /\ \A m, n \in DOMAIN out :
          m < n /\ IsLine(out[m]) /\ IsLine(out[n]) => out[m].seq < out[n].seq

LEMMA OrderJoin ==
    ASSUME NEW t \in Seq(ToApp), NEW out \in Seq(ToApp), NEW F, \A q \in F : q \in Nat,
           NEW from \in Nat, NEW to \in Nat, from <= to,
           Rising(t, F), Below(t, F, from), InOrder(out, from, to)
    PROVE  Rising(t \o out, F) /\ Below(t \o out, F, to)
<1> DEFINE r == t \o out
           m == Len(t)
           e == Len(out)
<1>1. /\ m \in Nat /\ e \in Nat /\ DOMAIN t = 1 .. m /\ DOMAIN out = 1 .. e
      /\ DOMAIN r = 1 .. m + e /\ Len(r) = m + e
      /\ \A i \in 1 .. m : r[i] = t[i]
      /\ \A i \in 1 .. m + e : i > m => i - m \in 1 .. e /\ r[i] = out[i - m]
      /\ r \in Seq(ToApp)
  BY Joined
<1>l. \A i \in 1 .. m + e : IsLine(r[i]) => r[i].seq \in Nat
  <2> SUFFICES ASSUME NEW i \in 1 .. m + e, IsLine(r[i]) PROVE r[i].seq \in Nat
    OBVIOUS
  <2>1. r[i] \in ToApp
    BY <1>1, ElementOfSeq
  <2> QED BY <2>1, LineSeq
<1>m. m = Len(t)
  OBVIOUS
<1> HIDE DEF r, m, e
<1>2. ASSUME NEW i \in 0 .. m, NEW j \in m + 1 .. m + e + 1, Clear(r, i, j)
      PROVE  Clear(t, i, Len(t) + 1)
  <2> SUFFICES ASSUME NEW n \in i + 1 .. (Len(t) + 1) - 1 PROVE ~Resets(t[n])
    BY DEF Clear
  <2>1. n \in i + 1 .. j - 1 /\ n \in 1 .. m
    BY <1>1, <1>m
  <2> QED BY <1>1, <1>2, <2>1 DEF Clear
<1>3. ASSUME NEW i \in 1 .. m, IsLine(r[i]), NEW j \in m + 1 .. m + e + 1, Clear(r, i, j)
      PROVE  r[i].seq <= from
  <2>1. Clear(t, i, Len(t) + 1)
    BY <1>1, <1>2, <1>3
  <2> QED BY <1>1, <1>3, <2>1 DEF Below
<1>4. ASSUME NEW j \in m + 1 .. m + e + 1, Clear(r, 0, j), NEW q \in F PROVE q <= from
  <2>1. 0 \in 0 .. m
    BY <1>1
  <2>2. Clear(t, 0, Len(t) + 1)
    BY <1>2, <1>4, <2>1
  <2> QED BY <2>2 DEF Below
<1>5. ASSUME NEW i \in 1 .. m + e, i > m, IsLine(r[i])
      PROVE  from < r[i].seq /\ r[i].seq <= to /\ i - m \in 1 .. e /\ IsLine(out[i - m])
             /\ r[i] = out[i - m]
  <2>1. i - m \in 1 .. e /\ r[i] = out[i - m]
    BY <1>1, <1>5
  <2> QED BY <1>1, <1>5, <2>1 DEF InOrder
<1>6. ASSUME NEW i \in DOMAIN r, NEW j \in DOMAIN r, i < j, IsLine(r[i]), IsLine(r[j]),
             Clear(r, i, j)
      PROVE  r[i].seq < r[j].seq
  <2>1. CASE j <= m
    <3>1. i \in DOMAIN t /\ j \in DOMAIN t /\ r[i] = t[i] /\ r[j] = t[j] /\ i \in Nat /\ j \in Nat
      BY <1>1, <1>6, <2>1
    <3>2. \A n \in i + 1 .. j - 1 : r[n] = t[n]
      BY <1>1, <2>1, <3>1
    <3>3. Clear(t, i, j)
      BY <1>6, <3>1, <3>2, ClearSame
    <3> QED BY <1>6, <3>1, <3>3 DEF Rising
  <2>2. CASE i <= m /\ j > m
    <3>1. i \in 1 .. m /\ j \in m + 1 .. m + e + 1 /\ j \in 1 .. m + e
      BY <1>1, <2>2
    <3>2. r[i].seq <= from
      BY <1>3, <1>6, <3>1
    <3>3. from < r[j].seq
      BY <1>5, <1>6, <2>2, <3>1
    <3>4. r[i].seq \in Nat /\ r[j].seq \in Nat
      BY <1>1, <1>6, <1>l
    <3> QED BY <3>2, <3>3, <3>4
  <2>3. CASE i > m
    <3>1. j > m /\ i \in 1 .. m + e /\ j \in 1 .. m + e
      BY <1>1, <1>6, <2>3
    <3>2. i - m \in 1 .. e /\ r[i] = out[i - m] /\ j - m \in 1 .. e /\ r[j] = out[j - m]
      BY <1>5, <1>6, <2>3, <3>1
    <3>3. i - m < j - m
      BY <1>1, <1>6, <3>1
    <3> QED BY <1>1, <1>6, <3>2, <3>3 DEF InOrder
  <2> QED BY <1>1, <2>1, <2>2, <2>3
<1>7. ASSUME NEW j \in DOMAIN r, IsLine(r[j]), Clear(r, 0, j), NEW q \in F PROVE q < r[j].seq
  <2>1. CASE j <= m
    <3>1. j \in DOMAIN t /\ r[j] = t[j] /\ j \in Nat
      BY <1>1, <2>1
    <3>2. \A n \in 0 + 1 .. j - 1 : r[n] = t[n]
      BY <1>1, <2>1, <3>1
    <3>3. Clear(t, 0, j)
      BY <1>7, <3>1, <3>2, ClearSame
    <3> QED BY <1>7, <3>1, <3>3 DEF Rising
  <2>2. CASE j > m
    <3>1. j \in m + 1 .. m + e + 1 /\ j \in 1 .. m + e
      BY <1>1, <2>2
    <3>2. q <= from /\ q \in Nat
      BY <1>4, <1>7, <3>1
    <3>3. from < r[j].seq /\ r[j].seq \in Nat
      BY <1>5, <1>7, <1>l, <2>2, <3>1
    <3> QED BY <3>2, <3>3
  <2> QED BY <1>1, <2>1, <2>2
<1>8. m + e + 1 \in m + 1 .. m + e + 1 /\ Len(r) + 1 = m + e + 1
  BY <1>1
<1>9. ASSUME NEW i \in DOMAIN r, IsLine(r[i]), Clear(r, i, Len(r) + 1) PROVE r[i].seq <= to
  <2>1. CASE i <= m
    <3>1. i \in 1 .. m
      BY <1>1, <2>1
    <3>2. r[i].seq <= from /\ r[i].seq \in Nat
      BY <1>1, <1>3, <1>8, <1>9, <1>l, <3>1
    <3> QED BY <3>2
  <2>2. CASE i > m
    BY <1>1, <1>5, <1>9, <2>2
  <2> QED BY <1>1, <2>1, <2>2
<1>10. ASSUME Clear(r, 0, Len(r) + 1), NEW q \in F PROVE q <= to
  <2>1. q <= from /\ q \in Nat
    BY <1>4, <1>8, <1>10
  <2> QED BY <2>1
<1> QED BY <1>6, <1>7, <1>9, <1>10 DEF Rising, Below, r

\* A frame is read: what is behind the process is what was, or the line, unless
\* it starts over.
LEMMA OrderRead ==
    ASSUME NEW t \in Seq(ToApp), t # <<>>, NEW F, NEW F2, NEW s \in Nat, Rising(t, F),
           \A q \in F2 : \/ q = 0
                         \/ /\ ~Resets(Head(t))
                            /\ q \in F \/ (IsLine(Head(t)) /\ q = Head(t).seq)
    PROVE  Rising(Tail(t), F2) /\ (Below(t, F, s) => Below(Tail(t), F2, s))
<1> DEFINE r == Tail(t)
           m == Len(t)
<1>1. /\ r \in Seq(ToApp) /\ Len(r) = m - 1 /\ m \in Nat \ {0}
      /\ \A i \in 1 .. m - 1 : r[i] = t[i + 1]
  BY SessionRead
<1>2. DOMAIN r = 1 .. m - 1 /\ DOMAIN t = 1 .. m /\ Head(t) = t[1] /\ m = Len(t)
  BY <1>1, LenProperties
<1>l. \A i \in 1 .. m : IsLine(t[i]) => t[i].seq \in Seqs /\ t[i].seq \in Nat \ {0}
  <2> SUFFICES ASSUME NEW i \in 1 .. m, IsLine(t[i]) PROVE t[i].seq \in Seqs
    BY Bounds
  <2>1. t[i] \in ToApp
    BY <1>2, ElementOfSeq
  <2> QED BY <2>1, LineSeq
<1> HIDE DEF r, m
<1>3. ASSUME NEW i \in Nat, NEW j \in 1 .. m, Clear(r, i, j) PROVE Clear(t, i + 1, j + 1)
  <2> SUFFICES ASSUME NEW n \in (i + 1) + 1 .. (j + 1) - 1 PROVE ~Resets(t[n])
    BY DEF Clear
  <2>1. n - 1 \in i + 1 .. j - 1 /\ n - 1 \in 1 .. m - 1 /\ (n - 1) + 1 = n
    BY <1>1
  <2>2. r[n - 1] = t[n]
    BY <1>1, <2>1
  <2> QED BY <1>3, <2>1, <2>2 DEF Clear
<1>4. ASSUME NEW j \in 1 .. m, Clear(r, 0, j), ~Resets(t[1]) PROVE Clear(t, 0, j + 1)
  <2>1. Clear(t, 0 + 1, j + 1)
    BY <1>3, <1>4
  <2> SUFFICES ASSUME NEW n \in 0 + 1 .. (j + 1) - 1 PROVE ~Resets(t[n])
    BY DEF Clear
  <2>2. CASE n = 1
    BY <1>4, <2>2
  <2>3. CASE n # 1
    <3>1. n \in (0 + 1) + 1 .. (j + 1) - 1
      BY <2>3
    <3> QED BY <2>1, <3>1 DEF Clear
  <2> QED BY <2>2, <2>3
<1>5. ASSUME NEW i \in DOMAIN r, NEW j \in DOMAIN r, i < j, IsLine(r[i]), IsLine(r[j]),
             Clear(r, i, j)
      PROVE  r[i].seq < r[j].seq
  <2>1. /\ i + 1 \in DOMAIN t /\ j + 1 \in DOMAIN t /\ i + 1 < j + 1
        /\ r[i] = t[i + 1] /\ r[j] = t[j + 1] /\ i \in Nat /\ j \in 1 .. m
    BY <1>1, <1>2, <1>5
  <2>2. Clear(t, i + 1, j + 1)
    BY <1>3, <1>5, <2>1
  <2> QED BY <1>5, <2>1, <2>2 DEF Rising
<1>6. ASSUME NEW j \in DOMAIN r, IsLine(r[j]), Clear(r, 0, j), NEW q \in F2 PROVE q < r[j].seq
  <2>1. j + 1 \in DOMAIN t /\ r[j] = t[j + 1] /\ j \in 1 .. m /\ 1 \in DOMAIN t /\ 1 < j + 1
    BY <1>1, <1>2
  <2>2. CASE q = 0
    BY <1>2, <1>6, <1>l, <2>1, <2>2
  <2>3. CASE ~Resets(t[1]) /\ q \in F
    <3>1. Clear(t, 0, j + 1)
      BY <1>4, <1>6, <2>1, <2>3
    <3> QED BY <1>6, <2>1, <2>3, <3>1 DEF Rising
  <2>4. CASE ~Resets(t[1]) /\ IsLine(t[1]) /\ q = t[1].seq
    <3>1. Clear(t, 0 + 1, j + 1)
      BY <1>3, <1>6, <2>1
    <3>2. Clear(t, 1, j + 1)
      BY <3>1
    <3> QED BY <1>6, <2>1, <2>4, <3>2 DEF Rising
  <2> QED BY <1>2, <2>2, <2>3, <2>4
<1>7. Len(r) + 1 = m /\ m \in 1 .. m
  BY <1>1
<1>8. ASSUME Below(t, F, s), NEW i \in DOMAIN r, IsLine(r[i]), Clear(r, i, Len(r) + 1)
      PROVE  r[i].seq <= s
  <2>1. i + 1 \in DOMAIN t /\ r[i] = t[i + 1] /\ i \in Nat
    BY <1>1, <1>2
  <2>2. Clear(t, i + 1, m + 1)
    BY <1>3, <1>7, <1>8, <2>1
  <2> QED BY <1>2, <1>8, <2>1, <2>2 DEF Below
<1>9. ASSUME Below(t, F, s), Clear(r, 0, Len(r) + 1), NEW q \in F2 PROVE q <= s
  <2>1. CASE q = 0
    BY <2>1
  <2>2. CASE ~Resets(t[1]) /\ q \in F
    <3>1. Clear(t, 0, m + 1)
      BY <1>4, <1>7, <1>9, <2>2
    <3> QED BY <1>2, <1>9, <2>2, <3>1 DEF Below
  <2>3. CASE IsLine(t[1]) /\ q = t[1].seq
    <3>1. Clear(t, 0 + 1, m + 1)
      BY <1>3, <1>7, <1>9
    <3>2. Clear(t, 1, m + 1) /\ 1 \in DOMAIN t
      BY <1>1, <1>2, <3>1
    <3> QED BY <1>2, <1>9, <2>3, <3>2 DEF Below
  <2> QED BY <1>2, <2>1, <2>2, <2>3
<1> QED BY <1>5, <1>6, <1>8, <1>9 DEF Rising, Below, r

-----------------------------------------------------------------------------
(* Steps of the engine.                                                    *)

\* What the invariants say of a link whose process has its end.
LEMMA OrderIs ==
    ASSUME IInv, OrderInv, NEW m \in Links, links[m].appEnd
    PROVE  /\ links[m].toApp \in Seq(ToApp) /\ links[m].owner \in Apps
           /\ Floor(apps[links[m].owner]) \in SUBSET Nat
           /\ Rising(links[m].toApp, Floor(apps[links[m].owner]))
           /\ up.sink = m => Below(links[m].toApp, Floor(apps[links[m].owner]), up.sent)
<1>1. links[m] \in Link /\ links[m].owner # 0
  BY DEF IInv, Typed, Placed
<1>2. links[m].owner \in Apps /\ links[m].toApp \in Seq(ToApp)
  BY <1>1 DEF Link
<1>3. apps[links[m].owner] \in Process
  BY <1>2, AppIs
<1>4. Floor(apps[links[m].owner]) \in SUBSET Nat
  <2>1. apps[links[m].owner].under \in {0} \union Seqs /\ apps[links[m].owner].at \in {0} \union Seqs
    BY <1>3 DEF Process
  <2> QED BY <2>1, OrNone DEF Floor
<1> QED BY <1>2, <1>4 DEF OrderInv

\* What is to be shown of a step of the engine.
LEMMA EngineOrders ==
    ASSUME IInv, OrderInv, UNCHANGED apps,
           \A m \in Links : links'[m].owner = links[m].owner,
           \A m \in Links : links'[m].appEnd =>
               /\ Rising(links'[m].toApp, Floor(apps[links[m].owner]))
               /\ up'.sink = m => Below(links'[m].toApp, Floor(apps[links[m].owner]), up'.sent)
    PROVE  OrderInv'
<1>1. \A a \in Apps : apps'[a].st # "up" => Floor(apps'[a]) = {0}
  BY DEF OrderInv
<1>2. ASSUME NEW m \in Links, links'[m].appEnd
      PROVE  /\ Rising(links'[m].toApp, Floor(apps'[links'[m].owner]))
             /\ up'.sink = m => Below(links'[m].toApp, Floor(apps'[links'[m].owner]), up'.sent)
  <2>1. apps'[links'[m].owner] = apps[links[m].owner]
    OBVIOUS
  <2> QED BY <1>2, <2>1
<1>3. /\ \A a \in Apps : apps'[a].st # "up" => Floor(apps'[a]) = {0}
      /\ \A l \in Links : links'[l].appEnd =>
            /\ Rising(links'[l].toApp, Floor(apps'[links'[l].owner]))
            /\ up'.sink = l => Below(links'[l].toApp, Floor(apps'[links'[l].owner]), up'.sent)
  BY <1>1, <1>2
<1> QED BY <1>3 DEF OrderInv, Floor

\* A step in which no line is written to a link.
LEMMA OrderQuiet ==
    ASSUME IInv, IInv', OrderInv, UNCHANGED apps,
           \A m \in Links : Quiet(links[m], links'[m]),
           up'.sink # 0 => up'.sink = up.sink /\ up'.sent = up.sent
    PROVE  OrderInv'
<1>1. links' \in [Links -> Link] /\ (up'.sink # 0 => links'[up'.sink].engEnd) /\ 0 \notin Links
  BY Bounds DEF IInv, Typed, Placed
<1>2. ASSUME NEW m \in Links, links'[m].appEnd, NEW F, F = Floor(apps[links[m].owner])
      PROVE  /\ Rising(links'[m].toApp, F)
             /\ up'.sink = m => Below(links'[m].toApp, F, up'.sent)
  <2>1. links[m].appEnd /\ Quiet(links[m], links'[m])
    BY <1>2 DEF Quiet
  <2>2. /\ links[m].toApp \in Seq(ToApp) /\ links'[m].toApp \in Seq(ToApp)
        /\ Rising(links[m].toApp, F) /\ (up.sink = m => Below(links[m].toApp, F, up.sent))
    BY <1>1, <1>2, <2>1, OrderIs, LinkIs
  <2>3. NoNewLine(links[m].toApp, links'[m].toApp)
    BY <2>1 DEF Quiet
  <2>4. Rising(links'[m].toApp, F)
    BY <2>2, <2>3, RisingQuiet
  <2>5. ASSUME up'.sink = m PROVE Below(links'[m].toApp, F, up'.sent)
    <3>1. up.sink = m /\ up'.sent = up.sent /\ links'[m].engEnd
      BY <1>1, <2>5
    <3>2. Longer(links[m].toApp, links'[m].toApp)
      BY <2>1, <3>1 DEF Quiet
    <3> QED BY <2>2, <2>3, <3>1, <3>2, BelowQuiet
  <2> QED BY <2>4, <2>5
<1>3. \A m \in Links : links'[m].owner = links[m].owner
  BY DEF Quiet
<1> QED BY <1>2, <1>3, EngineOrders

\* What is brought to a link whose process was sent the lines up to `from', or,
\* not `sank', was sent none of this session; after it the cursor is at `to'.
Follows(out, sank, from, to) ==
    \A t \in Seq(ToApp), F \in SUBSET Nat :
        Rising(t, F) /\ (sank => Below(t, F, from)) => Rising(t \o out, F) /\ Below(t \o out, F, to)

LEMMA LinksAre ==
    ASSUME IInv, NEW m \in Links, NEW ls \in [Links -> Link]
    PROVE  links[m] \in Link /\ links[m].toApp \in Seq(ToApp) /\ ls[m].toApp \in Seq(ToApp)
<1>1. links[m] \in Link /\ ls[m] \in Link
  BY DEF IInv, Typed
<1> QED BY <1>1, LinkIs

\* A step in which the engine writes to link l.
LEMMA OrderFlushes ==
    ASSUME IInv, IInv', OrderInv, UNCHANGED apps,
           NEW ls \in [Links -> Link], \A m \in Links : Quiet(links[m], ls[m]),
           NEW l \in Links, ls[l].engEnd, NEW out \in Seq(ToApp), links' = Deliver(ls, l, out),
           up'.sink = l, Follows(out, l = up.sink, up.sent, up'.sent)
    PROVE  OrderInv'
<1> DEFINE k == up'.sent
<1> HIDE DEF k
<1>3. /\ links' \in [Links -> Link]
      /\ \A m \in Links : m # l \/ ~ls[m].appEnd \/ ~ls[m].engEnd => links'[m] = ls[m]
      /\ \A m \in Links : m = l /\ ls[m].appEnd /\ ls[m].engEnd =>
            Wrote(ls[m], links'[m], ls[m].toApp \o out, ls[m].toEng)
  <2> DEFINE d == Deliver(ls, l, out)
  <2>1. /\ d \in [Links -> Link]
        /\ \A m \in Links : m # l \/ ~ls[m].appEnd \/ ~ls[m].engEnd => d[m] = ls[m]
        /\ \A m \in Links : m = l /\ ls[m].appEnd /\ ls[m].engEnd =>
              Wrote(ls[m], d[m], ls[m].toApp \o out, ls[m].toEng)
    BY ONLY ls \in [Links -> Link], l \in Links, out \in Seq(ToApp), Delivers
  <2>2. links' = d
    OBVIOUS
  <2> HIDE DEF d
  <2> QED BY ONLY <2>1, <2>2
<1>4. ASSUME NEW m \in Links
      PROVE  links'[m].owner = links[m].owner /\ links'[m].appEnd = ls[m].appEnd
  <2>1. Quiet(links[m], ls[m])
    OBVIOUS
  <2>2. CASE m = l /\ ls[m].appEnd /\ ls[m].engEnd
    BY <1>3, <2>1, <2>2 DEF Quiet, Wrote
  <2>3. CASE ~(m = l /\ ls[m].appEnd /\ ls[m].engEnd)
    BY <1>3, <2>1, <2>3 DEF Quiet
  <2> QED BY <2>2, <2>3
<1>5. ASSUME NEW m \in Links, links'[m].appEnd, NEW F, F = Floor(apps[links[m].owner])
      PROVE  Rising(links'[m].toApp, F) /\ (m = l => Below(links'[m].toApp, F, k))
  <2>1. links[m].toApp \in Seq(ToApp) /\ ls[m].toApp \in Seq(ToApp) /\ links[m].appEnd /\ ls[m].appEnd
        /\ Quiet(links[m], ls[m])
    BY <1>4, <1>5, LinksAre DEF Quiet
  <2>2. /\ Rising(links[m].toApp, F) /\ (up.sink = m => Below(links[m].toApp, F, up.sent))
        /\ F \in SUBSET Nat
    BY <1>5, <2>1, OrderIs
  <2>3. NoNewLine(links[m].toApp, ls[m].toApp)
    BY <2>1 DEF Quiet
  <2>4. Rising(ls[m].toApp, F)
    BY <2>1, <2>2, <2>3, RisingQuiet
  <2>5. CASE m # l
    BY <1>3, <2>4, <2>5
  <2>6. CASE m = l
    <3>1. links'[m].toApp = ls[m].toApp \o out
      BY <1>3, <2>1, <2>6 DEF Wrote
    <3>2. ASSUME l = up.sink PROVE Below(ls[m].toApp, F, up.sent)
      <4>1. Longer(links[m].toApp, ls[m].toApp)
        BY <2>1, <2>6 DEF Quiet
      <4> QED BY <2>1, <2>2, <2>3, <2>6, <3>2, <4>1, BelowQuiet
    <3>3. Rising(ls[m].toApp \o out, F) /\ Below(ls[m].toApp \o out, F, k)
      BY <2>1, <2>2, <2>4, <3>2 DEF Follows, k
    <3> QED BY <3>1, <3>3
  <2> QED BY <2>5, <2>6
<1> QED BY <1>4, <1>5, EngineOrders DEF k

-----------------------------------------------------------------------------
(* What the engine writes.                                                 *)

\* Frames other than lines, one of them a new start.
LEMMA FollowsReset ==
    ASSUME NEW out \in Seq(ToApp), \A i \in DOMAIN out : ~IsLine(out[i]),
           NEW k \in DOMAIN out, Resets(out[k]), NEW sank, NEW from, NEW to
    PROVE  Follows(out, sank, from, to)
<1> SUFFICES ASSUME NEW t \in Seq(ToApp), NEW F \in SUBSET Nat, Rising(t, F)
             PROVE  Rising(t \o out, F) /\ Below(t \o out, F, to)
  BY DEF Follows
<1>1. NoNewLine(t, t \o out) /\ t \o out \in Seq(ToApp)
  BY QuietJoin, Joined
<1>2. Rising(t \o out, F)
  BY <1>1, RisingQuiet
<1>3. Below(t \o out, F, to)
  BY BelowReset
<1> QED BY <1>2, <1>3

\* A flush, after what came before it.
LEMMA FollowsThen ==
    ASSUME NEW h \in Seq(ToApp), NEW out \in Seq(ToApp), NEW sank, NEW from, NEW mid \in Nat,
           NEW to \in Nat, mid <= to, Follows(h, sank, from, mid), InOrder(out, mid, to)
    PROVE  Follows(h \o out, sank, from, to)
<1> SUFFICES ASSUME NEW t \in Seq(ToApp), NEW F \in SUBSET Nat, Rising(t, F),
                    sank => Below(t, F, from)
             PROVE  Rising(t \o (h \o out), F) /\ Below(t \o (h \o out), F, to)
  BY DEF Follows
<1> DEFINE w == t \o h
<1>1. Rising(w, F) /\ Below(w, F, mid) /\ w \in Seq(ToApp)
  BY Joined DEF Follows
<1>2. t \o (h \o out) = w \o out
  BY ConcatAssociative
<1>3. \A q \in F : q \in Nat
  OBVIOUS
<1> HIDE DEF w
<1>4. Rising(w \o out, F) /\ Below(w \o out, F, to)
  BY <1>1, <1>3, OrderJoin
<1> QED BY <1>2, <1>4

LEMMA FollowsFlow ==
    ASSUME NEW u, NEW v, UpSound(u), UpSound(v), NEW out, Flows(u, v, out), NEW sank, sank = TRUE
    PROVE  /\ Follows(out, sank, u.sent, v.sent) /\ InOrder(out, u.sent, v.sent)
           /\ u.sent \in Nat /\ v.sent \in Nat /\ u.sent <= v.sent
<1>1. u.sent \in Nat /\ v.sent \in Nat
  BY UpIs
<1>2. u.sent <= v.sent /\ InOrder(out, u.sent, v.sent) /\ out \in Seq(ToApp)
  BY DEF Flows, InOrder
<1>3. ASSUME NEW t \in Seq(ToApp), NEW F \in SUBSET Nat, Rising(t, F), Below(t, F, u.sent)
      PROVE  Rising(t \o out, F) /\ Below(t \o out, F, v.sent)
  <2>1. \A q \in F : q \in Nat
    OBVIOUS
  <2> QED BY <1>1, <1>2, <1>3, <2>1, OrderJoin
<1> QED BY <1>1, <1>2, <1>3 DEF Follows

\* EngineUpstream.attach: the process starts over, and is owed what comes after
\* the burst.
LEMMA AttachFollows ==
    ASSUME IInv, NEW l \in Links, Registered, NEW f \in AttachOutcomes(l), NEW sank, NEW from
    PROVE  Follows(f.out, sank, from, f.u.sent)
<1> DEFINE b == Acked(up.buf, BurstEnd)
           u == [up EXCEPT !.buf = b, !.sink = l, !.sent = BurstEnd,
                           !.stalled = FALSE, !.liveAfter = LiveAfter(b)]
           first == <<[op |-> "attached", sock |-> up.sock]>>
           next  == IF u.liveAfter = 0 THEN <<Op("live")>> ELSE <<>>
           ops   == {"attached", "live"}
<1>1. UpSound(up) /\ up.st = "open" /\ up.sock \in Socks /\ Held(up.buf)
      /\ LastSeq(up.buf) \in Nat /\ LastSeq(up.buf) >= 1
  BY InTurnIs, UpIs DEF Registered, BurstEnd
<1>2. Held(b) /\ LastSeq(b) = LastSeq(up.buf) /\ b.first >= up.buf.first
      /\ b.first \in Nat /\ up.buf.first \in Nat
  BY <1>1, AckedHeld, HeldIs DEF BurstEnd
<1>3. LiveAfter(b) \in {0} \union Seqs /\ BurstEnd \in {0} \union Seqs
  <2>1. LastSeq(b) \in {0} \union Seqs
    BY <1>2, HeldIs
  <2>2. 1 \in Seqs
    BY <1>1, <1>2, <2>1, Bounds DEF Seqs
  <2> QED BY <2>1, <2>2 DEF LiveAfter, BurstEnd
<1>4. PICK g \in FlushOutcomes(u) : f = [u |-> g.u, out |-> (first \o next) \o g.out]
  BY DEF AttachOutcomes
<1>5. first \in Seq(ToApp) /\ AllOf(first, ops) /\ DOMAIN first = {1} /\ Resets(first[1])
  BY <1>1 DEF ToApp, AllOf, Resets
<1>6. next \in Seq(ToApp) /\ AllOf(next, ops)
  BY BareIs DEF Bare, AllOf, Op
<1> HIDE DEF b, first, next, ops
<1>7. u \in Upstream /\ u.st = "open" /\ u.sock = up.sock /\ u.buf = b /\ u.sink = l
      /\ u.sent = BurstEnd /\ ~u.stalled
  BY <1>1, <1>2, <1>3 DEF UpSound, Upstream, Held
<1> HIDE DEF u
<1>8. UpSound(u)
  <2>1. u.sent <= LastSeq(u.buf) /\ u.sock # 0
    BY <1>1, <1>2, <1>7, Bounds DEF BurstEnd
  <2> QED BY <1>2, <1>7, <2>1 DEF UpSound
<1>9. UpSound(g.u) /\ Flows(u, g.u, g.out)
  BY <1>7, <1>8, FlushFlows
<1> DEFINE h == first \o next
           v == g.u
           rest == g.out
<1>10. h \in Seq(ToApp) /\ (\A i \in DOMAIN h : ~IsLine(h[i])) /\ 1 \in DOMAIN h /\ Resets(h[1])
  <2>1. h \in Seq(ToApp) /\ DOMAIN h = 1 .. Len(first) + Len(next) /\ Len(first) \in Nat
        /\ Len(next) \in Nat /\ DOMAIN first = 1 .. Len(first)
        /\ \A i \in 1 .. Len(first) : h[i] = first[i]
    BY <1>5, <1>6, Joined
  <2>2. AllOf(h, ops)
    BY <1>5, <1>6, JoinedOf
  <2>3. 1 \in 1 .. Len(first)
    BY <1>5, <2>1
  <2> QED BY <1>5, <2>1, <2>2, <2>3 DEF AllOf, IsLine, ops
<1>11. rest \in Seq(ToApp)
  BY <1>9 DEF Flows
<1>12. f.u = v /\ f.out = h \o rest
  BY <1>4
<1>13. UpSound(v) /\ Flows(u, v, rest)
  BY <1>9
<1> HIDE DEF h, v, rest
<1>14. InOrder(rest, u.sent, v.sent) /\ u.sent \in Nat /\ v.sent \in Nat /\ u.sent <= v.sent
  BY <1>8, <1>13, FollowsFlow
<1>15. Follows(h, sank, from, u.sent)
  BY <1>10, FollowsReset
<1>16. Follows(h \o rest, sank, from, v.sent)
  BY <1>10, <1>11, <1>14, <1>15, FollowsThen
<1> QED BY <1>12, <1>16

\* EngineUpstream.onOpen
LEMMA OpensOrder == ASSUME IInv, IInv', OrderInv, Opens PROVE OrderInv'
<1> DEFINE out == <<[op |-> "open", sock |-> up.sock]>>
<1>1. UpSound(up) /\ up.sock \in Socks /\ up' = [up EXCEPT !.st = "open"]
      /\ links' = Deliver(links, up.sink, out) /\ up.sink \in {0} \union Links
      /\ links \in [Links -> Link] /\ UNCHANGED apps
  BY InTurnIs, UpIs DEF Opens
<1>2. up'.sink = up.sink /\ up'.sent = up.sent
  BY <1>1 DEF UpSound, Upstream
<1>3. out \in Seq(ToApp) /\ \A i \in DOMAIN out : ~IsLine(out[i])
  BY <1>1 DEF ToApp, IsLine
<1> HIDE DEF out
<1>4. \A m \in Links : Quiet(links[m], links'[m])
  BY <1>1, <1>3, DeliverQuiet
<1> QED BY <1>1, <1>2, <1>4, OrderQuiet

\* EngineUpstream.flush, of what the upstream has become.
LEMMA FlushOrder ==
    ASSUME IInv, IInv', OrderInv, NEW u, UpSound(u), u.st = "open", u.sink = up.sink,
           u.sent = up.sent, NEW f \in FlushOutcomes(u), up' = f.u,
           links' = Deliver(links, up.sink, f.out), UNCHANGED apps
    PROVE  OrderInv'
<1>1. UpSound(f.u) /\ Flows(u, f.u, f.out)
  BY FlushFlows
<1> DEFINE out == f.out
<1>2. /\ UpSound(up') /\ up'.sink = up.sink /\ out \in Seq(ToApp) /\ Flows(u, up', out)
      /\ links' = Deliver(links, up.sink, out)
  BY <1>1 DEF Flows
<1> HIDE DEF out
<1>3. links \in [Links -> Link] /\ up.sink \in {0} \union Links
      /\ (up.sink # 0 => links[up.sink].engEnd) /\ \A m \in Links : Quiet(links[m], links[m])
  BY InTurnIs, LinksQuiet
<1>5. CASE up.sink = 0
  <2>1. links' = links
    BY <1>2, <1>5 DEF Deliver
  <2> QED BY <1>2, <1>3, <1>5, <2>1, OrderQuiet
<1>6. CASE up.sink # 0
  <2>1. up.sink \in Links /\ links[up.sink].engEnd
    BY <1>3, <1>6
  <2>2. Follows(out, TRUE, u.sent, up'.sent)
    BY <1>2, FollowsFlow
  <2>3. Follows(out, up.sink = up.sink, up.sent, up'.sent)
    BY <2>2 DEF Follows
  <2> QED BY <1>2, <1>3, <2>1, <2>3, OrderFlushes
<1> QED BY <1>5, <1>6

\* EngineUpstream.onLine
LEMMA ServerLineOrder == ASSUME IInv, IInv', OrderInv, ServerLine PROVE OrderInv'
<1>1. PICK k \in ShedCounts(Pushed(up.buf)) :
         \E f \in FlushOutcomes([up EXCEPT !.buf = Shed(Pushed(up.buf), k)]) :
              /\ up' = f.u
              /\ links' = IF up.sink = 0 /\ LastSeq(f.u.buf) = BurstEnd
                          THEN Offered(links) ELSE Deliver(links, up.sink, f.out)
  BY DEF ServerLine
<1>2. /\ up.st = "open" /\ LastSeq(up.buf) < MaxSeq /\ UNCHANGED apps
      /\ UpSound(up) /\ Held(up.buf) /\ LastSeq(up.buf) \in Nat /\ up.buf.first \in Nat
  BY InTurnIs, UpIs DEF ServerLine
<1> DEFINE b == Shed(Pushed(up.buf), k)
           u == [up EXCEPT !.buf = b]
<1>3. Held(b) /\ LastSeq(b) = LastSeq(up.buf) + 1
  <2>1. Held(Pushed(up.buf)) /\ LastSeq(Pushed(up.buf)) = LastSeq(up.buf) + 1
    BY <1>2, PushedHeld
  <2> QED BY <2>1, ShedHeld
<1> HIDE DEF b
<1>4. LastSeq(b) >= LastSeq(up.buf) /\ LastSeq(up.buf) <= LastSeq(b)
  BY <1>2, <1>3
<1>5. UpSound(u) /\ u.st = "open" /\ u.sink = up.sink /\ u.sent = up.sent /\ u.buf = b
  BY <1>2, <1>3, <1>4, Rebuffered
<1>7. PICK f \in FlushOutcomes(u) :
              /\ up' = f.u
              /\ links' = IF up.sink = 0 /\ LastSeq(f.u.buf) = BurstEnd
                          THEN Offered(links) ELSE Deliver(links, up.sink, f.out)
  BY <1>1 DEF b
<1> HIDE DEF u
<1>8. CASE links' = Deliver(links, up.sink, f.out)
  BY <1>2, <1>5, <1>7, <1>8, FlushOrder
<1>9. CASE up.sink = 0 /\ links' = Offered(links)
  <2>1. Flows(u, f.u, f.out)
    BY <1>5, FlushFlows
  <2>2. up'.sink = 0
    BY <1>5, <1>7, <1>9, <2>1 DEF Flows
  <2>3. \A m \in Links : Quiet(links[m], links'[m])
    BY <1>9, LinksQuiet, OfferQuiet
  <2> QED BY <1>2, <2>2, <2>3, OrderQuiet
<1> QED BY <1>7, <1>8, <1>9

\* LineBuffer sheds for another connection's line.
LEMMA SqueezedOrder == ASSUME IInv, IInv', OrderInv, Squeezed PROVE OrderInv'
<1>1. PICK k \in ShedCounts(up.buf) : up' = [up EXCEPT !.buf = Shed(up.buf, k)]
  BY DEF Squeezed
<1>2. UNCHANGED <<links, apps>> /\ UpSound(up)
  BY InTurnIs DEF Squeezed
<1> DEFINE b == Shed(up.buf, k)
<1>3. up' = [up EXCEPT !.buf = b]
  BY <1>1
<1> HIDE DEF b
<1>6. up'.sink = up.sink /\ up'.sent = up.sent
  BY <1>2, <1>3 DEF UpSound, Upstream
<1>8. \A m \in Links : Quiet(links[m], links'[m])
  BY <1>2, LinksQuiet
<1> QED BY <1>2, <1>6, <1>8, OrderQuiet

\* EngineUpstream.resume
LEMMA DrainOrder == ASSUME IInv, IInv', OrderInv, Drain PROVE OrderInv'
<1> DEFINE u == [up EXCEPT !.stalled = FALSE]
<1>1. UpSound(up) /\ up.st = "open" /\ UNCHANGED apps
  BY InTurnIs DEF Drain, UpSound
<1>2. PICK f \in FlushOutcomes(u) : up' = f.u /\ links' = Deliver(links, up.sink, f.out)
  BY DEF Drain
<1>3. u \in Upstream /\ u.st = up.st /\ u.sock = up.sock /\ u.sink = up.sink /\ u.buf = up.buf
      /\ u.sent = up.sent /\ ~u.stalled
  BY <1>1 DEF UpSound, Upstream
<1> HIDE DEF u
<1>4. UpSound(u) /\ u.st = "open"
  BY <1>1, <1>3 DEF UpSound
<1> QED BY <1>1, <1>2, <1>3, <1>4, FlushOrder

\* EngineUpstream.onClose: what the sink is told ends its session.
LEMMA DiesOrder == ASSUME IInv, IInv', OrderInv, SocketDies PROVE OrderInv'
<1> DEFINE out == <<Op("closed")>>
<1>1. links' = Deliver(links, up.sink, out) /\ UNCHANGED apps /\ up.sink \in {0} \union Links
      /\ links \in [Links -> Link]
  BY InTurnIs DEF SocketDies
<1>2. up'.sink = 0
  BY DEF SocketDies, NoUpstream
<1>3. out \in Seq(ToApp) /\ \A i \in DOMAIN out : ~IsLine(out[i])
  BY BareIs DEF Bare, IsLine
<1> HIDE DEF out
<1>4. \A m \in Links : Quiet(links[m], links'[m])
  BY <1>1, <1>3, DeliverQuiet
<1> QED BY <1>1, <1>2, <1>4, OrderQuiet

-----------------------------------------------------------------------------
(* The engine's side of a link.                                            *)

\* EngineServer.release and onLinkClose
LEMMA LetGoOrder ==
    ASSUME IInv, IInv', OrderInv, NEW l \in Links, NEW ls \in [Links -> Link],
           \A m \in Links : Quiet(links[m], ls[m]), LetGo(l, ls), UNCHANGED apps
    PROVE  OrderInv'
<1>1. UpSound(up) /\ links \in [Links -> Link]
  BY InTurnIs
<1>2. CASE UNCHANGED up /\ links' = ls
  BY <1>1, <1>2, OrderQuiet
<1>3. CASE up' = Detached(up) /\ (links' = ls \/ links' = Offered(ls))
  <2>1. up'.sink = 0
    BY <1>1, <1>3 DEF Detached, UpSound, Upstream
  <2>2. \A m \in Links : Quiet(links[m], links'[m])
    <3>1. CASE links' = ls
      BY <3>1
    <3>2. CASE links' = Offered(ls)
      <4>1. links' \in [Links -> Link] /\ \A m \in Links : Quiet(ls[m], links'[m])
        BY <3>2, OfferQuiet
      <4>2. ASSUME NEW m \in Links PROVE Quiet(links[m], links'[m])
        <5>1. links[m] \in Link /\ ls[m] \in Link /\ links'[m] \in Link
          BY <1>1, <4>1
        <5> QED BY <4>1, <5>1, QuietTwice
      <4> QED BY <4>2
    <3> QED BY <1>3, <3>1, <3>2
  <2> QED BY <2>1, <2>2, OrderQuiet
<1> QED BY <1>2, <1>3 DEF LetGo

\* EngineServer.connect: what is dialed starts over, with nothing sent.
LEMMA DialingOrder ==
    ASSUME IInv, IInv', OrderInv, UNCHANGED apps, NEW l \in Links,
           NEW ls \in [Links -> Link], \A m \in Links : Quiet(links[m], ls[m]), ls[l].engEnd,
           links' = Deliver(ls, l, <<Op("dialing")>>), up'.sink = l
    PROVE  OrderInv'
<1> DEFINE out == <<Op("dialing")>>
<1>1. out \in Seq(ToApp) /\ (\A i \in DOMAIN out : ~IsLine(out[i])) /\ 1 \in DOMAIN out
      /\ Resets(out[1]) /\ links' = Deliver(ls, l, out)
  BY BareIs DEF Bare, IsLine, Op, Resets
<1> HIDE DEF out
<1>2. Follows(out, l = up.sink, up.sent, up'.sent)
  BY <1>1, FollowsReset
<1> QED BY <1>1, <1>2, OrderFlushes

\* EngineServer.connect
LEMMA ConnectOrder ==
    ASSUME IInv, IInv', OrderInv, NEW l \in Links, links[l].engEnd,
           NEW ls \in [Links -> Link], \A m \in Links : Quiet(links[m], ls[m]), ls[l].engEnd,
           Connect(l, ls), UNCHANGED apps
    PROVE  OrderInv'
<1> DEFINE ls1 == Superseded(ls, l)
<1>1. ls1 \in [Links -> Link] /\ (\A m \in Links : Quiet(links[m], ls1[m])) /\ ls1[l] = ls[l]
  BY SupersededQuiet
<1>2. UpSound(up)
  BY InTurnIs
<1> HIDE DEF ls1
<1>3. CASE links' = Deliver(ls, l, <<Op("detached")>>) /\ UNCHANGED <<up, hist>>
  <2>1. \A m \in Links : Quiet(links[m], links'[m])
    BY <1>3, ThenDeliver DEF Bare
  <2> QED BY <1>3, <2>1, OrderQuiet
<1>4. CASE /\ up' = [up EXCEPT !.sink = l, !.sent = 0, !.stalled = FALSE]
           /\ links' = Deliver(ls1, l, <<Op("dialing")>>)
  <2>1. up'.sink = l
    BY <1>2, <1>4 DEF UpSound, Upstream
  <2> QED BY <1>1, <1>4, <2>1, DialingOrder
<1>5. CASE /\ Registered
           /\ \E f \in AttachOutcomes(l) : up' = f.u /\ links' = Deliver(ls1, l, f.out)
  <2>1. PICK f \in AttachOutcomes(l) : up' = f.u /\ links' = Deliver(ls1, l, f.out)
    BY <1>5
  <2> DEFINE out == f.out
  <2>2. up'.sink = l /\ out \in Seq(ToApp)
    BY <1>5, <2>1, AttachBrings
  <2>3. links' = Deliver(ls1, l, out) /\ Follows(out, l = up.sink, up.sent, up'.sent)
    BY <1>5, <2>1, AttachFollows
  <2> HIDE DEF out
  <2> QED BY <1>1, <2>2, <2>3, OrderFlushes
<1>6. CASE /\ up' = Dialing(up.sock + 1, l)
           /\ links' = Deliver(ls1, l, <<Op("dialing")>>)
  <2>1. up'.sink = l
    BY <1>6 DEF Dialing, NoUpstream
  <2> QED BY <1>1, <1>6, <2>1, DialingOrder
<1> QED BY <1>3, <1>4, <1>5, <1>6 DEF Connect, ls1

\* EngineServer.dispatch
LEMMA ReadsOrder == ASSUME IInv, IInv', OrderInv, NEW l \in Links, EngineReads(l) PROVE OrderInv'
<1> DEFINE frame == Head(links[l].toEng)
           ls == Heard(l)
<1>1. /\ links[l].engEnd /\ links[l].toEng # <<>> /\ UNCHANGED apps
      /\ \/ /\ links' = IF Registered /\ up.sink = 0
                        THEN Deliver(ls, l, <<Op("held")>>) ELSE ls
            /\ UNCHANGED up
         \/ Connect(l, ls)
         \/ /\ links' = ls
            /\ UNCHANGED up \/ up' = [up EXCEPT !.buf = Acked(@, frame.seq)]
         \/ LetGo(l, ls)
  BY DEF EngineReads, Heard
<1>2. ls \in [Links -> Link] /\ (\A m \in Links : Quiet(links[m], ls[m])) /\ ls[l].engEnd
  <2>1. ls = Heard(l)
    OBVIOUS
  <2> HIDE DEF ls
  <2>2. ls \in [Links -> Link] /\ \A m \in Links : Quiet(links[m], ls[m])
    BY <1>1, <2>1, HeardQuiet
  <2>3. Stays(links[l], ls[l])
    BY <1>1, <2>1, Reading
  <2> QED BY <1>1, <2>2, <2>3 DEF Stays
<1>3. UpSound(up)
  BY InTurnIs
<1> HIDE DEF ls
<1>4. CASE Connect(l, ls)
  BY <1>1, <1>2, <1>4, ConnectOrder
<1>5. CASE links' = ls /\ UNCHANGED up
  BY <1>1, <1>2, <1>5, OrderQuiet
<1>6. CASE LetGo(l, ls)
  BY <1>1, <1>2, <1>6, LetGoOrder
<1>7. CASE links' = Deliver(ls, l, <<Op("held")>>) /\ UNCHANGED up
  <2>1. \A m \in Links : Quiet(links[m], links'[m])
    BY <1>2, <1>7, ThenDeliver DEF Bare
  <2> QED BY <1>1, <1>7, <2>1, OrderQuiet
<1>8. CASE links' = ls /\ up' = [up EXCEPT !.buf = Acked(@, frame.seq)]
  <2>1. up'.sink = up.sink /\ up'.sent = up.sent
    BY <1>3, <1>8 DEF UpSound, Upstream
  <2> QED BY <1>1, <1>2, <1>8, <2>1, OrderQuiet
<1> QED BY <1>1, <1>4, <1>5, <1>6, <1>7, <1>8

\* EngineServer.onLinkClose
LEMMA SeesEOFOrder == ASSUME IInv, IInv', OrderInv, NEW l \in Links, EngineSeesEOF(l) PROVE OrderInv'
<1> DEFINE ls == [links EXCEPT ![l].engEnd = FALSE]
           k2 == [links[l] EXCEPT !.engEnd = FALSE]
<1>1. LetGo(l, ls) /\ links \in [Links -> Link] /\ links[l] \in Link /\ UNCHANGED apps
  BY InTurnIs DEF EngineSeesEOF
<1>2. /\ k2 \in Link /\ k2.owner = links[l].owner /\ k2.appEnd = links[l].appEnd /\ ~k2.engEnd
      /\ k2.toApp = links[l].toApp /\ k2.toEng = links[l].toEng
  BY <1>1 DEF Link
<1>3. ls = [links EXCEPT ![l] = k2]
  OBVIOUS
<1> HIDE DEF k2
<1>4. ls \in [Links -> Link] /\ ls[l] = k2 /\ \A m \in Links : m # l => ls[m] = links[m]
  BY <1>1, <1>2, <1>3
<1> HIDE DEF ls
<1>5. Quiet(links[l], k2)
  <2>1. Quiet(links[l], links[l])
    BY LinksQuiet
  <2> QED BY <1>2, <2>1 DEF Quiet
<1>6. \A m \in Links : Quiet(links[m], ls[m])
  BY <1>4, <1>5, LinksQuiet
<1> QED BY <1>1, <1>4, <1>6, LetGoOrder

\* EngineServer.sweepSilentLinks
LEMMA DropsOrder == ASSUME IInv, IInv', OrderInv, NEW l \in Links, EngineDropsLink(l) PROVE OrderInv'
<1>0. PICK kept \in PrefixesOf(links[l].toApp) :
        LetGo(l, [links EXCEPT ![l].engEnd = FALSE, ![l].toEng = <<>>, ![l].toApp = kept])
  BY DEF EngineDropsLink
<1> DEFINE ls == [links EXCEPT ![l].engEnd = FALSE, ![l].toEng = <<>>, ![l].toApp = kept]
           k  == links[l]
           k2 == [k EXCEPT !.engEnd = FALSE, !.toEng = <<>>, !.toApp = kept]
<1>1. LetGo(l, ls) /\ links \in [Links -> Link] /\ k \in Link /\ k.toApp \in Seq(ToApp)
      /\ UNCHANGED apps
  BY <1>0, InTurnIs, LinkIs DEF EngineDropsLink
<1>2. kept \in Seq(ToApp) /\ NoNewLine(k.toApp, kept)
  BY <1>1, PrefixIs, QuietPrefix
<1>3. k2 \in Link /\ k2.owner = k.owner /\ k2.appEnd = k.appEnd /\ ~k2.engEnd
      /\ k2.toApp = kept /\ k2.toEng = <<>>
  <2>1. <<>> \in Seq(ToEng)
    BY EmptySeq
  <2> HIDE DEF k
  <2> QED BY <1>1, <1>2, <2>1 DEF Link
<1>4. ls = [links EXCEPT ![l] = k2]
  BY <1>1
<1> HIDE DEF k2
<1>5. ls \in [Links -> Link] /\ ls[l] = k2 /\ \A m \in Links : m # l => ls[m] = links[m]
  BY <1>1, <1>3, <1>4
<1> HIDE DEF ls
<1>6. Quiet(k, k2)
  <2>1. Echo(k.toEng, <<>>)
    BY DEF Echo
  <2> HIDE DEF k
  <2> QED BY <1>2, <1>3, <2>1 DEF Quiet
<1>7. \A m \in Links : Quiet(links[m], ls[m])
  BY <1>5, <1>6, LinksQuiet DEF k
<1> QED BY <1>1, <1>5, <1>7, LetGoOrder

-----------------------------------------------------------------------------
(* Steps of a process.                                                     *)

\* What is to be shown of a step in which process a becomes p.
LEMMA AppOrders ==
    ASSUME IInv, IInv', OrderInv, up' = up, NEW a \in Apps, NEW p, apps' = [apps EXCEPT ![a] = p],
           p.st # "up" => Floor(p) = {0},
           \A m \in Links : m # p.link /\ links'[m].appEnd => links'[m] = links[m],
           \A m \in Links : m = p.link =>
               /\ Rising(links'[m].toApp, Floor(p))
               /\ up.sink = m => Below(links'[m].toApp, Floor(p), up.sent)
    PROVE  OrderInv'
<1>1. apps \in [Apps -> Process] /\ apps'[a] = p /\ \A b \in Apps : b # a => apps'[b] = apps[b]
  BY AppIs
<1>2. \A b \in Apps : apps'[b].st # "up" => Floor(apps'[b]) = {0}
  BY <1>1 DEF OrderInv
<1>3. ASSUME NEW m \in Links, links'[m].appEnd
      PROVE  /\ Rising(links'[m].toApp, Floor(apps'[links'[m].owner]))
             /\ up.sink = m => Below(links'[m].toApp, Floor(apps'[links'[m].owner]), up.sent)
  <2>1. links'[m].owner \in Apps /\ apps'[links'[m].owner].link = m
    <3>1. links'[m].owner # 0 /\ apps'[links'[m].owner].link = m /\ links' \in [Links -> Link]
      BY <1>3 DEF IInv, Placed, Typed
    <3> QED BY <3>1 DEF Link
  <2>2. CASE m = p.link
    <3>1. apps'[a].link # 0
      BY <1>1, <2>2, Bounds
    <3>2. links'[apps'[a].link].owner = a
      BY <3>1 DEF IInv, Placed
    <3>3. links'[m].owner = a
      BY <1>1, <2>2, <3>2
    <3> QED BY <1>1, <2>2, <3>3
  <2>3. CASE m # p.link
    <3>1. links'[m] = links[m]
      BY <1>3, <2>3
    <3>2. apps'[links'[m].owner] = apps[links[m].owner]
      BY <1>1, <2>1, <2>3, <3>1
    <3> QED BY <1>3, <3>1, <3>2, OrderIs
  <2> QED BY <2>2, <2>3
<1>4. /\ \A b \in Apps : apps'[b].st # "up" => Floor(apps'[b]) = {0}
      /\ \A l \in Links : links'[l].appEnd =>
            /\ Rising(links'[l].toApp, Floor(apps'[links'[l].owner]))
            /\ up'.sink = l => Below(links'[l].toApp, Floor(apps'[links'[l].owner]), up'.sent)
  BY <1>2, <1>3
<1> QED BY <1>4 DEF OrderInv, Floor

\* A process opens its end of a link.
LEMMA OpensLinkOrder ==
    ASSUME IInv, IInv', OrderInv, NEW a \in Apps, nLinks < MaxLinks, NEW first \in {"connect", "hello"},
           links' = [links EXCEPT ![nLinks + 1] = NewLink(a, first)],
           NEW p, apps' = [apps EXCEPT ![a] = p], p.link = nLinks + 1,
           Floor(p) = {0}, up' = up
    PROVE  OrderInv'
<1> DEFINE k == NewLink(a, first)
<1>1. nLinks \in Nat /\ links \in [Links -> Link] /\ nLinks + 1 \in Links
  <2>1. nLinks \in Nat /\ links \in [Links -> Link]
    BY AppIs, InTurnIs
  <2> QED BY <2>1, Bounds DEF Links
<1>2. k.toApp = <<>>
  BY DEF NewLink
<1> HIDE DEF k
<1>3. links'[nLinks + 1] = k /\ \A m \in Links : m # nLinks + 1 => links'[m] = links[m]
  BY <1>1 DEF k
<1>4. up.sink # nLinks + 1
  <2>1. CASE up.sink = 0
    BY <1>1, <2>1
  <2>2. CASE up.sink # 0
    <3>1. up.sink \in Links /\ links[up.sink].engEnd
      BY <2>2, InTurnIs
    <3>2. up.sink <= nLinks /\ up.sink \in Nat
      BY <3>1, Bounds DEF IInv, Placed
    <3> QED BY <1>1, <3>2
  <2> QED BY <2>1, <2>2
<1>5. ASSUME NEW F PROVE Rising(links'[nLinks + 1].toApp, F)
  BY <1>2, <1>3 DEF Rising
<1> QED BY <1>3, <1>4, <1>5, AppOrders

\* What is behind a process that is not up, and where it is kept.
LEMMA FloorIs ==
    ASSUME IInv, OrderInv, NEW a \in Apps
    PROVE  /\ apps[a] \in Process /\ apps \in [Apps -> Process]
           /\ apps[a].st # "up" => Floor(apps[a]) = {0}
           /\ \A p : p.under = apps[a].under /\ p.at = apps[a].at => Floor(p) = Floor(apps[a])
BY AppIs DEF OrderInv, Floor

LEMMA BootOrder == ASSUME IInv, IInv', OrderInv, NEW a \in Apps, Boot(a) PROVE OrderInv'
<1> DEFINE p == [apps[a] EXCEPT !.st = "asking", !.link = nLinks + 1]
<1>1. /\ nLinks < MaxLinks /\ links' = [links EXCEPT ![nLinks + 1] = NewLink(a, "connect")]
      /\ apps' = [apps EXCEPT ![a].st = "asking", ![a].link = nLinks + 1]
      /\ up' = up /\ apps[a].st = "unborn"
  BY DEF Boot
<1>2. apps' = [apps EXCEPT ![a] = p] /\ p.link = nLinks + 1
      /\ p.under = apps[a].under /\ p.at = apps[a].at
  BY <1>1, FloorIs DEF Process
<1> HIDE DEF p
<1>3. Floor(p) = {0}
  BY <1>1, <1>2, FloorIs
<1> QED BY <1>1, <1>2, <1>3, OpensLinkOrder

LEMMA RelinkOrder == ASSUME IInv, IInv', OrderInv, NEW a \in Apps, Relink(a) PROVE OrderInv'
<1> DEFINE p == [apps[a] EXCEPT !.st = "asking", !.link = nLinks + 1]
           q == [apps[a] EXCEPT !.link = nLinks + 1]
<1>1. nLinks < MaxLinks /\ up' = up /\ apps[a].st # "up"
  BY DEF Relink
<1>2. CASE /\ links' = [links EXCEPT ![nLinks + 1] = NewLink(a, "connect")]
           /\ apps' = [apps EXCEPT ![a].st = "asking", ![a].link = nLinks + 1]
  <2>1. apps' = [apps EXCEPT ![a] = p] /\ p.link = nLinks + 1
        /\ p.under = apps[a].under /\ p.at = apps[a].at
    BY <1>2, FloorIs DEF Process
  <2> HIDE DEF p
  <2>2. Floor(p) = {0}
    BY <1>1, <2>1, FloorIs
  <2> QED BY <1>1, <1>2, <2>1, <2>2, OpensLinkOrder
<1>3. CASE /\ links' = [links EXCEPT ![nLinks + 1] = NewLink(a, "hello")]
           /\ apps' = [apps EXCEPT ![a].link = nLinks + 1]
  <2>1. apps' = [apps EXCEPT ![a] = q] /\ q.link = nLinks + 1
        /\ q.under = apps[a].under /\ q.at = apps[a].at
    BY <1>3, FloorIs DEF Process
  <2> HIDE DEF q
  <2>2. Floor(q) = {0}
    BY <1>1, <2>1, FloorIs
  <2> QED BY <1>1, <1>3, <2>1, <2>2, OpensLinkOrder
<1> QED BY <1>2, <1>3 DEF Relink

\* A process asks over its link.
LEMMA AsksOrder ==
    ASSUME IInv, IInv', OrderInv, NEW a \in Apps, NEW f \in ToEng,
           links' = Ask(links, apps[a].link, f), NEW p, apps' = [apps EXCEPT ![a] = p],
           p.link = apps[a].link, p.under = apps[a].under, p.at = apps[a].at,
           p.st # "up" => apps[a].st # "up", up' = up
    PROVE  OrderInv'
<1>1. links \in [Links -> Link] /\ p.link \in {0} \union Links
  BY AppIs, InTurnIs
<1>2. \A m \in Links : links'[m].toApp = links[m].toApp /\ (m # p.link => links'[m] = links[m])
  <2> DEFINE d == Ask(links, p.link, f)
  <2>1. /\ \A m \in Links : m # p.link \/ ~links[m].engEnd => d[m] = links[m]
        /\ \A m \in Links : m = p.link /\ links[m].engEnd =>
              Wrote(links[m], d[m], links[m].toApp, Append(links[m].toEng, f))
    BY <1>1, AsksOne
  <2>2. links' = d
    OBVIOUS
  <2> HIDE DEF d
  <2> QED BY <2>1, <2>2 DEF Wrote
<1>3. Floor(p) = Floor(apps[a]) /\ (p.st # "up" => Floor(p) = {0})
  BY FloorIs
<1>4. ASSUME NEW m \in Links, m = p.link
      PROVE  /\ Rising(links'[m].toApp, Floor(p))
             /\ up.sink = m => Below(links'[m].toApp, Floor(p), up.sent)
  <2>1. links[m].appEnd /\ links[m].owner = a
    BY <1>4, AppIs
  <2> QED BY <1>2, <1>3, <2>1, OrderIs
<1> QED BY <1>2, <1>3, <1>4, AppOrders

LEMMA RedialOrder == ASSUME IInv, IInv', OrderInv, NEW a \in Apps, Redial(a) PROVE OrderInv'
<1> DEFINE p == [apps[a] EXCEPT !.st = "asking"]
           f == Op("connect")
<1>1. /\ apps' = [apps EXCEPT ![a].st = "asking"] /\ links' = Ask(links, apps[a].link, f)
      /\ up' = up /\ apps[a].st # "up"
  BY DEF Redial
<1>2. apps' = [apps EXCEPT ![a] = p] /\ p.link = apps[a].link
      /\ p.under = apps[a].under /\ p.at = apps[a].at
  BY <1>1, FloorIs DEF Process
<1>3. f \in ToEng
  BY DEF Op, ToEng
<1> HIDE DEF p, f
<1> QED BY <1>1, <1>2, <1>3, AsksOrder

LEMMA SendAckOrder == ASSUME IInv, IInv', OrderInv, NEW a \in Apps, SendAck(a) PROVE OrderInv'
<1> DEFINE p == [apps[a] EXCEPT !.ackSeq = 0]
           f == [op |-> "ack", seq |-> apps[a].ackSeq]
<1>1. /\ apps' = [apps EXCEPT ![a].ackSeq = 0] /\ links' = Ask(links, apps[a].link, f)
      /\ up' = up /\ apps[a].ackSeq # 0
  BY DEF SendAck
<1>2. apps' = [apps EXCEPT ![a] = p] /\ p.link = apps[a].link /\ p.st = apps[a].st
      /\ p.under = apps[a].under /\ p.at = apps[a].at
  BY <1>1, FloorIs DEF Process
<1>3. f \in ToEng
  BY <1>1, FloorIs DEF ToEng, Process
<1> HIDE DEF p, f
<1> QED BY <1>1, <1>2, <1>3, AsksOrder

\* A process leaves its link: nothing is behind what it is now.
LEMMA LeavesOrder ==
    ASSUME IInv, IInv', OrderInv, NEW a \in Apps, NEW p, NEW st, p = [NoApp EXCEPT !.st = st],
           apps' = [apps EXCEPT ![a] = p], up' = up,
           \A m \in Links : m # apps[a].link => links'[m] = links[m],
           \A m \in Links : m = apps[a].link => ~links'[m].appEnd
    PROVE  OrderInv'
<1>1. p.link = 0 /\ p.under = 0 /\ p.at = 0
  BY DEF NoApp
<1>2. Floor(p) = {0}
  BY <1>1 DEF Floor
<1>3. \A m \in Links : m # p.link
  BY <1>1, Bounds
<1>4. \A m \in Links : links'[m].appEnd => links'[m] = links[m]
  OBVIOUS
<1> QED BY <1>2, <1>3, <1>4, AppOrders

LEMMA LinkLostOrder == ASSUME IInv, IInv', OrderInv, NEW a \in Apps, LinkLost(a) PROVE OrderInv'
<1> DEFINE l == apps[a].link
           st == IF apps[a].st = "over" THEN "over" ELSE "linkless"
           p == [NoApp EXCEPT !.st = st]
<1>1. PICK r \in PrefixesOf(links[l].toEng) : links' = Gone(links, l, r)
  BY DEF LinkLost, Gone
<1>2. l # 0 /\ apps' = [apps EXCEPT ![a] = p] /\ up' = up
  <2> HIDE DEF l
  <2> QED BY DEF LinkLost, l
<1>3. l \in Links /\ links \in [Links -> Link]
  BY <1>2, AppIs, InTurnIs
<1>4. p = [NoApp EXCEPT !.st = st]
  OBVIOUS
<1> HIDE DEF p, st
<1>5. ~links'[l].appEnd /\ \A m \in Links : m # l => links'[m] = links[m]
  BY <1>1, <1>3, GoneIs
<1> QED BY <1>2, <1>4, <1>5, LeavesOrder

LEMMA CrashOrder == ASSUME IInv, IInv', OrderInv, NEW a \in Apps, Crash(a) PROVE OrderInv'
<1> DEFINE l == apps[a].link
           p == [NoApp EXCEPT !.st = "gone"]
<1>1. PICK r \in IF l = 0 THEN {<<>>} ELSE PrefixesOf(links[l].toEng) :
         links' = IF l = 0 THEN links ELSE Gone(links, l, r)
  BY DEF Crash, Gone
<1>2. apps' = [apps EXCEPT ![a] = p] /\ up' = up
  BY DEF Crash
<1>3. l \in {0} \union Links /\ links \in [Links -> Link] /\ 0 \notin Links
  BY AppIs, InTurnIs
<1>4. p = [NoApp EXCEPT !.st = "gone"]
  OBVIOUS
<1> HIDE DEF p
<1>5. CASE l = 0
  BY <1>1, <1>2, <1>3, <1>4, <1>5, LeavesOrder
<1>6. CASE l # 0
  <2>1. l \in Links /\ links' = Gone(links, l, r)
    BY <1>1, <1>3, <1>6
  <2>2. ~links'[l].appEnd /\ \A m \in Links : m # l => links'[m] = links[m]
    BY <1>3, <2>1, GoneIs
  <2> QED BY <1>2, <1>4, <2>2, LeavesOrder
<1> QED BY <1>5, <1>6

LEMMA ShutdownOrder == ASSUME IInv, IInv', OrderInv, NEW a \in Apps, Shutdown(a) PROVE OrderInv'
<1> DEFINE l == apps[a].link
           p == [NoApp EXCEPT !.st = "gone"]
           f == Op("detach")
           e == Ask(links, l, f)
           d == IF apps[a].st = "up" THEN e ELSE links
<1>1. links' = IF l = 0 THEN links ELSE [d EXCEPT ![l].appEnd = FALSE, ![l].toApp = <<>>]
  BY DEF Shutdown
<1>2. apps' = [apps EXCEPT ![a] = p] /\ up' = up
  BY DEF Shutdown
<1>3. l \in {0} \union Links /\ links \in [Links -> Link] /\ 0 \notin Links
  BY AppIs, InTurnIs
<1>4. p = [NoApp EXCEPT !.st = "gone"]
  OBVIOUS
<1>5. f \in ToEng
  BY DEF Op, ToEng
<1> HIDE DEF p, f, l
<1>7. e \in [Links -> Link] /\ \A m \in Links : m # l => e[m] = links[m]
  <2>1. e \in [Links -> Link]
    BY ONLY <1>3, <1>5, AsksOne
  <2>2. \A m \in Links : m # l => e[m] = links[m]
    BY ONLY <1>3, <1>5, AsksOne
  <2> QED BY <2>1, <2>2
<1> HIDE DEF e
<1>8. d \in [Links -> Link] /\ \A m \in Links : m # l => d[m] = links[m]
  BY <1>3, <1>7
<1> HIDE DEF d
<1>9. CASE l = 0
  BY <1>1, <1>2, <1>3, <1>4, <1>9, LeavesOrder DEF l
<1>10. CASE l # 0
  <2> DEFINE k == [d[l] EXCEPT !.appEnd = FALSE, !.toApp = <<>>]
  <2>1. l \in Links /\ d[l] \in Link /\ links' = [d EXCEPT ![l] = k]
    BY <1>1, <1>3, <1>8, <1>10
  <2>2. ~k.appEnd
    BY <2>1 DEF Link
  <2> HIDE DEF k
  <2>3. ~links'[l].appEnd /\ \A m \in Links : m # l => links'[m] = links[m]
    BY <1>8, <2>1, <2>2
  <2> QED BY <1>2, <1>4, <2>3, LeavesOrder DEF l
<1> QED BY <1>9, <1>10

\* With frame f behind it too, or starting over on it.
Behind(G, F, f) ==
    \A q \in G : q = 0 \/ (~Resets(f) /\ (q \in F \/ (IsLine(f) /\ q = f.seq)))

\* A process that reads a frame.
LEMMA TakesOrder ==
    ASSUME IInv, IInv', OrderInv, NEW a \in Apps, NEW l, l = apps[a].link, l # 0, links[l].toApp # <<>>,
           NEW f, f = Head(links[l].toApp), up' = up,
           NEW p, apps' = [apps EXCEPT ![a] = p], p.link = l, p.st # "up" => Floor(p) = {0},
           Behind(Floor(p), Floor(apps[a]), f),
           \A m \in Links : m # l => links'[m] = links[m],
           links'[l].toApp = Tail(links[l].toApp)
    PROVE  OrderInv'
<1> DEFINE t == links[l].toApp
           F == Floor(apps[a])
           F2 == Floor(p)
           s == up.sent
<1>1. l \in Links /\ links[l].appEnd /\ links[l].owner = a
  BY AppIs
<1>2. t \in Seq(ToApp) /\ Rising(t, F) /\ (up.sink = l => Below(t, F, s)) /\ t # <<>>
  BY <1>1, OrderIs
<1>3. s \in Nat
  <2>1. UpSound(up)
    BY DEF IInv
  <2> QED BY <2>1, UpIs
<1>4. \A q \in F2 : \/ q = 0
                    \/ /\ ~Resets(Head(t))
                       /\ q \in F \/ (IsLine(Head(t)) /\ q = Head(t).seq)
  BY DEF Behind
<1>5. links'[l].toApp = Tail(t)
  OBVIOUS
<1> HIDE DEF t, F, F2, s
<1>6. Rising(Tail(t), F2) /\ (Below(t, F, s) => Below(Tail(t), F2, s))
  BY <1>2, <1>3, <1>4, OrderRead
<1>7. ASSUME NEW m \in Links, m = p.link
      PROVE  /\ Rising(links'[m].toApp, Floor(p))
             /\ up.sink = m => Below(links'[m].toApp, Floor(p), up.sent)
  BY <1>2, <1>5, <1>6, <1>7 DEF F2, s
<1>8. \A m \in Links : m # p.link /\ links'[m].appEnd => links'[m] = links[m]
  OBVIOUS
<1> QED BY <1>7, <1>8, AppOrders

\* EngineTransport.onFrame, for each kind of frame: a process starts over on
\* the frames that say so, and has a line behind it from the line on.
LEMMA FrameFloor ==
    ASSUME IInv, OrderInv, NEW a \in Apps, apps[a].link # 0, links[apps[a].link].toApp # <<>>,
           NEW f, f = Head(links[apps[a].link].toApp), OnFrame(a, f)
    PROVE  \E p : /\ apps' = [apps EXCEPT ![a] = p] /\ p.link = apps[a].link
                  /\ p.st # "up" => Floor(p) = {0}
                  /\ Behind(Floor(p), Floor(apps[a]), f)
<1> DEFINE p == apps[a]
<1>1. p \in Process /\ apps \in [Apps -> Process] /\ (p.st # "up" => Floor(p) = {0})
  BY FloorIs
<1>2. f.op = "line" => p.st = "up"
  BY FrameIs
<1> DEFINE Step(q) == /\ apps' = [apps EXCEPT ![a] = q] /\ q.link = p.link
                      /\ q.st # "up" => Floor(q) = {0}
                      /\ Behind(Floor(q), Floor(p), f)
<1> SUFFICES \E q : Step(q)
  OBVIOUS
<1>3. ASSUME NEW q, apps' = [apps EXCEPT ![a] = q], q.link = p.link, q.under = 0, q.at = 0
      PROVE  Step(q)
  BY <1>3 DEF Floor, Behind
<1>4. ASSUME NEW q, apps' = [apps EXCEPT ![a] = q], q.link = p.link, q.st # "up" => p.st # "up",
             q.under = p.under, q.at = p.at, ~Resets(f)
      PROVE  Step(q)
  BY <1>1, <1>4 DEF Floor, Behind
<1>5. ASSUME NEW st, NEW q, q = Ended(p, st) PROVE q.link = p.link /\ q.under = 0 /\ q.at = 0
  BY <1>5 DEF Ended, NoApp
<1>6. CASE f.op = "dialing" /\ apps' = [apps EXCEPT ![a] = Ended(p, "asking")]
  <2> DEFINE q == Ended(p, "asking")
  <2>1. q.link = p.link /\ q.under = 0 /\ q.at = 0 /\ apps' = [apps EXCEPT ![a] = q]
    BY <1>5, <1>6
  <2> HIDE DEF q, Step
  <2> QED BY <1>3, <2>1
<1>7. CASE f.op = "detached" /\ apps' = [apps EXCEPT ![a] = Ended(p, "over")]
  <2> DEFINE q == Ended(p, "over")
  <2>1. q.link = p.link /\ q.under = 0 /\ q.at = 0 /\ apps' = [apps EXCEPT ![a] = q]
    BY <1>5, <1>7
  <2> HIDE DEF q, Step
  <2> QED BY <1>3, <2>1
<1>8. CASE f.op = "closed" /\ apps' = [apps EXCEPT ![a] = Ended(p, "redial")]
  <2> DEFINE q == Ended(p, "redial")
  <2>1. q.link = p.link /\ q.under = 0 /\ q.at = 0 /\ apps' = [apps EXCEPT ![a] = q]
    BY <1>5, <1>8
  <2> HIDE DEF q, Step
  <2> QED BY <1>3, <2>1
<1>9. CASE f.op = "open" /\ apps' = [apps EXCEPT ![a].st = "up", ![a].sock = f.sock]
  <2> DEFINE q == [p EXCEPT !.st = "up", !.sock = f.sock]
  <2>1. apps' = [apps EXCEPT ![a] = q] /\ q.link = p.link /\ q.st = "up"
        /\ q.under = p.under /\ q.at = p.at /\ ~Resets(f)
    BY <1>1, <1>9 DEF Process, Resets
  <2> HIDE DEF q, Step
  <2> QED BY <1>4, <2>1
<1>10. CASE f.op = "attached"
            /\ apps' = [apps EXCEPT ![a] = [Ended(p, "up") EXCEPT !.sock = f.sock,
                                               !.catching = TRUE, !.maxRow = Len(log)]]
  <2> DEFINE q == [Ended(p, "up") EXCEPT !.sock = f.sock, !.catching = TRUE, !.maxRow = Len(log)]
  <2>1. apps' = [apps EXCEPT ![a] = q]
    BY <1>10
  <2>2. q.link = p.link /\ q.under = 0 /\ q.at = 0
    BY DEF Ended, NoApp
  <2> HIDE DEF q, Step
  <2> QED BY <1>3, <2>1, <2>2
<1>11. CASE f.op = "line" /\ apps' = [apps EXCEPT ![a] = Delivering(p, f.seq)]
  <2> DEFINE s     == f.seq
             q     == Delivering(p, s)
             rows  == RowsFor(p, s)
             known == IF InOpenBatch(s) THEN p.known \union {s} ELSE p.known \ (BatchStart[s] .. s)
  <2>1. q = IF rows = {} THEN [p EXCEPT !.known = known, !.ackSeq = s]
                         ELSE [p EXCEPT !.known = known, !.at = s, !.todo = rows]
    BY DEF Delivering
  <2> HIDE DEF rows, known, q
  <2>2. q.link = p.link /\ q.st = p.st /\ q.under = p.under /\ (q.at = p.at \/ q.at = s)
    BY <1>1, <2>1 DEF Process
  <2>3. apps' = [apps EXCEPT ![a] = q] /\ ~Resets(f) /\ IsLine(f) /\ q.st = "up"
    BY <1>2, <1>11, <2>2 DEF q, Resets, IsLine
  <2>4. \A n \in Floor(q) : n \in Floor(p) \/ n = s
    BY <2>2 DEF Floor
  <2>5. Step(q)
    BY <2>2, <2>3, <2>4 DEF Behind
  <2> HIDE DEF Step
  <2> QED BY <2>5
<1>12. CASE f.op = "gap" /\ UNCHANGED apps
  <2>1. apps' = [apps EXCEPT ![a] = p] /\ ~Resets(f)
    BY <1>1, <1>12 DEF Resets
  <2> HIDE DEF Step, p
  <2> QED BY <1>4, <2>1
<1>13. CASE f.op = "live" /\ apps' = [apps EXCEPT ![a].catching = FALSE, ![a].maxRow = 0]
  <2> DEFINE q == [p EXCEPT !.catching = FALSE, !.maxRow = 0]
  <2>1. apps' = [apps EXCEPT ![a] = q] /\ q.link = p.link /\ q.st = p.st
        /\ q.under = p.under /\ q.at = p.at /\ ~Resets(f)
    BY <1>1, <1>13 DEF Process, Resets
  <2> HIDE DEF q, Step
  <2> QED BY <1>4, <2>1
<1> HIDE DEF Step
<1> QED BY <1>6, <1>7, <1>8, <1>9, <1>10, <1>11, <1>12, <1>13 DEF OnFrame

LEMMA AppReadsOrder == ASSUME IInv, IInv', OrderInv, NEW a \in Apps, AppReads(a) PROVE OrderInv'
<1> DEFINE l == apps[a].link
           p == apps[a]
           f == Head(links[l].toApp)
           ls == Took(l)
<1>1. l # 0 /\ links[l].toApp # <<>> /\ up' = up
  BY DEF AppReads
<1>2. p \in Process /\ apps \in [Apps -> Process] /\ l \in Links /\ (p.st # "up" => Floor(p) = {0})
  BY <1>1, AppIs, FloorIs
<1>3. /\ ls \in [Links -> Link]
      /\ \A m \in Links : m # l => ls[m] = links[m]
      /\ ls[l].toApp = Tail(links[l].toApp)
  BY <1>1, <1>2, TookIs DEF Wrote
<1>4. CASE f.op = "held" /\ p.st = "over"
  <2> DEFINE q == [p EXCEPT !.st = "asking"]
             o == Op("connect")
             d == Ask(ls, l, o)
  <2>1. links' = d /\ apps' = [apps EXCEPT ![a] = q]
    BY <1>2, <1>4 DEF AppReads, Took
  <2>2. q.link = l /\ q.under = p.under /\ q.at = p.at
    BY <1>2 DEF Process
  <2> HIDE DEF q
  <2>3. Floor(q) = {0}
    BY <1>2, <1>4, <2>2 DEF Floor
  <2>4. o \in ToEng
    BY DEF Op, ToEng
  <2> HIDE DEF ls, o, l
  <2>5. \A m \in Links : m # l \/ ~ls[m].engEnd => d[m] = ls[m]
    BY ONLY <1>2, <1>3, <2>4, AsksOne
  <2>6. \A m \in Links : m = l /\ ls[m].engEnd =>
            Wrote(ls[m], d[m], ls[m].toApp, Append(ls[m].toEng, o))
    BY ONLY <1>2, <1>3, <2>4, AsksOne
  <2> HIDE DEF d
  <2>7. links'[l].toApp = Tail(links[l].toApp) /\ \A m \in Links : m # l => links'[m] = links[m]
    BY <1>2, <1>3, <2>1, <2>5, <2>6 DEF Wrote
  <2>8. l = apps[a].link /\ l # 0 /\ links[l].toApp # <<>> /\ f = Head(links[l].toApp)
        /\ up' = up /\ (q.st # "up" => Floor(q) = {0})
    BY <1>1, <2>3 DEF l
  <2>9. Behind(Floor(q), Floor(apps[a]), f)
    BY <2>3 DEF Behind
  <2> HIDE DEF f, p
  <2> QED BY ONLY IInv, IInv', OrderInv, a \in Apps, <2>1, <2>2, <2>7, <2>8, <2>9, TakesOrder
<1>5. CASE ~(f.op = "held" /\ p.st = "over")
  <2>1. /\ links' = ls
        /\ \/ (f.op = "held" \/ p.st \notin {"asking", "up"}) /\ UNCHANGED apps
           \/ OnFrame(a, f)
    BY <1>5 DEF AppReads, Took
  <2>2. links'[l].toApp = Tail(links[l].toApp) /\ \A m \in Links : m # l => links'[m] = links[m]
    BY <1>3, <2>1
  <2>3. CASE OnFrame(a, f)
    <3>1. PICK q : /\ apps' = [apps EXCEPT ![a] = q] /\ q.link = apps[a].link
                   /\ q.st # "up" => Floor(q) = {0}
                   /\ Behind(Floor(q), Floor(apps[a]), f)
      BY <1>1, <2>3, FrameFloor
    <3>2. l = apps[a].link /\ l # 0 /\ links[l].toApp # <<>> /\ f = Head(links[l].toApp)
          /\ up' = up /\ q.link = l
      BY <1>1, <3>1
    <3> HIDE DEF f, p, l
    <3> QED BY ONLY IInv, IInv', OrderInv, a \in Apps, <2>2, <3>1, <3>2, TakesOrder
  <2>4. CASE (f.op = "held" \/ p.st \notin {"asking", "up"}) /\ UNCHANGED apps
    <3>1. f.op = "held"
      BY <1>1, <2>4, FrameIs
    <3>2. apps' = [apps EXCEPT ![a] = p] /\ ~Resets(f)
      BY <1>2, <2>4, <3>1 DEF Resets
    <3>3. Behind(Floor(p), Floor(apps[a]), f)
      BY <3>2 DEF Behind
    <3> QED BY <1>1, <1>2, <2>2, <3>2, <3>3, TakesOrder
  <2> QED BY <2>1, <2>3, <2>4
<1> QED BY <1>4, <1>5

\* IrcConnection.publish, for one row: it has no more behind it than before.
LEMMA StoreRowOrder == ASSUME IInv, IInv', OrderInv, NEW a \in Apps, StoreRow(a) PROVE OrderInv'
<1> DEFINE p     == apps[a]
           row   == [sock |-> p.sock, seq |-> p.at, part |-> Min(p.todo)]
           store == ~AlreadyPersisted(p, row) /\ ~RefusedByMark(p)
           last  == p.todo = {Min(p.todo)}
           q     == [p EXCEPT !.todo = @ \ {Min(@)}, !.under = IF store THEN p.at ELSE @,
                              !.at = IF last THEN 0 ELSE @, !.ackSeq = IF last THEN p.at ELSE @]
<1>1. p \in Process /\ Sane(p) /\ apps \in [Apps -> Process]
  BY AppIs
<1>2. p.todo # {} /\ up' = up /\ links' = links /\ p.st = "up" /\ p.link # 0
  BY <1>1 DEF StoreRow, Sane
<1>3. apps' = [apps EXCEPT ![a] = q]
  BY <1>1 DEF StoreRow
<1> HIDE DEF store, last
<1>4. q.link = p.link /\ q.st = "up" /\ q.under \in {p.under, p.at} /\ q.at \in {p.at, 0}
  BY <1>1, <1>2 DEF Process
<1> HIDE DEF q
<1>5. \A n \in Floor(q) : n = 0 \/ n \in Floor(p)
  BY <1>4 DEF Floor
<1>6. ASSUME NEW m \in Links, m = q.link
      PROVE  /\ Rising(links'[m].toApp, Floor(q))
             /\ up.sink = m => Below(links'[m].toApp, Floor(q), up.sent)
  <2> DEFINE t == links[m].toApp
  <2>1. links[m].appEnd /\ links[m].owner = a
    BY <1>2, <1>4, <1>6, AppIs
  <2>2. t \in Seq(ToApp) /\ Rising(t, Floor(p)) /\ (up.sink = m => Below(t, Floor(p), up.sent))
    BY <2>1, OrderIs
  <2>3. UpSound(up)
    BY DEF IInv
  <2>4. up.sent \in Nat
    BY <2>3, UpIs
  <2>5. \A j \in DOMAIN t : IsLine(t[j]) => t[j].seq \in Nat \ {0}
    <3> SUFFICES ASSUME NEW j \in DOMAIN t, IsLine(t[j]) PROVE t[j].seq \in Nat \ {0}
      OBVIOUS
    <3>1. t[j] \in ToApp
      BY <2>2, ElementOfSeq
    <3>2. t[j].seq \in Seqs
      BY <3>1, LineSeq
    <3> QED BY <3>2, Bounds
  <2> HIDE DEF t
  <2>6. Rising(t, Floor(q))
    BY <1>5, <2>2, <2>5 DEF Rising
  <2>7. ASSUME up.sink = m PROVE Below(t, Floor(q), up.sent)
    BY <1>5, <2>2, <2>4, <2>7 DEF Below
  <2> QED BY <1>2, <2>6, <2>7 DEF t
<1> QED BY <1>2, <1>3, <1>4, <1>6, AppOrders

-----------------------------------------------------------------------------
(* Lines come in their order.                                              *)

LEMMA InitOrder == Init => OrderInv
<1> SUFFICES ASSUME Init PROVE OrderInv
  OBVIOUS
<1>1. apps = [a \in Apps |-> NoApp] /\ links = [l \in Links |-> NoLink]
  BY DEF Init
<1>2. NoApp.under = 0 /\ NoApp.at = 0 /\ ~NoLink.appEnd
  BY DEF NoApp, NoLink
<1>3. \A a \in Apps : Floor(apps[a]) = {0}
  BY <1>1, <1>2 DEF Floor
<1>4. \A l \in Links : ~links[l].appEnd
  BY <1>1, <1>2
<1> QED BY <1>3, <1>4 DEF OrderInv

LEMMA StepOrder == IInv /\ IInv' /\ OrderInv /\ [Next]_vars => OrderInv'
<1> SUFFICES ASSUME IInv, IInv', OrderInv, [Next]_vars PROVE OrderInv'
  OBVIOUS
<1>1. CASE EngineStep
  BY <1>1, OpensOrder, ServerLineOrder, SqueezedOrder, DrainOrder, DiesOrder DEF EngineStep
<1>2. ASSUME NEW l \in Links, LinkStep(l) PROVE OrderInv'
  BY <1>2, ReadsOrder, SeesEOFOrder, DropsOrder DEF LinkStep
<1>3. ASSUME NEW a \in Apps, AppStep(a) PROVE OrderInv'
  BY <1>3, BootOrder, RelinkOrder, RedialOrder, LinkLostOrder, CrashOrder, ShutdownOrder,
     AppReadsOrder, StoreRowOrder, SendAckOrder DEF AppStep
<1>4. CASE UNCHANGED vars
  <2>1. up' = up /\ links' = links /\ apps' = apps
    BY <1>4 DEF vars
  <2> QED BY <2>1 DEF OrderInv, Floor
<1> QED BY <1>1, <1>2, <1>3, <1>4 DEF Next

-----------------------------------------------------------------------------
(* The marks.                                                              *)

\* p goes on with what q has in hand.
SameHand(p, q) == q.sock = p.sock /\ q.at = p.at /\ q.todo = p.todo

\* A step that stores nothing and forgets the marks it takes away; whoever has
\* a line in part stored had it before.
LEMMA MarksCarry ==
    ASSUME IInv, MarkInv, log' = log, hist.forgot \subseteq hist'.forgot,
           \A n \in Socks : n \notin hist'.forgot => marks'[n] = marks[n],
           \A a \in Apps : Partly(apps'[a]) => Partly(apps[a]) /\ SameHand(apps[a], apps'[a])
    PROVE  MarkInv'
<1>1. \A n : n \notin hist'.forgot => Stands(n)
  BY DEF Stands
<1>2. \A i \in DOMAIN log : log[i].sock \in Socks
  <2> SUFFICES ASSUME NEW i \in DOMAIN log PROVE log[i].sock \in Socks
    OBVIOUS
  <2>1. log \in Seq(Row)
    BY DEF IInv, Typed
  <2>2. log[i] \in Row
    BY <2>1, ElementOfSeq
  <2> QED BY <2>2 DEF Row
<1>3. \A i \in DOMAIN log : log[i].sock \notin hist'.forgot => log[i].seq <= marks'[log[i].sock]
  BY <1>1, <1>2 DEF MarkInv
<1>4. ASSUME NEW a \in Apps, Partly(apps'[a]), apps'[a].sock \notin hist'.forgot
      PROVE  /\ apps'[a].at <= marks'[apps'[a].sock]
             /\ \A i \in DOMAIN log :
                   log[i].sock = apps'[a].sock /\ log[i].seq = apps'[a].at
                       => log[i].part \notin apps'[a].todo
  <2>1. Partly(apps[a]) /\ SameHand(apps[a], apps'[a])
    BY <1>4
  <2>2. Stands(apps[a].sock) /\ apps[a].sock \in Socks
    <3>1. Sane(apps[a]) /\ apps[a] \in Process
      BY AppIs
    <3>2. apps[a].sock # 0
      BY <2>1, <3>1 DEF Sane, Partly
    <3> QED BY <1>1, <1>4, <2>1, <3>1, <3>2 DEF SameHand, Process
  <2>3. /\ apps[a].at <= marks[apps[a].sock]
        /\ \A i \in DOMAIN log :
              log[i].sock = apps[a].sock /\ log[i].seq = apps[a].at => log[i].part \notin apps[a].todo
    BY <2>1, <2>2 DEF MarkInv
  <2> QED BY <1>4, <2>1, <2>2, <2>3 DEF SameHand
<1>5. ASSUME NEW a \in Apps, NEW b \in Apps, a # b, Partly(apps'[a]), Partly(apps'[b]),
             apps'[a].sock = apps'[b].sock, apps'[a].sock \notin hist'.forgot
      PROVE  apps'[a].at # apps'[b].at
  <2>1. /\ Partly(apps[a]) /\ SameHand(apps[a], apps'[a])
        /\ Partly(apps[b]) /\ SameHand(apps[b], apps'[b])
    BY <1>5
  <2>2. Stands(apps[a].sock) /\ apps[a].sock = apps[b].sock
    BY <1>1, <1>5, <2>1 DEF SameHand
  <2>3. apps[a].at # apps[b].at
    BY <1>5, <2>1, <2>2 DEF MarkInv
  <2> QED BY <2>1, <2>3 DEF SameHand
<1>6. SecondCopyNeedsPrune'
  <2>1. SecondCopyNeedsPrune
    BY DEF MarkInv
  <2> QED BY <2>1 DEF SecondCopyNeedsPrune
<1> QED BY <1>3, <1>4, <1>5, <1>6 DEF MarkInv, Stands, Partly

\* A step of one process that stores nothing: it has no line in part stored
\* after it, or has the one it had.
LEMMA OneCarries ==
    ASSUME IInv, MarkInv, NEW a \in Apps, NEW p, apps' = [apps EXCEPT ![a] = p],
           Partly(p) => Partly(apps[a]) /\ SameHand(apps[a], p),
           log' = log, hist.forgot \subseteq hist'.forgot,
           \A n \in Socks : n \notin hist'.forgot => marks'[n] = marks[n]
    PROVE  MarkInv'
<1>1. apps \in [Apps -> Process]
  BY AppIs
<1>2. apps'[a] = p /\ \A b \in Apps : b # a => apps'[b] = apps[b]
  BY <1>1
<1>3. ASSUME NEW b \in Apps, Partly(apps'[b]) PROVE Partly(apps[b]) /\ SameHand(apps[b], apps'[b])
  BY <1>2, <1>3 DEF SameHand
<1> QED BY <1>3, MarksCarry

\* A process that has nothing in hand has no line in part stored.
LEMMA HandsEmpty == ASSUME NEW p, p.todo = {} PROVE ~Partly(p)
BY DEF Partly

LEMMA EngineMarks == ASSUME IInv, MarkInv, UNCHANGED <<apps, marks, log>>, hist'.forgot = hist.forgot
                     PROVE  MarkInv'
<1>1. \A a \in Apps : Partly(apps'[a]) => Partly(apps[a]) /\ SameHand(apps[a], apps'[a])
  BY DEF SameHand
<1> QED BY <1>1, MarksCarry

\* The history of a line is no matter of the marks.
LEMMA NoteKeeps ==
    ASSUME IInv, NEW field \in {"acked", "shed", "told"}, NEW n, NEW S, hist' = Note(field, n, S)
    PROVE  hist'.forgot = hist.forgot
<1>1. hist \in History
  BY DEF IInv, Typed
<1> QED BY <1>1 DEF Note, History

LEMMA EngineStepMarks == ASSUME IInv, MarkInv, EngineStep PROVE MarkInv'
<1>1. CASE Opens \/ Squeezed \/ Drain \/ SocketDies \/ ServerLine
  <2>1. UNCHANGED <<apps, marks, log>>
    BY <1>1 DEF Opens, Squeezed, Drain, SocketDies, ServerLine
  <2>2. hist' = hist \/ \E k : hist' = Note("shed", up.sock, Dropped(up.buf, k))
    BY <1>1 DEF Opens, Squeezed, Drain, SocketDies, ServerLine
  <2>3. hist'.forgot = hist.forgot
    BY <2>2, NoteKeeps
  <2> QED BY <2>1, <2>3, EngineMarks
<1> QED BY <1>1 DEF EngineStep

LEMMA LinkStepMarks == ASSUME IInv, MarkInv, NEW l \in Links, LinkStep(l) PROVE MarkInv'
<1>1. UNCHANGED <<apps, marks, log>>
  BY DEF LinkStep, EngineReads, EngineSeesEOF, EngineDropsLink
<1>2. hist' = hist \/ \E q : hist' = Note("acked", up.sock, Released(up.buf, q))
  <2>1. CASE EngineReads(l)
    <3> DEFINE frame == Head(links[l].toEng)
               ls == [links EXCEPT ![l].toEng = Tail(@)]
    <3>1. \/ UNCHANGED hist
          \/ Connect(l, ls)
          \/ hist' = Note("acked", up.sock, Released(up.buf, frame.seq))
      BY <2>1 DEF EngineReads
    <3> HIDE DEF ls
    <3>2. CASE Connect(l, ls)
      BY <3>2 DEF Connect
    <3> QED BY <3>1, <3>2
  <2>2. CASE EngineSeesEOF(l) \/ EngineDropsLink(l)
    BY <2>2 DEF EngineSeesEOF, EngineDropsLink
  <2> QED BY <2>1, <2>2 DEF LinkStep
<1>3. hist'.forgot = hist.forgot
  BY <1>2, NoteKeeps
<1> QED BY <1>1, <1>3, EngineMarks

\* A process starts, asks, goes or acks.
LEMMA RestMarks ==
    ASSUME IInv, MarkInv, NEW a \in Apps,
           \/ Boot(a) \/ Relink(a) \/ Redial(a) \/ LinkLost(a) \/ Crash(a) \/ Shutdown(a) \/ SendAck(a)
    PROVE  MarkInv'
<1>0. apps \in [Apps -> Process] /\ apps[a] \in Process
  BY AppIs
<1>1. UNCHANGED <<marks, log, hist>>
  BY DEF Boot, Relink, Redial, LinkLost, Crash, Shutdown, SendAck
<1> DEFINE Same(q) == apps' = [apps EXCEPT ![a] = q] /\ SameHand(apps[a], q) /\ q.under = apps[a].under
           None(q) == apps' = [apps EXCEPT ![a] = q] /\ q.todo = {}
<1>2. ASSUME NEW q, Same(q) \/ None(q) PROVE MarkInv'
  <2>1. apps' = [apps EXCEPT ![a] = q]
    BY <1>2
  <2>2. Partly(q) => Partly(apps[a]) /\ SameHand(apps[a], q)
    BY <1>2 DEF Partly, SameHand
  <2> QED BY <1>1, <2>1, <2>2, OneCarries
<1>3. ASSUME NEW st PROVE [NoApp EXCEPT !.st = st].todo = {}
  BY DEF NoApp
<1>4. CASE Boot(a)
  <2> DEFINE q == [apps[a] EXCEPT !.st = "asking", !.link = nLinks + 1]
  <2>1. Same(q)
    BY <1>0, <1>4 DEF Boot, SameHand, Process
  <2> QED BY <1>2, <2>1
<1>5. CASE Relink(a)
  <2> DEFINE q == [apps[a] EXCEPT !.st = "asking", !.link = nLinks + 1]
             r == [apps[a] EXCEPT !.link = nLinks + 1]
  <2>1. Same(q) \/ Same(r)
    BY <1>0, <1>5 DEF Relink, SameHand, Process
  <2> HIDE DEF q, r, Same
  <2> QED BY <1>2, <2>1
<1>6. CASE Redial(a)
  <2> DEFINE q == [apps[a] EXCEPT !.st = "asking"]
  <2>1. Same(q)
    BY <1>0, <1>6 DEF Redial, SameHand, Process
  <2> QED BY <1>2, <2>1
<1>7. CASE SendAck(a)
  <2> DEFINE q == [apps[a] EXCEPT !.ackSeq = 0]
  <2>1. Same(q)
    BY <1>0, <1>7 DEF SendAck, SameHand, Process
  <2> QED BY <1>2, <2>1
<1>8. CASE LinkLost(a) \/ Crash(a) \/ Shutdown(a)
  <2>1. \E st : apps' = [apps EXCEPT ![a] = [NoApp EXCEPT !.st = st]]
    BY <1>8 DEF LinkLost, Crash, Shutdown
  <2>2. PICK st : apps' = [apps EXCEPT ![a] = [NoApp EXCEPT !.st = st]]
    BY <2>1
  <2> DEFINE q == [NoApp EXCEPT !.st = st]
  <2>3. None(q)
    BY <1>3, <2>2
  <2> HIDE DEF q, None
  <2> QED BY <1>2, <2>3
<1> QED BY <1>4, <1>5, <1>6, <1>7, <1>8

\* pruneEngineMarks: a mark that goes is forgotten.
LEMMA PrunedForgets ==
    ASSUME IInv, NEW keep, hist' = [hist EXCEPT !.forgot = @ \union Forgotten(keep)], marks' = Pruned(keep)
    PROVE  /\ hist.forgot \subseteq hist'.forgot
           /\ \A n \in Socks : n \notin hist'.forgot => marks'[n] = marks[n]
<1>1. hist \in History /\ marks \in [Socks -> {0} \union Seqs]
  BY DEF IInv, Typed
<1>2. hist'.forgot = hist.forgot \union Forgotten(keep)
  BY <1>1 DEF History
<1>3. ASSUME NEW n \in Socks, n \notin hist'.forgot PROVE marks'[n] = marks[n]
  <2>1. n = keep \/ marks[n] = 0
    BY <1>2, <1>3 DEF Forgotten
  <2> QED BY <2>1 DEF Pruned
<1> QED BY <1>2, <1>3

\* A line is past all that is behind the process it comes to.
LEMMA LineIsPast ==
    ASSUME IInv, OrderInv, NEW a \in Apps, apps[a].link # 0, links[apps[a].link].toApp # <<>>,
           NEW f, f = Head(links[apps[a].link].toApp), IsLine(f)
    PROVE  apps[a].under # f.seq
<1> DEFINE l == apps[a].link
           t == links[l].toApp
           F == Floor(apps[a])
<1>1. l \in Links /\ links[l].appEnd /\ links[l].owner = a
  BY AppIs
<1>2. t \in Seq(ToApp) /\ Rising(t, F) /\ F \in SUBSET Nat
  BY <1>1, OrderIs
<1>3. 1 \in DOMAIN t /\ t[1] = f
  <2>1. t # <<>> /\ f = Head(t)
    OBVIOUS
  <2> HIDE DEF t
  <2> QED BY <1>2, <2>1, LenProperties, EmptySeq
<1>4. Clear(t, 0, 1)
  BY DEF Clear
<1>5. apps[a].under \in F
  BY DEF Floor
<1> HIDE DEF t, F
<1>6. apps[a].under < f.seq
  BY <1>2, <1>3, <1>4, <1>5 DEF Rising
<1>7. apps[a].under \in Nat /\ f.seq \in Nat
  <2>1. f.seq \in Seqs
    BY FrameIs, LineSeq
  <2> QED BY <1>2, <1>5, <2>1, Bounds
<1> QED BY ONLY <1>6, <1>7

\* EngineTransport.onFrame: after it no line is in part stored.
LEMMA OnFrameMarks ==
    ASSUME IInv, OrderInv, MarkInv, NEW a \in Apps, apps[a].link # 0, links[apps[a].link].toApp # <<>>,
           apps[a].todo = {}, NEW f, f = Head(links[apps[a].link].toApp), log' = log, OnFrame(a, f)
    PROVE  MarkInv'
<1> DEFINE p == apps[a]
<1>1. p \in Process /\ apps \in [Apps -> Process]
  BY AppIs
<1>2. ASSUME NEW q, ~Partly(q), apps' = [apps EXCEPT ![a] = q],
             \/ UNCHANGED <<marks, hist>>
             \/ \E n, S : hist' = Note("told", n, S) /\ marks' = marks
             \/ \E keep : /\ marks' = Pruned(keep)
                          /\ hist' = [hist EXCEPT !.forgot = @ \union Forgotten(keep)]
      PROVE  MarkInv'
  <2>1. hist.forgot \subseteq hist'.forgot /\ \A n \in Socks : n \notin hist'.forgot => marks'[n] = marks[n]
    <3>1. CASE UNCHANGED <<marks, hist>>
      BY <3>1
    <3>2. CASE \E n, S : hist' = Note("told", n, S) /\ marks' = marks
      BY <3>2, NoteKeeps
    <3>3. CASE \E keep : /\ marks' = Pruned(keep)
                         /\ hist' = [hist EXCEPT !.forgot = @ \union Forgotten(keep)]
      BY <3>3, PrunedForgets
    <3> QED BY <1>2, <3>1, <3>2, <3>3
  <2> QED BY <1>2, <2>1, OneCarries
<1>3. ASSUME NEW st PROVE ~Partly(Ended(p, st))
  BY DEF Ended, NoApp, Partly
<1>4. CASE f.op = "dialing" /\ apps' = [apps EXCEPT ![a] = Ended(p, "asking")]
           /\ marks' = Pruned(0) /\ hist' = [hist EXCEPT !.forgot = @ \union Forgotten(0)]
  <2> HIDE DEF p
  <2> QED BY <1>2, <1>3, <1>4
<1>5. CASE /\ UNCHANGED <<marks, hist>>
           /\ \E st : apps' = [apps EXCEPT ![a] = Ended(p, st)]
  <2> HIDE DEF p
  <2> QED BY <1>2, <1>3, <1>5
<1>6. CASE f.op = "open" /\ apps' = [apps EXCEPT ![a].st = "up", ![a].sock = f.sock]
           /\ UNCHANGED <<marks, hist>>
  <2> DEFINE q == [p EXCEPT !.st = "up", !.sock = f.sock]
  <2>1. apps' = [apps EXCEPT ![a] = q] /\ q.todo = {}
    BY <1>1, <1>6 DEF Process
  <2> HIDE DEF q
  <2> QED BY <1>2, <1>6, <2>1, HandsEmpty
<1>7. CASE f.op = "attached" /\ marks' = Pruned(f.sock)
           /\ apps' = [apps EXCEPT ![a] = [Ended(p, "up") EXCEPT !.sock = f.sock,
                                              !.catching = TRUE, !.maxRow = Len(log)]]
           /\ hist' = [hist EXCEPT !.forgot = @ \union Forgotten(f.sock)]
  <2> DEFINE q == [Ended(p, "up") EXCEPT !.sock = f.sock, !.catching = TRUE, !.maxRow = Len(log)]
  <2>1. q.todo = {}
    BY DEF Ended, NoApp
  <2>2. apps' = [apps EXCEPT ![a] = q]
    BY <1>7
  <2> HIDE DEF q
  <2> QED BY <1>2, <1>7, <2>1, <2>2, HandsEmpty
<1>8. CASE f.op = "line" /\ apps' = [apps EXCEPT ![a] = Delivering(p, f.seq)]
           /\ UNCHANGED <<marks, hist>>
  <2> DEFINE s     == f.seq
             q     == Delivering(p, s)
             rows  == RowsFor(p, s)
             known == IF InOpenBatch(s) THEN p.known \union {s} ELSE p.known \ (BatchStart[s] .. s)
  <2>1. q = IF rows = {} THEN [p EXCEPT !.known = known, !.ackSeq = s]
                         ELSE [p EXCEPT !.known = known, !.at = s, !.todo = rows]
    BY DEF Delivering
  <2>2. p.under # s
    BY <1>8, LineIsPast DEF IsLine
  <2>3. apps' = [apps EXCEPT ![a] = q]
    BY <1>8
  <2> HIDE DEF rows, known, q, s
  <2>4. q.todo = {} \/ q.under # q.at
    BY <1>1, <2>1, <2>2 DEF Process
  <2>5. ~Partly(q)
    BY <2>4 DEF Partly
  <2> QED BY <1>2, <1>8, <2>3, <2>5
<1>9. CASE f.op = "gap" /\ hist' = Note("told", f.sock, f.gap.first .. f.gap.last)
           /\ UNCHANGED <<apps, marks>>
  <2>1. apps' = [apps EXCEPT ![a] = p]
    BY <1>1, <1>9
  <2>2. \E n, S : hist' = Note("told", n, S) /\ marks' = marks
    BY <1>9
  <2>3. ~Partly(p)
    BY HandsEmpty
  <2> HIDE DEF p
  <2> QED BY <1>2, <2>1, <2>2, <2>3
<1>10. CASE f.op = "live" /\ apps' = [apps EXCEPT ![a].catching = FALSE, ![a].maxRow = 0]
            /\ UNCHANGED <<marks, hist>>
  <2> DEFINE q == [p EXCEPT !.catching = FALSE, !.maxRow = 0]
  <2>1. apps' = [apps EXCEPT ![a] = q] /\ q.todo = {}
    BY <1>1, <1>10 DEF Process
  <2> HIDE DEF q
  <2> QED BY <1>2, <1>10, <2>1, HandsEmpty
<1> QED BY <1>4, <1>5, <1>6, <1>7, <1>8, <1>9, <1>10 DEF OnFrame

LEMMA AppReadsMarks == ASSUME IInv, OrderInv, MarkInv, NEW a \in Apps, AppReads(a) PROVE MarkInv'
<1> DEFINE l == apps[a].link
           f == Head(links[l].toApp)
<1>1. l # 0 /\ links[l].toApp # <<>> /\ log' = log /\ apps[a].todo = {}
  BY DEF AppReads
<1>2. apps \in [Apps -> Process] /\ apps[a] \in Process
  BY AppIs
<1>3. \/ apps' = [apps EXCEPT ![a].st = "asking"] /\ UNCHANGED <<marks, hist>>
      \/ UNCHANGED <<apps, marks, hist>>
      \/ OnFrame(a, f)
  BY DEF AppReads
<1>4. CASE apps' = [apps EXCEPT ![a].st = "asking"] /\ UNCHANGED <<marks, hist>>
  <2> DEFINE q == [apps[a] EXCEPT !.st = "asking"]
  <2>1. apps' = [apps EXCEPT ![a] = q] /\ q.todo = {}
    BY <1>1, <1>2, <1>4 DEF Process
  <2> HIDE DEF q
  <2>2. ~Partly(q)
    BY <2>1, HandsEmpty
  <2> QED BY <1>1, <1>4, <2>1, <2>2, OneCarries
<1>5. CASE UNCHANGED <<apps, marks, hist>>
  BY <1>1, <1>5, EngineMarks
<1>6. CASE OnFrame(a, f)
  BY <1>1, <1>6, OnFrameMarks
<1> QED BY <1>3, <1>4, <1>5, <1>6

\* db/engineMarks storeUnderMark: a row of a line that is past the mark, or the
\* next of a line this process has in part stored; nobody stored either.
LEMMA StoreRowMarks == ASSUME IInv, MarkInv, NEW a \in Apps, StoreRow(a) PROVE MarkInv'
<1> DEFINE p     == apps[a]
           row   == [sock |-> p.sock, seq |-> p.at, part |-> Min(p.todo)]
           store == ~AlreadyPersisted(p, row) /\ ~RefusedByMark(p)
           last  == p.todo = {Min(p.todo)}
           q     == [p EXCEPT !.todo = @ \ {Min(@)}, !.under = IF store THEN p.at ELSE @,
                              !.at = IF last THEN 0 ELSE @, !.ackSeq = IF last THEN p.at ELSE @]
           k     == Min(p.todo)
           n     == p.sock
           s     == p.at
<1>1. /\ p \in Process /\ Sane(p) /\ apps \in [Apps -> Process] /\ log \in Seq(Row)
      /\ marks \in [Socks -> {0} \union Seqs] /\ Len(log) \in Nat
  BY AppIs
<1>2. p.todo # {} /\ hist' = hist
      /\ log' = (IF store THEN Append(log, row) ELSE log)
      /\ marks' = (IF store /\ marks[p.sock] < p.at THEN [marks EXCEPT ![p.sock] = p.at] ELSE marks)
  BY DEF StoreRow
<1>3. apps' = [apps EXCEPT ![a] = q]
  BY <1>1 DEF StoreRow
<1>4. n \in Socks /\ s \in Seqs /\ s \in Nat /\ k \in p.todo /\ k \in Nat
  <2>1. p.sock \in Socks /\ p.at \in Seqs /\ p.todo \in SUBSET Nat
    BY <1>1, <1>2 DEF Sane, Process
  <2> QED BY <1>2, <2>1, MinIs, OrNone
<1>5. \A m \in Socks : marks[m] \in Nat
  BY <1>1, OrNone
<1>6. ~store => ~store /\ (p.under = p.at \/ p.under # p.at)
  OBVIOUS
<1>7. store => (Partly(p) \/ marks[n] < s)
  BY <1>2, <1>4, <1>5 DEF RefusedByMark, Partly
<1>8. row = [sock |-> n, seq |-> s, part |-> k] /\ row.sock = n /\ row.seq = s /\ row.part = k /\ row \in Row
  BY <1>4 DEF Row
<1>9. q.sock = n /\ q.todo = p.todo \ {k} /\ q.under = (IF store THEN s ELSE p.under)
      /\ q.at = (IF last THEN 0 ELSE s) /\ (last => q.todo = {})
  <2> HIDE DEF store
  <2> QED BY <1>1 DEF Process
<1> HIDE DEF store, row, q
<1>10. Partly(q) => q.at = s /\ (store \/ Partly(p))
  BY <1>2, <1>9 DEF Partly
<1> HIDE DEF last, k, n, s, p
<1>11. ASSUME ~store PROVE MarkInv'
  <2>1. Partly(q) => Partly(apps[a]) /\ q.sock = apps[a].sock /\ q.at = apps[a].at
                     /\ q.todo \subseteq apps[a].todo
    BY <1>9, <1>10, <1>11 DEF p, n, s
  <2>2. log' = log /\ marks' = marks /\ hist' = hist
    BY <1>2, <1>11
  <2>3. apps'[a] = q /\ \A b \in Apps : b # a => apps'[b] = apps[b]
    BY <1>1, <1>3
  <2>4. \A b \in Apps : Partly(apps'[b]) => Partly(apps[b]) /\ apps'[b].sock = apps[b].sock
                        /\ apps'[b].at = apps[b].at /\ apps'[b].todo \subseteq apps[b].todo
    BY <2>1, <2>3
  <2>5. ASSUME NEW b \in Apps, Partly(apps'[b]), Stands(apps'[b].sock)
        PROVE  /\ apps'[b].at <= marks'[apps'[b].sock]
               /\ \A i \in DOMAIN log' :
                     log'[i].sock = apps'[b].sock /\ log'[i].seq = apps'[b].at
                         => log'[i].part \notin apps'[b].todo
    <3>1. /\ apps[b].at <= marks[apps[b].sock]
          /\ \A i \in DOMAIN log :
                log[i].sock = apps[b].sock /\ log[i].seq = apps[b].at => log[i].part \notin apps[b].todo
      BY <2>4, <2>5 DEF MarkInv
    <3> QED BY <2>2, <2>4, <2>5, <3>1
  <2>6. ASSUME NEW b \in Apps, NEW c \in Apps, b # c, Partly(apps'[b]), Partly(apps'[c]),
               apps'[b].sock = apps'[c].sock, Stands(apps'[b].sock)
        PROVE  apps'[b].at # apps'[c].at
    <3>1. /\ Partly(apps[b]) /\ Partly(apps[c]) /\ apps[b].sock = apps[c].sock /\ Stands(apps[b].sock)
          /\ apps'[b].at = apps[b].at /\ apps'[c].at = apps[c].at
      BY <2>4, <2>6
    <3> QED BY <2>6, <3>1 DEF MarkInv
  <2>7. SecondCopyNeedsPrune'
    BY <2>2 DEF MarkInv, SecondCopyNeedsPrune
  <2>8. \A i \in DOMAIN log' : Stands(log'[i].sock) => log'[i].seq <= marks'[log'[i].sock]
    BY <2>2 DEF MarkInv
  <2> QED BY <2>2, <2>5, <2>6, <2>7, <2>8 DEF MarkInv, Stands, Partly
<1>12. ASSUME store PROVE MarkInv'
  <2> DEFINE e == Len(log)
  <2>1. /\ DOMAIN log = 1 .. e /\ DOMAIN log' = 1 .. e + 1
        /\ (\A i \in 1 .. e : log'[i] = log[i]) /\ log'[e + 1] = row /\ e \in Nat
    <3>1. log' = Append(log, row)
      BY <1>2, <1>12
    <3> QED BY <1>1, <1>8, <3>1, AppendProperties, LenProperties
  <2>2. \A i \in 1 .. e : log[i].sock \in Socks /\ log[i].seq \in Nat
    <3> SUFFICES ASSUME NEW i \in 1 .. e PROVE log[i].sock \in Socks /\ log[i].seq \in Nat
      OBVIOUS
    <3>1. log[i] \in Row
      BY <1>1, <2>1, ElementOfSeq
    <3>2. log[i].sock \in Socks /\ log[i].seq \in Seqs
      BY <3>1 DEF Row
    <3> QED BY <3>2, Bounds
  <2>3. /\ \A m \in Socks : marks'[m] \in Nat /\ marks[m] <= marks'[m]
        /\ s <= marks'[n]
    <3>1. CASE marks[n] < s
      <4>1. marks' = [marks EXCEPT ![n] = s]
        BY <1>2, <1>12, <3>1 DEF n, s
      <4> QED BY <1>1, <1>4, <1>5, <3>1, <4>1
    <3>2. CASE ~(marks[n] < s)
      <4>1. marks' = marks
        BY <1>2, <1>12, <3>2 DEF n, s
      <4> QED BY <1>4, <1>5, <3>2, <4>1
    <3> QED BY <3>1, <3>2
  <2> HIDE DEF e
  <2>4. apps'[a] = q /\ \A b \in Apps : b # a => apps'[b] = apps[b]
    BY <1>1, <1>3
  <2>5. hist' = hist /\ (Partly(q) => q.at = s)
    BY <1>2, <1>10
  \* Nobody stored this row, and nobody else has the line in part stored.
  <2>6. ASSUME Stands(n), NEW i \in 1 .. e, log[i].sock = n, log[i].seq = s PROVE log[i].part \notin p.todo
    <3>1. log[i].seq <= marks[n]
      BY <2>1, <2>6 DEF MarkInv
    <3>2. Partly(p)
      BY <1>4, <1>5, <1>7, <1>12, <2>6, <3>1
    <3> QED BY <2>1, <2>6, <3>2 DEF MarkInv, p, n, s
  <2>7. ASSUME Stands(n), NEW b \in Apps, b # a, Partly(apps[b]), apps[b].sock = n PROVE apps[b].at # s
    <3>1. CASE Partly(p)
      BY <2>7, <3>1 DEF MarkInv, p, n, s
    <3>2. CASE ~Partly(p)
      <4>1. apps[b].at <= marks[n]
        BY <2>7 DEF MarkInv
      <4> QED BY <1>4, <1>5, <1>7, <1>12, <3>2, <4>1
    <3> QED BY <3>1, <3>2
  <2>8. ASSUME NEW i \in DOMAIN log', Stands(log'[i].sock) PROVE log'[i].seq <= marks'[log'[i].sock]
    <3>1. CASE i = e + 1
      BY <1>8, <2>1, <2>3, <3>1
    <3>2. CASE i # e + 1
      <4>1. i \in 1 .. e /\ log'[i] = log[i]
        BY <2>1, <3>2
      <4>2. log[i].seq <= marks[log[i].sock]
        BY <2>1, <2>8, <4>1 DEF MarkInv
      <4>3. log[i].sock \in Socks /\ log[i].seq \in Nat
        BY <2>2, <4>1
      <4>4. marks[log[i].sock] \in Nat /\ marks'[log[i].sock] \in Nat
            /\ marks[log[i].sock] <= marks'[log[i].sock]
        BY <1>5, <2>3, <4>3
      <4> QED BY <4>1, <4>2, <4>3, <4>4
    <3> QED BY <3>1, <3>2
  <2>9. ASSUME NEW b \in Apps, Partly(apps'[b]), Stands(apps'[b].sock)
        PROVE  /\ apps'[b].at <= marks'[apps'[b].sock]
               /\ \A i \in DOMAIN log' :
                     log'[i].sock = apps'[b].sock /\ log'[i].seq = apps'[b].at
                         => log'[i].part \notin apps'[b].todo
    <3>1. CASE b = a
      <4>1. apps'[b] = q /\ q.at = s /\ q.sock = n /\ q.todo = p.todo \ {k}
        BY <1>9, <2>4, <2>5, <2>9, <3>1
      <4>2. ASSUME NEW i \in DOMAIN log', log'[i].sock = n, log'[i].seq = s
            PROVE  log'[i].part \notin q.todo
        <5>1. CASE i = e + 1
          BY <1>8, <2>1, <4>1, <5>1
        <5>2. CASE i # e + 1
          <6>1. i \in 1 .. e /\ log'[i] = log[i]
            BY <2>1, <5>2
          <6> QED BY <2>6, <2>9, <4>1, <4>2, <6>1
        <5> QED BY <5>1, <5>2
      <4> QED BY <2>3, <4>1, <4>2
    <3>2. CASE b # a
      <4>1. apps'[b] = apps[b]
        BY <2>4, <3>2
      <4>2. /\ apps[b].at <= marks[apps[b].sock]
            /\ \A i \in DOMAIN log :
                  log[i].sock = apps[b].sock /\ log[i].seq = apps[b].at => log[i].part \notin apps[b].todo
        BY <2>9, <4>1 DEF MarkInv
      <4>3. apps[b].sock \in Socks /\ apps[b].at \in Nat
        <5>1. apps[b] \in Process /\ Sane(apps[b])
          BY AppIs
        <5>2. apps[b].sock \in Socks /\ apps[b].at \in Seqs
          BY <2>9, <4>1, <5>1 DEF Partly, Sane, Process
        <5> QED BY <5>2, Bounds
      <4>4. apps[b].at <= marks'[apps[b].sock]
        <5>1. marks[apps[b].sock] \in Nat /\ marks'[apps[b].sock] \in Nat
              /\ marks[apps[b].sock] <= marks'[apps[b].sock]
          BY <1>5, <2>3, <4>3
        <5> QED BY <4>2, <4>3, <5>1
      <4>5. ASSUME NEW i \in DOMAIN log', log'[i].sock = apps[b].sock, log'[i].seq = apps[b].at
            PROVE  log'[i].part \notin apps[b].todo
        <5>1. CASE i = e + 1
          <6>1. apps[b].sock = n /\ apps[b].at = s
            BY <1>8, <2>1, <4>5, <5>1
          <6> QED BY <2>7, <2>9, <3>2, <4>1, <6>1
        <5>2. CASE i # e + 1
          <6>1. i \in 1 .. e /\ log'[i] = log[i]
            BY <2>1, <5>2
          <6> QED BY <2>1, <4>2, <4>5, <6>1
        <5> QED BY <5>1, <5>2
      <4> QED BY <4>1, <4>4, <4>5
    <3> QED BY <3>1, <3>2
  <2>10. ASSUME NEW b \in Apps, NEW c \in Apps, b # c, Partly(apps'[b]), Partly(apps'[c]),
                apps'[b].sock = apps'[c].sock, Stands(apps'[b].sock)
         PROVE  apps'[b].at # apps'[c].at
    <3>1. CASE b = a
      <4>1. apps'[b].at = s /\ apps'[b].sock = n /\ apps'[c] = apps[c]
        BY <1>9, <2>4, <2>5, <2>10, <3>1
      <4> QED BY <2>7, <2>10, <3>1, <4>1
    <3>2. CASE c = a
      <4>1. apps'[c].at = s /\ apps'[c].sock = n /\ apps'[b] = apps[b]
        BY <1>9, <2>4, <2>5, <2>10, <3>2
      <4> QED BY <2>7, <2>10, <3>2, <4>1
    <3>3. CASE b # a /\ c # a
      <4>1. apps'[b] = apps[b] /\ apps'[c] = apps[c]
        BY <2>4, <3>3
      <4> QED BY <2>10, <4>1 DEF MarkInv
    <3> QED BY <3>1, <3>2, <3>3
  <2>11. ASSUME NEW i \in DOMAIN log', NEW j \in DOMAIN log', i < j, log'[i] = log'[j]
         PROVE  log'[i].sock \in hist'.forgot
    <3>1. CASE j = e + 1
      <4>1. i \in 1 .. e /\ log'[i] = log[i] /\ log[i] = row
        BY <2>1, <2>11, <3>1
      <4>2. log[i].sock = n /\ log[i].seq = s /\ log[i].part = k
        BY <1>8, <4>1
      <4>3. ~Stands(n)
        BY <1>4, <2>6, <4>1, <4>2
      <4> QED BY <2>5, <4>1, <4>2, <4>3 DEF Stands
    <3>2. CASE j # e + 1
      <4>1. i \in 1 .. e /\ j \in 1 .. e /\ log'[i] = log[i] /\ log'[j] = log[j]
        BY <2>1, <2>11, <3>2
      <4>2. SecondCopyNeedsPrune
        BY DEF MarkInv
      <4> QED BY <2>1, <2>5, <2>11, <4>1, <4>2 DEF SecondCopyNeedsPrune
    <3> QED BY <3>1, <3>2
  <2>12. SecondCopyNeedsPrune'
    BY <2>11 DEF SecondCopyNeedsPrune
  <2> QED BY <2>5, <2>8, <2>9, <2>10, <2>12 DEF MarkInv, Stands, Partly
<1> QED BY <1>11, <1>12

LEMMA InitMarks == Init => MarkInv
<1> SUFFICES ASSUME Init PROVE MarkInv
  OBVIOUS
<1>1. log = <<>> /\ apps = [a \in Apps |-> NoApp]
  BY DEF Init
<1>2. DOMAIN log = {}
  BY <1>1
<1>3. \A a \in Apps : ~Partly(apps[a])
  BY <1>1 DEF NoApp, Partly
<1> QED BY <1>2, <1>3 DEF MarkInv, SecondCopyNeedsPrune

LEMMA StepMarks == IInv /\ OrderInv /\ MarkInv /\ [Next]_vars => MarkInv'
<1> SUFFICES ASSUME IInv, OrderInv, MarkInv, [Next]_vars PROVE MarkInv'
  OBVIOUS
<1>1. CASE EngineStep
  BY <1>1, EngineStepMarks
<1>2. ASSUME NEW l \in Links, LinkStep(l) PROVE MarkInv'
  BY <1>2, LinkStepMarks
<1>3. ASSUME NEW a \in Apps, AppStep(a) PROVE MarkInv'
  BY <1>3, RestMarks, AppReadsMarks, StoreRowMarks DEF AppStep
<1>4. CASE UNCHANGED vars
  <2>1. UNCHANGED <<apps, marks, log>> /\ hist' = hist
    BY <1>4 DEF vars
  <2> QED BY <2>1, EngineMarks
<1> QED BY <1>1, <1>2, <1>3, <1>4 DEF Next

\* What a process is brought between two attaches comes in order, each line
\* past those it has behind it: "Seqs are contiguous" (engine/lineBuffer.ts),
\* and no flush sends what another has sent (EngineUpstream.flush).
THEOREM LinesRise == Spec => []OrderInv
<1>1. Init => IInv /\ OrderInv
  BY InitIInv, InitOrder
<1>2. (IInv /\ OrderInv) /\ [Next]_vars => (IInv /\ OrderInv)'
  BY StepKeeps, StepOrder
<1> QED BY <1>1, <1>2, PTL DEF Spec

\* Of the processes that are delivered a line only one stores each of its rows,
\* as long as nobody pruned the mark: "whichever process gets there second
\* stores nothing" (db/engineMarks.ts:25-29).
THEOREM RowsAreStoredOnce == Spec => []SecondCopyNeedsPrune
<1>1. Init => IInv /\ OrderInv /\ MarkInv
  BY InitIInv, InitOrder, InitMarks
<1>2. (IInv /\ OrderInv /\ MarkInv) /\ [Next]_vars => (IInv /\ OrderInv /\ MarkInv)'
  BY StepKeeps, StepOrder, StepMarks
<1>3. MarkInv => SecondCopyNeedsPrune
  BY DEF MarkInv
<1> QED BY <1>1, <1>2, <1>3, PTL DEF Spec

-----------------------------------------------------------------------------
(* What is delivered past `live'.                                          *)

\* Frames that begin a session, and those past which lines are live.
Anew(f)  == f.op \in {"dialing", "attached"}
Wakes(f) == f.op \in {"open", "live"}

\* A process not probing for rows; what it reads at position j of t is live.
Awake(p) == p.st = "up" /\ ~p.catching
Live(t, awake, j) == awake \/ \E i \in 1 .. j - 1 : Wakes(t[i])

InHand(p, n, q) == p.todo # {} /\ p.sock = n /\ p.at = q
Carries(t, n, q) == \E i \in DOMAIN t : IsLine(t[i]) /\ t[i].sock = n /\ t[i].seq = q

\* The lines of socket n that are stored, or on their way to it, leaving aside
\* those that are with link l or its process.
Known(rows, ap, ls, l, n) == {q \in Seqs :
    \/ \E i \in DOMAIN rows : rows[i].sock = n /\ rows[i].seq = q
    \/ \E a \in Apps : ap[a].link # l /\ InHand(ap[a], n, q)
    \/ \E m \in Links : m # l /\ Carries(ls[m].toApp, n, q)}

Under(K, s) == \A q \in K : q < s

\* Nothing at or past it was delivered to anyone, of the socket the engine has.
Edge(u) == IF u.liveAfter # 0 THEN u.liveAfter + 1 ELSE NextOwed(u)

\* A process is brought one session at a time, of one socket.
OneVoice(t, p) ==
    /\ \A i, j \in DOMAIN t : i < j /\ Starts(t[i]) => ~Anew(t[j])
    /\ p.st = "up" => \A i \in DOMAIN t : ~Anew(t[i])
    /\ \A i \in DOMAIN t : IsLine(t[i]) =>
          /\ p.st = "up" => t[i].sock = p.sock
          /\ \A j \in 1 .. i - 1 : Starts(t[j]) => t[j].sock = t[i].sock

\* The process of the sink: it is in the session of the engine's socket, and
\* whatever it reads live, or has in hand so, is past all of K.
SinkNew(K, t, p, u) ==
    /\ \A i \in DOMAIN t : Starts(t[i]) => t[i].sock = u.sock
    /\ p.st = "up" => p.sock = u.sock
    /\ \A i \in DOMAIN t : IsLine(t[i]) /\ Live(t, Awake(p), i) => Under(K, t[i].seq)
    /\ p.todo # {} /\ ~p.catching /\ p.under # p.at => Under(K, p.at)
    /\ u.liveAfter # 0 => ~Live(t, Awake(p), Len(t) + 1)

\* Of what K knows, none is of a line to come, or still owed live.
UpFresh(K, u) ==
    /\ u.st # "none" => Under(K, u.buf.next)
    /\ u.st # "open" => u.sent = 0 /\ u.liveAfter = 0
    /\ u.sink # 0 => Under(K, Edge(u)) /\ u.liveAfter < u.buf.next

\* No frame is of a socket past n.
Dialed(t, n) == \A i \in DOMAIN t : Starts(t[i]) \/ IsLine(t[i]) => t[i].sock <= n

FreshInv ==
    /\ \A i \in DOMAIN log : log[i].sock <= up.sock
    /\ \A a \in Apps : apps[a].sock <= up.sock
    /\ \A l \in Links : Dialed(links[l].toApp, up.sock)
    /\ \A l \in Links : links[l].appEnd => OneVoice(links[l].toApp, apps[links[l].owner])
    /\ UpFresh(Known(log, apps, links, 0, up.sock), up)
    /\ \A l \in Links : up.sink = l /\ links[l].appEnd =>
          SinkNew(Known(log, apps, links, l, up.sock), links[l].toApp,
                  apps[links[l].owner], up)

-----------------------------------------------------------------------------
(* What a flush sends live.                                                *)

\* The lines of w are of u's socket, and past liveAfter once `live' was said.
Awakens(w, u) ==
    /\ \A n \in DOMAIN w : IsLine(w[n]) => w[n].sock = u.sock
    /\ \A m, n \in DOMAIN w :
          m < n /\ Wakes(w[m]) /\ IsLine(w[n]) => u.liveAfter # 0 /\ u.liveAfter < w[n].seq

LEMMA AwakensJoin ==
    ASSUME NEW s \in Seq(ToApp), NEW t \in Seq(ToApp), NEW u, Awakens(s, u), Awakens(t, u),
           (\A n \in DOMAIN s : ~Wakes(s[n])) \/ (\A n \in DOMAIN t : ~IsLine(t[n]))
    PROVE  Awakens(s \o t, u)
<1> DEFINE r == s \o t
           a == Len(s)
           c == Len(t)
<1>1. /\ a \in Nat /\ c \in Nat /\ DOMAIN s = 1 .. a /\ DOMAIN t = 1 .. c
      /\ DOMAIN r = 1 .. a + c
      /\ \A i \in 1 .. a : r[i] = s[i]
      /\ \A i \in 1 .. a + c : i > a => i - a \in 1 .. c /\ r[i] = t[i - a]
  BY Joined
<1> HIDE DEF r, a, c
<1>2. ASSUME NEW n \in DOMAIN r, IsLine(r[n]) PROVE r[n].sock = u.sock
  <2>1. CASE n <= a
    <3>1. n \in DOMAIN s /\ r[n] = s[n]
      BY <1>1, <2>1
    <3> QED BY <1>2, <3>1 DEF Awakens
  <2>2. CASE n > a
    <3>1. n - a \in DOMAIN t /\ r[n] = t[n - a]
      BY <1>1, <2>2
    <3> QED BY <1>2, <3>1 DEF Awakens
  <2> QED BY <1>1, <2>1, <2>2
<1>3. ASSUME NEW m \in DOMAIN r, NEW n \in DOMAIN r, m < n, Wakes(r[m]), IsLine(r[n])
      PROVE  u.liveAfter # 0 /\ u.liveAfter < r[n].seq
  <2>1. CASE n <= a
    <3>1. n \in DOMAIN s /\ r[n] = s[n] /\ m \in DOMAIN s /\ r[m] = s[m]
      BY <1>1, <1>3, <2>1
    <3> QED BY <1>3, <3>1 DEF Awakens
  <2>2. CASE m <= a /\ n > a
    <3>1. n - a \in DOMAIN t /\ r[n] = t[n - a] /\ m \in DOMAIN s /\ r[m] = s[m]
      BY <1>1, <2>2
    <3> QED BY <1>3, <3>1
  <2>3. CASE m > a
    <3>1. /\ n - a \in DOMAIN t /\ r[n] = t[n - a] /\ m - a \in DOMAIN t /\ r[m] = t[m - a]
          /\ m - a < n - a
      BY <1>1, <1>3, <2>3
    <3> QED BY <1>3, <3>1 DEF Awakens
  <2> QED BY <1>1, <2>1, <2>2, <2>3
<1> QED BY <1>2, <1>3 DEF Awakens, r

\* A run of lines with `live' in it, or none.
LEMMA LiveSplit ==
    ASSUME NEW u, u.sock \in Socks, u.liveAfter \in Nat,
           NEW i \in Nat \ {0}, NEW j \in Nat, j <= MaxSeq
    PROVE  /\ Awakens(WithLive(u, i, j), u)
           /\ \A n \in DOMAIN WithLive(u, i, j) :
                 Wakes(WithLive(u, i, j)[n]) => u.liveAfter # 0 /\ u.liveAfter <= j
<1> DEFINE at == IF i > u.liveAfter THEN i ELSE u.liveAfter
           w  == WithLive(u, i, j)
<1>1. ASSUME NEW x \in Nat \ {0}, NEW y \in Nat, y <= MaxSeq
      PROVE  /\ LineFrames(u.sock, x, y) \in Seq(ToApp)
             /\ \A n \in DOMAIN LineFrames(u.sock, x, y) :
                   /\ ~Wakes(LineFrames(u.sock, x, y)[n])
                   /\ LineFrames(u.sock, x, y)[n].sock = u.sock
                   /\ x <= LineFrames(u.sock, x, y)[n].seq
  <2> DEFINE p == LineFrames(u.sock, x, y)
  <2>1. /\ p \in Seq(ToApp) /\ Len(p) = (IF x > y THEN 0 ELSE y - x + 1)
        /\ \A k \in 1 .. y - x + 1 : p[k] = Line(u.sock, x + k - 1)
    BY <1>1, LinesRun
  <2> HIDE DEF p
  <2>2. DOMAIN p = 1 .. y - x + 1
    BY <1>1, <2>1, LenProperties
  <2>3. \A n \in DOMAIN p : ~Wakes(p[n]) /\ p[n].sock = u.sock /\ x <= p[n].seq
    BY <2>1, <2>2 DEF Line, Wakes
  <2> QED BY <2>1, <2>3 DEF p
<1>2. CASE u.liveAfter = 0 \/ at > j
  <2>1. w = LineFrames(u.sock, i, j)
    BY <1>2 DEF WithLive
  <2> HIDE DEF w, at
  <2>2. \A n \in DOMAIN w : ~Wakes(w[n]) /\ w[n].sock = u.sock
    BY <1>1, <2>1
  <2> QED BY <2>2 DEF Awakens, w
<1>3. CASE ~(u.liveAfter = 0 \/ at > j)
  <2> DEFINE o == <<Op("live")>>
             p == LineFrames(u.sock, i, at)
             q == LineFrames(u.sock, at + 1, j)
  <2>1. at \in Nat /\ i <= at /\ at <= j /\ u.liveAfter <= at /\ u.liveAfter # 0
        /\ at + 1 \in Nat \ {0} /\ at <= MaxSeq
    BY <1>3, Bounds
  <2>2. w = (p \o o) \o q
    BY <1>3 DEF WithLive
  <2> HIDE DEF w, at
  <2>3. p \in Seq(ToApp) /\ \A n \in DOMAIN p : ~Wakes(p[n]) /\ p[n].sock = u.sock
    BY <1>1, <2>1
  <2>4. q \in Seq(ToApp) /\ \A n \in DOMAIN q : ~Wakes(q[n]) /\ q[n].sock = u.sock
                                                 /\ at + 1 <= q[n].seq
    BY <1>1, <2>1
  <2>5. o \in Seq(ToApp) /\ \A n \in DOMAIN o : ~IsLine(o[n])
    BY BareIs DEF Bare, Op, IsLine
  <2> HIDE DEF o, p, q
  <2>6. Awakens(p, u) /\ Awakens(o, u)
    BY <2>3, <2>5 DEF Awakens
  <2> DEFINE r == p \o o
             a == Len(r)
             c == Len(q)
  <2>7. r \in Seq(ToApp) /\ Awakens(r, u)
    BY <2>3, <2>5, <2>6, Joined, AwakensJoin
  <2>w. w = r \o q
    BY <2>2
  <2> HIDE DEF r
  <2>8. /\ a \in Nat /\ c \in Nat /\ DOMAIN r = 1 .. a /\ DOMAIN q = 1 .. c
        /\ DOMAIN w = 1 .. a + c
        /\ \A k \in 1 .. a : w[k] = r[k]
        /\ \A k \in 1 .. a + c : k > a => k - a \in 1 .. c /\ w[k] = q[k - a]
    BY <2>4, <2>7, <2>w, Joined
  <2> HIDE DEF a, c
  <2>9. ASSUME NEW n \in DOMAIN w, n > a
        PROVE  ~Wakes(w[n]) /\ w[n].sock = u.sock /\ at + 1 <= w[n].seq
               /\ (IsLine(w[n]) => w[n].seq \in Nat)
    <3>1. n - a \in DOMAIN q /\ w[n] = q[n - a]
      BY <2>8, <2>9
    <3>2. q[n - a] \in ToApp
      BY <2>4, <3>1, ElementOfSeq, LenProperties
    <3> QED BY <2>4, <3>1, <3>2, LineSeq
  <2>10. ASSUME NEW n \in DOMAIN w, ~(n > a) PROVE n \in DOMAIN r /\ w[n] = r[n]
    BY <2>8, <2>10
  <2>11. ASSUME NEW n \in DOMAIN w, IsLine(w[n]) PROVE w[n].sock = u.sock
    BY <2>7, <2>9, <2>10, <2>11 DEF Awakens
  <2>12. ASSUME NEW m \in DOMAIN w, NEW n \in DOMAIN w, m < n, Wakes(w[m]), IsLine(w[n])
         PROVE  u.liveAfter # 0 /\ u.liveAfter < w[n].seq
    <3>1. CASE n > a
      BY <2>1, <2>9, <2>12, <3>1
    <3>2. CASE ~(n > a)
      <4>1. ~(m > a)
        BY <2>8, <2>12, <3>2
      <4> QED BY <2>7, <2>10, <2>12, <3>2, <4>1 DEF Awakens
    <3> QED BY <3>1, <3>2
  <2>13. u.liveAfter <= j
    BY <2>1
  <2> QED BY <2>1, <2>11, <2>12, <2>13 DEF Awakens, w
<1> QED BY <1>2, <1>3

\* What a flush of u, now v, brings: lines that nobody was delivered, past
\* liveAfter once they are live.
News(u, v, out) ==
    /\ v.liveAfter \in {0, u.liveAfter} /\ v.buf.next = u.buf.next /\ Edge(u) <= Edge(v)
    /\ \A n \in DOMAIN out : IsLine(out[n]) => NextOwed(u) <= out[n].seq /\ out[n].seq < Edge(v)
    /\ Awakens(out, u)
    /\ v.liveAfter # 0 => \A n \in DOMAIN out : ~Wakes(out[n])

LEMMA RunIsNews ==
    ASSUME NEW u, NEW x, UpSound(u), UpSound(x), x.buf.first = u.buf.first,
           x.buf.next = u.buf.next, NEW k \in Nat, NEW from, from = NextOwed(u),
           x.sent = IF from > k THEN u.sent ELSE k,
           NEW out, Runs(out, from, k), Awakens(out, u),
           \/ x.liveAfter = 0 /\ u.liveAfter < (IF from > k THEN from ELSE k + 1)
           \/ /\ x.liveAfter = u.liveAfter /\ u.liveAfter # 0 /\ k <= u.liveAfter
              /\ \A n \in DOMAIN out : ~Wakes(out[n])
    PROVE  News(u, x, out)
<1>1. /\ u.sent \in Nat /\ u.buf.first \in Nat \ {0} /\ u.liveAfter \in Nat
      /\ x.sent \in Nat /\ x.liveAfter \in Nat
  BY UpIs
<1>2. from \in Nat /\ from >= u.buf.first /\ from > u.sent
  BY <1>1 DEF NextOwed
<1>3. NextOwed(x) = IF from > k THEN from ELSE k + 1
  <2>1. CASE from > k
    BY <2>1 DEF NextOwed
  <2>2. CASE ~(from > k)
    BY <1>1, <1>2, <2>2 DEF NextOwed
  <2> QED BY <2>1, <2>2
<1>4. ASSUME NEW n \in DOMAIN out, IsLine(out[n])
      PROVE  out[n].seq \in Nat /\ from <= out[n].seq /\ out[n].seq <= k
  BY <1>2, <1>4 DEF Runs
<1>5. Edge(u) <= Edge(x) /\ \A n \in DOMAIN out : IsLine(out[n]) => out[n].seq < Edge(x)
  <2>1. CASE x.liveAfter = 0 /\ u.liveAfter < (IF from > k THEN from ELSE k + 1)
    <3>1. Edge(x) = IF from > k THEN from ELSE k + 1
      BY <1>3, <2>1 DEF Edge
    <3>2. Edge(u) = IF u.liveAfter # 0 THEN u.liveAfter + 1 ELSE from
      BY DEF Edge
    <3>3. Edge(u) <= Edge(x)
      BY <1>1, <1>2, <2>1, <3>1, <3>2
    <3> QED BY <1>2, <1>4, <3>1, <3>3
  <2>2. CASE x.liveAfter = u.liveAfter /\ u.liveAfter # 0 /\ k <= u.liveAfter
    <3>1. Edge(x) = u.liveAfter + 1 /\ Edge(u) = u.liveAfter + 1
      BY <2>2 DEF Edge
    <3> QED BY <1>1, <1>4, <2>2, <3>1
  <2> QED BY <2>1, <2>2
<1>6. x.liveAfter \in {0, u.liveAfter} /\ (x.liveAfter # 0 => \A n \in DOMAIN out : ~Wakes(out[n]))
  OBVIOUS
<1> QED BY <1>4, <1>5, <1>6 DEF News

\* EngineUpstream.flush
LEMMA FlushNews ==
    ASSUME NEW u, UpSound(u), u.st = "open", u.liveAfter < u.buf.next,
           NEW f \in FlushOutcomes(u)
    PROVE  News(u, f.u, f.out)
<1> DEFINE due  == u.buf.gap.last > u.sent
           hole == IF due THEN <<GapFrame(u.sock, u.buf.gap)>> ELSE <<>>
           v    == IF due THEN [u EXCEPT !.buf = GapTaken(u.buf)] ELSE u
           from == NextOwed(v)
           to   == LastSeq(v.buf)
           done == IF from > to THEN v ELSE AfterLines(v, to)
           tail == IF done.liveAfter # 0 THEN <<Op("live")>> ELSE <<>>
           w(k) == WithLive(v, from, k)
<1>u. /\ UpSound(u) /\ u.sock \in Socks /\ u.buf.gap \in Gap /\ u.liveAfter \in Nat
      /\ u.sent \in Nat /\ u.buf.first \in Nat \ {0} /\ u.buf.next \in Nat \ {0}
      /\ u.sent < u.buf.next /\ u.buf.next <= MaxSeq + 1 /\ MaxSeq \in Nat
      /\ u.buf.first <= u.buf.next
  BY UpIs, Bounds DEF UpSound, Held, LastSeq
<1>f. UpSound(f.u) /\ Flows(u, f.u, f.out)
  BY FlushFlows
<1>v. /\ v = [st |-> v.st, sock |-> v.sock, buf |-> v.buf, sink |-> v.sink,
              sent |-> v.sent, stalled |-> v.stalled, liveAfter |-> v.liveAfter]
      /\ v.sock = u.sock /\ v.sent = u.sent /\ v.liveAfter = u.liveAfter
      /\ v.buf.first = u.buf.first /\ v.buf.next = u.buf.next
  <2>1. u = [st |-> u.st, sock |-> u.sock, buf |-> u.buf, sink |-> u.sink,
             sent |-> u.sent, stalled |-> u.stalled, liveAfter |-> u.liveAfter]
        /\ u.buf = [first |-> u.buf.first, next |-> u.buf.next, gap |-> u.buf.gap]
    BY UpIs DEF Held, BufferType
  <2>2. GapTaken(u.buf).first = u.buf.first /\ GapTaken(u.buf).next = u.buf.next
    BY <2>1 DEF GapTaken
  <2> QED BY <2>1, <2>2
<1>n. from = NextOwed(u) /\ to = u.buf.next - 1 /\ from \in Nat \ {0} /\ to \in Nat /\ to <= MaxSeq
  <2>1. from = NextOwed(u) /\ to = u.buf.next - 1
    BY <1>v DEF NextOwed, LastSeq
  <2> HIDE DEF from, to
  <2> QED BY <1>u, <2>1 DEF NextOwed
<1>h. hole \in Seq(ToApp) /\ (\A n \in DOMAIN hole : ~Wakes(hole[n]) /\ ~IsLine(hole[n]))
      /\ (hole = <<>> \/ \E g \in ToApp : ~IsLine(g) /\ hole = <<g>>)
  <2>1. GapFrame(u.sock, u.buf.gap) \in ToApp /\ GapFrame(u.sock, u.buf.gap).op = "gap"
    BY <1>u DEF GapFrame, ToApp
  <2> QED BY <2>1 DEF Wakes, IsLine
<1>l. <<Op("live")>> \in Seq(ToApp) /\ Op("live") \in ToApp /\ ~IsLine(Op("live"))
      /\ \A n \in DOMAIN <<Op("live")>> : ~IsLine(<<Op("live")>>[n])
  BY BareIs DEF Bare, IsLine
<1>w. ASSUME NEW k \in Nat, k <= MaxSeq, NEW e \in {<<>>, <<Op("live")>>}, NEW out,
             out = (hole \o w(k)) \o e
      PROVE  /\ Runs(out, from, k) /\ Awakens(out, u)
             /\ e = <<>> /\ k < u.liveAfter => \A n \in DOMAIN out : ~Wakes(out[n])
  <2> DEFINE r == w(k)
             y == hole \o r
  <2>0. v.sock \in Socks /\ v.liveAfter \in Nat
    BY <1>u, <1>v
  <2>o. out = y \o e
    BY <1>w
  <2> HIDE DEF due, hole, v, from, to
  <2>1. r \in Seq(ToApp) /\ Runs(r, from, k)
    BY <1>n, <1>w, <2>0, LiveRuns
  <2>2. /\ Awakens(r, v)
        /\ \A n \in DOMAIN r : Wakes(r[n]) => v.liveAfter # 0 /\ v.liveAfter <= k
    BY <1>n, <1>w, <2>0, LiveSplit
  <2>3. Awakens(r, u)
    BY <1>v, <2>2 DEF Awakens
  <2>4. k < u.liveAfter => \A n \in DOMAIN r : ~Wakes(r[n])
    BY <1>u, <1>v, <1>w, <2>2
  <2> HIDE DEF r
  <2>5. Awakens(hole, u)
    BY <1>h DEF Awakens
  <2>6. y \in Seq(ToApp) /\ Runs(y, from, k) /\ Awakens(y, u)
    <3>1. y \in Seq(ToApp)
      BY <1>h, <2>1, Joined
    <3>2. Awakens(y, u)
      BY <1>h, <2>1, <2>3, <2>5, AwakensJoin
    <3>3. CASE hole = <<>>
      BY <2>1, <3>1, <3>2, <3>3, ConcatEmptySeq
    <3>4. CASE \E g \in ToApp : ~IsLine(g) /\ hole = <<g>>
      BY <1>n, <2>1, <3>1, <3>2, <3>4, RunsPadded
    <3> QED BY <1>h, <3>3, <3>4
  <2>7. k < u.liveAfter => \A n \in DOMAIN y : ~Wakes(y[n])
    <3> SUFFICES ASSUME k < u.liveAfter, NEW n \in DOMAIN y PROVE ~Wakes(y[n])
      OBVIOUS
    <3>1. /\ DOMAIN hole = 1 .. Len(hole) /\ DOMAIN r = 1 .. Len(r)
          /\ Len(hole) \in Nat /\ Len(r) \in Nat /\ DOMAIN y = 1 .. Len(hole) + Len(r)
          /\ \A i \in 1 .. Len(hole) : y[i] = hole[i]
          /\ \A i \in 1 .. Len(hole) + Len(r) :
                i > Len(hole) => i - Len(hole) \in 1 .. Len(r) /\ y[i] = r[i - Len(hole)]
      BY <1>h, <2>1, Joined
    <3> HIDE DEF y
    <3>2. CASE n > Len(hole)
      BY <2>4, <3>1, <3>2
    <3>3. CASE ~(n > Len(hole))
      BY <1>h, <3>1, <3>3
    <3> QED BY <3>2, <3>3
  <2> HIDE DEF y
  <2>8. CASE e = <<>>
    <3>1. out = y
      BY <2>6, <2>8, <2>o, ConcatEmptySeq
    <3> QED BY <2>6, <2>7, <3>1
  <2>9. CASE e = <<Op("live")>>
    <3>1. Awakens(e, u)
      BY <1>l, <2>9 DEF Awakens
    <3>2. Awakens(out, u)
      BY <1>l, <2>6, <2>9, <2>o, <3>1, AwakensJoin
    <3>3. Runs(out, from, k)
      BY <1>l, <1>n, <2>6, <2>9, <2>o, RunsPadded
    <3>4. e # <<>>
      BY <2>9
    <3> QED BY <3>2, <3>3, <3>4
  <2> QED BY <2>8, <2>9
<1>o. CASE u.sink = 0 \/ u.stalled
  <2>1. f.u = u /\ f.out = <<>>
    BY <1>o DEF FlushOutcomes
  <2>2. NextOwed(u) \in Nat /\ Edge(u) \in Nat
    BY <1>u DEF NextOwed, Edge
  <2>3. News(u, u, <<>>)
    BY <2>2 DEF News, Awakens
  <2> QED BY <2>1, <2>3
<1>r. CASE ~(u.sink = 0 \/ u.stalled)
  <2>1. \/ f = [u |-> [done EXCEPT !.liveAfter = 0], out |-> (hole \o w(to)) \o tail]
        \/ \E k \in from .. to : f = [u |-> [AfterLines(v, k) EXCEPT !.stalled = TRUE],
                                     out |-> hole \o w(k)]
        \/ due /\ f = [u |-> [v EXCEPT !.stalled = TRUE], out |-> hole]
    BY <1>r DEF FlushOutcomes
  <2>h. \A k : (hole \o w(k)) \o <<>> = hole \o w(k)
    OBVIOUS
  <2>2. CASE f = [u |-> [done EXCEPT !.liveAfter = 0], out |-> (hole \o w(to)) \o tail]
    <3> DEFINE x == [done EXCEPT !.liveAfter = 0]
               o == (hole \o w(to)) \o tail
    <3>1. f.u = x /\ f.out = o
      BY <2>2
    <3>2. tail \in {<<>>, <<Op("live")>>}
      OBVIOUS
    <3>3. Runs(o, from, to) /\ Awakens(o, u)
      <4> HIDE DEF tail, hole, v, from, to, w
      <4> QED BY <1>n, <1>w, <3>2
    <3>4. x.liveAfter = 0 /\ x.buf = v.buf /\ x.sent = IF from > to THEN u.sent ELSE to
      <4> HIDE DEF v, from, to
      <4>1. CASE from > to
        BY <1>v, <4>1
      <4>2. CASE ~(from > to)
        BY <1>v, <4>2 DEF AfterLines
      <4> QED BY <4>1, <4>2
    <3> HIDE DEF o, x
    <3>5. x.buf.first = u.buf.first /\ x.buf.next = u.buf.next
      BY <1>v, <3>4
    <3> HIDE DEF hole, tail, v, from, to, done, due, w
    <3>6. u.liveAfter < (IF from > to THEN from ELSE to + 1)
      BY <1>n, <1>u
    <3>7. UpSound(x)
      BY <1>f, <3>1
    <3>8. News(u, x, o)
      BY <1>n, <1>u, <3>3, <3>4, <3>5, <3>6, <3>7, RunIsNews
    <3> QED BY <3>1, <3>8
  <2>3. ASSUME NEW k \in from .. to,
               f = [u |-> [AfterLines(v, k) EXCEPT !.stalled = TRUE], out |-> hole \o w(k)]
        PROVE  News(u, f.u, f.out)
    <3> DEFINE x == [AfterLines(v, k) EXCEPT !.stalled = TRUE]
               o == (hole \o w(k)) \o <<>>
    <3>1. f.u = x /\ f.out = o
      BY <2>3, <2>h
    <3>k. k \in Nat /\ k <= MaxSeq /\ ~(from > k)
      <4> HIDE DEF from, to
      <4> QED BY <1>n, <1>u
    <3>3. Runs(o, from, k) /\ Awakens(o, u) /\ (k < u.liveAfter => \A n \in DOMAIN o : ~Wakes(o[n]))
      <4> HIDE DEF tail, hole, v, from, to, w
      <4> QED BY <1>w, <3>k
    <3>4. x.buf = v.buf /\ x.sent = k
          /\ x.liveAfter = IF u.liveAfter # 0 /\ u.liveAfter <= k THEN 0 ELSE u.liveAfter
      <4> HIDE DEF v, from, to
      <4> QED BY <1>v DEF AfterLines
    <3> HIDE DEF o, x
    <3>5. x.buf.first = u.buf.first /\ x.buf.next = u.buf.next
      BY <1>v, <3>4
    <3> HIDE DEF hole, tail, v, from, to, done, due, w
    <3>7. UpSound(x)
      BY <1>f, <3>1
    <3>8. CASE u.liveAfter <= k
      <4>1. x.liveAfter = 0 /\ u.liveAfter < (IF from > k THEN from ELSE k + 1)
        BY <1>u, <3>4, <3>8, <3>k
      <4> QED BY <1>n, <1>u, <3>1, <3>3, <3>4, <3>5, <3>7, <3>k, <4>1, RunIsNews
    <3>9. CASE ~(u.liveAfter <= k)
      <4>1. /\ x.liveAfter = u.liveAfter /\ u.liveAfter # 0 /\ k <= u.liveAfter
            /\ \A n \in DOMAIN o : ~Wakes(o[n])
        BY <1>u, <3>3, <3>4, <3>9, <3>k
      <4> QED BY <1>n, <1>u, <3>1, <3>3, <3>4, <3>5, <3>7, <3>k, <4>1, RunIsNews
    <3> QED BY <3>8, <3>9
  <2>4. CASE due /\ f = [u |-> [v EXCEPT !.stalled = TRUE], out |-> hole]
    <3> DEFINE x == [v EXCEPT !.stalled = TRUE]
    <3>1. f.u = x /\ f.out = hole
      BY <2>4
    <3> HIDE DEF hole, tail, v, from, to, done, due, w
    <3>2. x.buf = v.buf /\ x.sent = v.sent /\ x.liveAfter = v.liveAfter
      BY <1>v
    <3> HIDE DEF x
    <3>3. x.liveAfter = u.liveAfter /\ x.buf.next = u.buf.next /\ NextOwed(x) = NextOwed(u)
      BY <1>v, <3>2 DEF NextOwed
    <3>4. Edge(x) = Edge(u) /\ Edge(u) \in Nat
      BY <1>u, <3>3 DEF Edge, NextOwed
    <3>5. News(u, x, hole)
      BY <1>h, <3>3, <3>4 DEF News, Awakens
    <3> QED BY <3>1, <3>5
  <2> QED BY <2>1, <2>2, <2>3, <2>4
<1> QED BY <1>o, <1>r

-----------------------------------------------------------------------------
(* What a link's process is brought.                                       *)

\* A process that was told nothing: whatever may come is new to it.
LEMMA HeldIsNew ==
    ASSUME NEW t \in Seq(ToApp), OnlyHeld(t), NEW p, p.st # "up", p.todo = {}, NEW K, NEW u
    PROVE  OneVoice(t, p) /\ SinkNew(K, t, p, u)
<1>1. \A i \in DOMAIN t : ~Starts(t[i]) /\ ~IsLine(t[i]) /\ ~Wakes(t[i])
  BY DEF OnlyHeld, Starts, IsLine, Wakes
<1>2. DOMAIN t = 1 .. Len(t) /\ Len(t) \in Nat /\ 1 .. (Len(t) + 1) - 1 = 1 .. Len(t)
  BY LenProperties
<1>3. ~Live(t, Awake(p), Len(t) + 1)
  BY <1>1, <1>2 DEF Live, Awake
<1> QED BY <1>1, <1>3 DEF OneVoice, SinkNew

\* Frames other than lines: a session's beginning is of the engine's socket, and
\* comes to a process that was in none.
LEMMA StartGrows ==
    ASSUME NEW t \in Seq(ToApp), NEW out \in Seq(ToApp), NEW p, NEW K, NEW u, NEW v,
           OneVoice(t, p), SinkNew(K, t, p, u),
           \A n \in DOMAIN out : ~IsLine(out[n]),
           \A n \in DOMAIN out : Starts(out[n]) => out[n].sock = v.sock,
           \A n \in DOMAIN out : Anew(out[n]) =>
               p.st # "up" /\ n = 1 /\ \A i \in DOMAIN t : ~Starts(t[i]),
           v.sock = u.sock,
           v.liveAfter # 0 => u.liveAfter # 0 /\ \A n \in DOMAIN out : ~Wakes(out[n])
    PROVE  OneVoice(t \o out, p) /\ SinkNew(K, t \o out, p, v)
<1> DEFINE r == t \o out
           m == Len(t)
           e == Len(out)
<1>1. /\ m \in Nat /\ e \in Nat /\ DOMAIN t = 1 .. m /\ DOMAIN out = 1 .. e
      /\ DOMAIN r = 1 .. m + e /\ Len(r) = m + e
      /\ \A i \in 1 .. m : r[i] = t[i]
      /\ \A i \in 1 .. m + e : i > m => i - m \in 1 .. e /\ r[i] = out[i - m]
  BY Joined
<1>m. m = Len(t)
  OBVIOUS
<1> HIDE DEF r, m, e
<1>2. ASSUME NEW i \in DOMAIN r, i > m PROVE i - m \in DOMAIN out /\ r[i] = out[i - m]
  BY <1>1, <1>2
<1>3. ASSUME NEW i \in DOMAIN r, ~(i > m)
      PROVE  i \in DOMAIN t /\ r[i] = t[i] /\ \A j \in 1 .. i - 1 : j \in DOMAIN t /\ r[j] = t[j]
  BY <1>1, <1>3
<1>4. ASSUME NEW i \in DOMAIN r, NEW j \in DOMAIN r, i < j, Starts(r[i]) PROVE ~Anew(r[j])
  <2>1. CASE j > m
    <3>1. j - m \in DOMAIN out /\ r[j] = out[j - m]
      BY <1>2, <2>1
    <3>2. SUFFICES ASSUME Anew(r[j]) PROVE FALSE
      OBVIOUS
    <3>3. j - m = 1 /\ \A n \in DOMAIN t : ~Starts(t[n])
      BY <3>1, <3>2
    <3>4. ~(i > m)
      BY <1>1, <1>4, <3>3
    <3> QED BY <1>3, <1>4, <3>3, <3>4
  <2>2. CASE ~(j > m)
    <3>1. ~(i > m)
      BY <1>1, <1>4, <2>2
    <3> QED BY <1>3, <1>4, <2>2, <3>1 DEF OneVoice
  <2> QED BY <2>1, <2>2
<1>5. ASSUME p.st = "up", NEW i \in DOMAIN r PROVE ~Anew(r[i])
  BY <1>2, <1>3, <1>5 DEF OneVoice
<1>6. ASSUME NEW i \in DOMAIN r, IsLine(r[i])
      PROVE  i \in DOMAIN t /\ r[i] = t[i] /\ \A j \in 1 .. i - 1 : j \in DOMAIN t /\ r[j] = t[j]
  BY <1>2, <1>3, <1>6
<1>7. OneVoice(r, p)
  BY <1>4, <1>5, <1>6 DEF OneVoice
<1>8. \A i \in DOMAIN r : Starts(r[i]) => r[i].sock = v.sock
  BY <1>2, <1>3 DEF SinkNew
<1>9. ASSUME NEW i \in DOMAIN r, IsLine(r[i]), Live(r, Awake(p), i) PROVE Under(K, r[i].seq)
  BY <1>6, <1>9 DEF SinkNew, Live
<1>10. ASSUME v.liveAfter # 0 PROVE ~Live(r, Awake(p), Len(r) + 1)
  <2>1. ~Live(t, Awake(p), Len(t) + 1)
    BY <1>10 DEF SinkNew
  <2>2. ~Awake(p) /\ \A i \in DOMAIN t : ~Wakes(t[i])
    BY <1>1, <1>m, <2>1 DEF Live
  <2>3. \A i \in DOMAIN r : ~Wakes(r[i])
    BY <1>2, <1>3, <1>10, <2>2
  <2> QED BY <1>1, <2>2, <2>3 DEF Live
<1> QED BY <1>7, <1>8, <1>9, <1>10 DEF SinkNew, r

\* A flush.
LEMMA NewsGrows ==
    ASSUME NEW t \in Seq(ToApp), NEW out \in Seq(ToApp), NEW p, NEW K, NEW u, NEW v,
           UpSound(u), v.sock = u.sock, K \subseteq Nat, Under(K, Edge(u)),
           OneVoice(t, p), SinkNew(K, t, p, u), News(u, v, out),
           \A n \in DOMAIN out : out[n].op \in {"gap", "line", "live"}
    PROVE  OneVoice(t \o out, p) /\ SinkNew(K, t \o out, p, v)
<1> DEFINE r == t \o out
           m == Len(t)
           e == Len(out)
<1>1. /\ m \in Nat /\ e \in Nat /\ DOMAIN t = 1 .. m /\ DOMAIN out = 1 .. e
      /\ DOMAIN r = 1 .. m + e /\ Len(r) = m + e
      /\ \A i \in 1 .. m : r[i] = t[i]
      /\ \A i \in 1 .. m + e : i > m => i - m \in 1 .. e /\ r[i] = out[i - m]
  BY Joined
<1>m. m = Len(t)
  OBVIOUS
<1>l. \A n \in DOMAIN out : IsLine(out[n]) => out[n].seq \in Nat
  <2> SUFFICES ASSUME NEW n \in DOMAIN out, IsLine(out[n]) PROVE out[n].seq \in Nat
    OBVIOUS
  <2>1. out[n] \in ToApp
    BY ElementOfSeq
  <2> QED BY <2>1, LineSeq
<1>o. \A n \in DOMAIN out : ~Starts(out[n]) /\ ~Anew(out[n])
  BY DEF Starts, Anew
<1>u. u.liveAfter \in Nat /\ NextOwed(u) \in Nat
  BY UpIs DEF NextOwed
<1> HIDE DEF r, m, e
<1>2. ASSUME NEW i \in DOMAIN r, i > m PROVE i - m \in DOMAIN out /\ r[i] = out[i - m]
  BY <1>1, <1>2
<1>3. ASSUME NEW i \in DOMAIN r, ~(i > m)
      PROVE  i \in DOMAIN t /\ r[i] = t[i] /\ \A j \in 1 .. i - 1 : j \in DOMAIN t /\ r[j] = t[j]
  BY <1>1, <1>3
<1>4. ASSUME NEW i \in DOMAIN r, NEW j \in DOMAIN r, i < j, Starts(r[i]) PROVE ~Anew(r[j])
  <2>1. CASE j > m
    BY <1>2, <1>o, <2>1
  <2>2. CASE ~(j > m)
    <3>1. ~(i > m)
      BY <1>1, <1>4, <2>2
    <3> QED BY <1>3, <1>4, <2>2, <3>1 DEF OneVoice
  <2> QED BY <2>1, <2>2
<1>5. ASSUME p.st = "up", NEW i \in DOMAIN r PROVE ~Anew(r[i])
  BY <1>2, <1>3, <1>5, <1>o DEF OneVoice
<1>6. \A i \in DOMAIN r : Starts(r[i]) => i \in DOMAIN t /\ r[i] = t[i] /\ r[i].sock = u.sock
  BY <1>2, <1>3, <1>o DEF SinkNew
<1>7. ASSUME NEW i \in DOMAIN r, IsLine(r[i])
      PROVE  /\ p.st = "up" => r[i].sock = p.sock
             /\ \A j \in 1 .. i - 1 : Starts(r[j]) => r[j].sock = r[i].sock
  <2>1. CASE i > m
    <3>1. r[i].sock = u.sock
      BY <1>2, <1>7, <2>1 DEF News, Awakens
    <3>2. \A j \in 1 .. i - 1 : j \in DOMAIN r
      BY <1>1
    <3> QED BY <1>6, <3>1, <3>2 DEF SinkNew
  <2>2. CASE ~(i > m)
    BY <1>3, <1>7, <2>2 DEF OneVoice
  <2> QED BY <2>1, <2>2
<1>8. OneVoice(r, p)
  BY <1>4, <1>5, <1>7 DEF OneVoice
<1>9. ASSUME NEW i \in DOMAIN r, IsLine(r[i]), Live(r, Awake(p), i) PROVE Under(K, r[i].seq)
  <2>1. CASE i > m
    <3> DEFINE s == out[i - m].seq
    <3>1. i - m \in DOMAIN out /\ r[i] = out[i - m] /\ IsLine(out[i - m]) /\ s \in Nat
      BY <1>2, <1>9, <1>l, <2>1
    <3>2. NextOwed(u) <= s
      BY <3>1 DEF News
    <3>3. Edge(u) <= s
      <4>1. CASE u.liveAfter = 0
        BY <3>2, <4>1 DEF Edge
      <4>2. CASE u.liveAfter # 0
        <5>1. ~Awake(p) /\ \A j \in DOMAIN t : ~Wakes(t[j])
          BY <1>1, <1>m, <4>2 DEF SinkNew, Live
        <5>2. PICK j \in 1 .. i - 1 : Wakes(r[j])
          BY <1>9, <5>1 DEF Live
        <5>3. j \in DOMAIN r /\ j < i /\ j \in Nat /\ i \in Nat
          BY <1>1
        <5>4. j > m
          BY <1>3, <5>1, <5>2, <5>3
        <5>5. j - m \in DOMAIN out /\ r[j] = out[j - m] /\ j - m < i - m
          BY <1>1, <1>2, <5>3, <5>4
        <5>6. u.liveAfter < s
          BY <3>1, <5>2, <5>5 DEF News, Awakens
        <5> QED BY <1>u, <3>1, <4>2, <5>6 DEF Edge
      <4> QED BY <4>1, <4>2
    <3>4. Edge(u) \in Nat
      BY <1>u DEF Edge
    <3> QED BY <3>1, <3>3, <3>4 DEF Under
  <2>2. CASE ~(i > m)
    BY <1>3, <1>9, <2>2 DEF SinkNew, Live
  <2> QED BY <2>1, <2>2
<1>10. ASSUME v.liveAfter # 0 PROVE ~Live(r, Awake(p), Len(r) + 1)
  <2>1. u.liveAfter # 0 /\ \A n \in DOMAIN out : ~Wakes(out[n])
    BY <1>10 DEF News
  <2>2. ~Awake(p) /\ \A i \in DOMAIN t : ~Wakes(t[i])
    BY <1>1, <1>m, <2>1 DEF Live, SinkNew
  <2>3. \A i \in DOMAIN r : ~Wakes(r[i])
    BY <1>2, <1>3, <2>1, <2>2
  <2> QED BY <1>1, <2>2, <2>3 DEF Live
<1> QED BY <1>6, <1>8, <1>9, <1>10 DEF SinkNew, r

-----------------------------------------------------------------------------
(* Steps that bring nothing new.                                           *)

\* Frames that are neither lines nor change who hears them.
Still(f) == f.op \in {"held", "detached", "closed"}

\* But for such frames t2 is the beginning of t.
Keeps(t, t2) == \A j \in DOMAIN t2 : ~Still(t2[j]) => j \in DOMAIN t /\ \A n \in 1 .. j : t2[n] = t[n]

LEMMA KeepsEach ==
    ASSUME NEW t \in Seq(ToApp), NEW t2 \in Seq(ToApp), Keeps(t, t2), NEW j \in DOMAIN t2,
           ~Still(t2[j])
    PROVE  j \in DOMAIN t /\ t2[j] = t[j] /\ \A i \in 1 .. j - 1 : i \in DOMAIN t /\ t2[i] = t[i]
<1>1. j \in DOMAIN t /\ (\A n \in 1 .. j : t2[n] = t[n]) /\ DOMAIN t = 1 .. Len(t) /\ Len(t) \in Nat
  BY LenProperties DEF Keeps
<1> QED BY <1>1

LEMMA VoiceKeeps ==
    ASSUME NEW t \in Seq(ToApp), NEW t2 \in Seq(ToApp), Keeps(t, t2), NEW p, OneVoice(t, p)
    PROVE  OneVoice(t2, p)
<1>0. DOMAIN t2 \subseteq Nat
  BY LenProperties
<1>1. \A f : Starts(f) \/ Anew(f) \/ IsLine(f) => ~Still(f)
  BY DEF Starts, Anew, IsLine, Still
<1>2. ASSUME NEW i \in DOMAIN t2, NEW j \in DOMAIN t2, i < j, Starts(t2[i]) PROVE ~Anew(t2[j])
  <2> SUFFICES ASSUME Anew(t2[j]) PROVE FALSE
    OBVIOUS
  <2>1. i \in DOMAIN t /\ j \in DOMAIN t /\ t2[i] = t[i] /\ t2[j] = t[j]
    BY <1>1, <1>2, KeepsEach
  <2> QED BY <1>2, <2>1 DEF OneVoice
<1>3. ASSUME p.st = "up", NEW i \in DOMAIN t2 PROVE ~Anew(t2[i])
  BY <1>1, <1>3, KeepsEach DEF OneVoice
<1>4. ASSUME NEW i \in DOMAIN t2, IsLine(t2[i])
      PROVE  /\ p.st = "up" => t2[i].sock = p.sock
             /\ \A j \in 1 .. i - 1 : Starts(t2[j]) => t2[j].sock = t2[i].sock
  <2>1. i \in DOMAIN t /\ t2[i] = t[i] /\ \A j \in 1 .. i - 1 : t2[j] = t[j]
    BY <1>1, <1>4, KeepsEach
  <2> QED BY <1>4, <2>1 DEF OneVoice
<1> QED BY <1>2, <1>3, <1>4 DEF OneVoice

LEMMA UnderLess == ASSUME NEW K, NEW K2, K2 \subseteq K, NEW s, Under(K, s) PROVE Under(K2, s)
BY DEF Under

LEMMA NewKeeps ==
    ASSUME NEW t \in Seq(ToApp), NEW t2 \in Seq(ToApp), Keeps(t, t2), NEW p, NEW K, NEW K2,
           K2 \subseteq K, NEW u, NEW v, v.sock = u.sock, v.liveAfter # 0 => u.liveAfter # 0,
           SinkNew(K, t, p, u)
    PROVE  SinkNew(K2, t2, p, v)
<1>0. /\ DOMAIN t2 = 1 .. Len(t2) /\ DOMAIN t = 1 .. Len(t) /\ Len(t) \in Nat /\ Len(t2) \in Nat
  BY LenProperties
<1>1. \A f : Starts(f) \/ Wakes(f) \/ IsLine(f) => ~Still(f)
  BY DEF Starts, Wakes, IsLine, Still
<1>2. \A i \in DOMAIN t2 : Starts(t2[i]) => t2[i].sock = v.sock
  BY <1>1, KeepsEach DEF SinkNew
<1>3. ASSUME NEW i \in DOMAIN t2, IsLine(t2[i]), Live(t2, Awake(p), i) PROVE Under(K2, t2[i].seq)
  <2>1. i \in DOMAIN t /\ t2[i] = t[i] /\ \A j \in 1 .. i - 1 : t2[j] = t[j]
    BY <1>1, <1>3, KeepsEach
  <2>2. Live(t, Awake(p), i)
    BY <1>3, <2>1 DEF Live
  <2> QED BY <1>3, <2>1, <2>2, UnderLess DEF SinkNew
<1>4. ASSUME v.liveAfter # 0 PROVE ~Live(t2, Awake(p), Len(t2) + 1)
  <2>1. ~Awake(p) /\ \A i \in DOMAIN t : ~Wakes(t[i])
    BY <1>0, <1>4 DEF Live, SinkNew
  <2>2. \A i \in DOMAIN t2 : ~Wakes(t2[i])
    BY <1>1, <2>1, KeepsEach
  <2> QED BY <1>0, <2>1, <2>2 DEF Live
<1>5. p.todo # {} /\ ~p.catching /\ p.under # p.at => Under(K2, p.at)
  BY UnderLess DEF SinkNew
<1>6. p.st = "up" => p.sock = v.sock
  BY DEF SinkNew
<1> QED BY <1>2, <1>3, <1>4, <1>5, <1>6 DEF SinkNew

LEMMA CarriedKept ==
    ASSUME NEW t \in Seq(ToApp), NEW t2 \in Seq(ToApp), Keeps(t, t2)
    PROVE  /\ \A n, q : Carries(t2, n, q) => Carries(t, n, q)
           /\ \A n \in Nat : Dialed(t, n) => Dialed(t2, n)
<1>1. \A f : Starts(f) \/ IsLine(f) => ~Still(f)
  BY DEF Starts, IsLine, Still
<1>2. \A j \in DOMAIN t2 : Starts(t2[j]) \/ IsLine(t2[j]) => j \in DOMAIN t /\ t2[j] = t[j]
  BY <1>1, KeepsEach
<1> QED BY <1>2 DEF Carries, Dialed

\* A link on which nothing but such frames are written.
Calm(k, k2) == k2.owner = k.owner /\ k2.appEnd = k.appEnd /\ Keeps(k.toApp, k2.toApp)

LEMMA CalmSelf == ASSUME NEW k \in Link PROVE Calm(k, k)
BY DEF Calm, Keeps

LEMMA CalmTwice ==
    ASSUME NEW k \in Link, NEW k2 \in Link, NEW k3 \in Link, Calm(k, k2), Calm(k2, k3)
    PROVE  Calm(k, k3)
<1>1. k2.toApp \in Seq(ToApp) /\ k3.toApp \in Seq(ToApp)
  BY LinkIs
<1>2. DOMAIN k2.toApp \subseteq Nat /\ DOMAIN k3.toApp \subseteq Nat
  BY <1>1, LenProperties
<1>3. ASSUME NEW j \in DOMAIN k3.toApp, ~Still(k3.toApp[j])
      PROVE  j \in DOMAIN k.toApp /\ \A n \in 1 .. j : k3.toApp[n] = k.toApp[n]
  <2>1. j \in DOMAIN k2.toApp /\ (\A n \in 1 .. j : k3.toApp[n] = k2.toApp[n]) /\ j \in 1 .. j
    <3>1. j \in DOMAIN k2.toApp /\ \A n \in 1 .. j : k3.toApp[n] = k2.toApp[n]
      BY <1>3 DEF Calm, Keeps
    <3>2. j \in Nat \ {0}
      BY <1>1, LenProperties
    <3> QED BY <3>1, <3>2
  <2>2. ~Still(k2.toApp[j])
    BY <1>3, <2>1
  <2> QED BY <2>1, <2>2 DEF Calm, Keeps
<1> QED BY <1>3 DEF Calm, Keeps

LEMMA CalmSays ==
    ASSUME NEW k \in Link, NEW k2 \in Link, NEW out \in Seq(ToApp),
           \A i \in DOMAIN out : Still(out[i]), Wrote(k, k2, k.toApp \o out, k.toEng)
    PROVE  Calm(k, k2)
<1> DEFINE t == k.toApp
           r == t \o out
<1>1. /\ DOMAIN t = 1 .. Len(t) /\ DOMAIN r = 1 .. Len(t) + Len(out) /\ Len(t) \in Nat
      /\ Len(out) \in Nat /\ DOMAIN out = 1 .. Len(out)
      /\ \A i \in 1 .. Len(t) : r[i] = t[i]
      /\ \A i \in 1 .. Len(t) + Len(out) :
            i > Len(t) => i - Len(t) \in 1 .. Len(out) /\ r[i] = out[i - Len(t)]
  BY LinkIs, Joined
<1>2. k2.toApp = r /\ k2.owner = k.owner /\ k2.appEnd = k.appEnd
  BY DEF Wrote
<1> HIDE DEF r, t
<1>3. ASSUME NEW j \in DOMAIN r, ~Still(r[j]) PROVE j \in DOMAIN t /\ \A n \in 1 .. j : r[n] = t[n]
  <2>1. ~(j > Len(t))
    BY <1>1, <1>3
  <2> QED BY <1>1, <2>1
<1> QED BY <1>2, <1>3 DEF Calm, Keeps, t

LEMMA DeliverCalm ==
    ASSUME NEW ls \in [Links -> Link], NEW l \in {0} \union Links, NEW out \in Seq(ToApp),
           \A i \in DOMAIN out : Still(out[i])
    PROVE  /\ Deliver(ls, l, out) \in [Links -> Link]
           /\ \A m \in Links : Calm(ls[m], Deliver(ls, l, out)[m])
<1> DEFINE d == Deliver(ls, l, out)
<1>1. /\ d \in [Links -> Link]
      /\ \A m \in Links : m # l \/ ~ls[m].appEnd \/ ~ls[m].engEnd => d[m] = ls[m]
      /\ \A m \in Links : m = l /\ ls[m].appEnd /\ ls[m].engEnd =>
            Wrote(ls[m], d[m], ls[m].toApp \o out, ls[m].toEng)
  BY Delivers
<1> HIDE DEF d
<1>2. ASSUME NEW m \in Links PROVE Calm(ls[m], d[m])
  <2>1. ls[m] \in Link /\ d[m] \in Link
    BY <1>1
  <2>2. CASE m = l /\ ls[m].appEnd /\ ls[m].engEnd
    BY <1>1, <2>1, <2>2, CalmSays
  <2>3. CASE ~(m = l /\ ls[m].appEnd /\ ls[m].engEnd)
    BY <1>1, <2>1, <2>3, CalmSelf
  <2> QED BY <2>2, <2>3
<1> QED BY <1>1, <1>2 DEF d

LEMMA OfferCalm ==
    ASSUME NEW ls \in [Links -> Link]
    PROVE  Offered(ls) \in [Links -> Link] /\ \A m \in Links : Calm(ls[m], Offered(ls)[m])
<1> DEFINE d == Offered(ls)
           out == <<Op("held")>>
<1>1. /\ d \in [Links -> Link]
      /\ \A m \in Links : ~ls[m].appEnd \/ ~ls[m].engEnd => d[m] = ls[m]
      /\ \A m \in Links : ls[m].appEnd /\ ls[m].engEnd =>
            Wrote(ls[m], d[m], ls[m].toApp \o out, ls[m].toEng)
  BY Offers
<1>2. out \in Seq(ToApp) /\ \A i \in DOMAIN out : Still(out[i])
  BY BareIs DEF Bare, Still
<1> HIDE DEF d, out
<1>3. ASSUME NEW m \in Links PROVE Calm(ls[m], d[m])
  <2>1. ls[m] \in Link /\ d[m] \in Link
    BY <1>1
  <2>2. CASE ls[m].appEnd /\ ls[m].engEnd
    BY <1>1, <1>2, <2>1, <2>2, CalmSays
  <2>3. CASE ~(ls[m].appEnd /\ ls[m].engEnd)
    BY <1>1, <2>1, <2>3, CalmSelf
  <2> QED BY <2>2, <2>3
<1> QED BY <1>1, <1>3 DEF d

\* A frame of those after whatever came first.
LEMMA ThenCalm ==
    ASSUME IInv, NEW ls \in [Links -> Link], \A m \in Links : Calm(links[m], ls[m]),
           NEW l \in {0} \union Links, NEW o \in {"held", "detached", "closed"}
    PROVE  /\ Deliver(ls, l, <<Op(o)>>) \in [Links -> Link]
           /\ \A m \in Links : Calm(links[m], Deliver(ls, l, <<Op(o)>>)[m])
<1> DEFINE out == <<Op(o)>>
           d == Deliver(ls, l, out)
<1>1. out \in Seq(ToApp) /\ \A i \in DOMAIN out : Still(out[i])
  BY BareIs DEF Bare, Still
<1> HIDE DEF out
<1>2. d \in [Links -> Link] /\ \A m \in Links : Calm(ls[m], d[m])
  BY <1>1, DeliverCalm
<1> HIDE DEF d
<1>3. ASSUME NEW m \in Links PROVE Calm(links[m], d[m])
  <2>1. links[m] \in Link /\ ls[m] \in Link /\ d[m] \in Link
    BY <1>2 DEF IInv, Typed
  <2> QED BY <1>2, <2>1, CalmTwice
<1> QED BY <1>2, <1>3 DEF d, out

LEMMA LinksCalm ==
    ASSUME IInv
    PROVE  links \in [Links -> Link] /\ \A m \in Links : Calm(links[m], links[m])
<1>1. links \in [Links -> Link]
  BY DEF IInv, Typed
<1> QED BY <1>1, CalmSelf

\* The engine reads a frame: nothing changes on the way to the process.
LEMMA HeardCalm ==
    ASSUME IInv, NEW l \in Links, NEW ls, ls = Heard(l), ls \in [Links -> Link]
    PROVE  \A m \in Links : Calm(links[m], ls[m]) /\ ls[m].toApp = links[m].toApp
                            /\ ls[m].owner = links[m].owner /\ ls[m].appEnd = links[m].appEnd
<1> DEFINE k  == links[l]
           w  == Tail(k.toEng)
           k2 == [k EXCEPT !.toEng = w]
<1>0. links \in [Links -> Link] /\ \A m \in Links : Calm(links[m], links[m])
  BY LinksCalm
<1>1. ls = [links EXCEPT ![l] = k2] /\ k \in Link
  BY <1>0 DEF Heard
<1> HIDE DEF w
<1>2. k2.toApp = k.toApp /\ k2.owner = k.owner /\ k2.appEnd = k.appEnd
  BY <1>1 DEF Link
<1> HIDE DEF k2
<1>3. ls[l] = k2 /\ \A m \in Links : m # l => ls[m] = links[m]
  BY <1>0, <1>1
<1>4. ASSUME NEW m \in Links
      PROVE  ls[m].toApp = links[m].toApp /\ ls[m].owner = links[m].owner
             /\ ls[m].appEnd = links[m].appEnd
  BY <1>2, <1>3 DEF k
<1>5. \A m \in Links : Calm(links[m], ls[m])
  BY <1>0, <1>4 DEF Calm
<1> QED BY <1>4, <1>5

\* The holder before is told.
LEMMA SupersededCalm ==
    ASSUME IInv, NEW l \in Links, NEW ls \in [Links -> Link], \A m \in Links : Calm(links[m], ls[m]),
           NEW ls1, ls1 = Superseded(ls, l)
    PROVE  ls1 \in [Links -> Link] /\ \A m \in Links : Calm(links[m], ls1[m])
<1>1. CASE ls1 = ls
  BY <1>1
<1>2. CASE ls1 = Deliver(ls, up.sink, <<Op("detached")>>)
  <2>1. up.sink \in {0} \union Links /\ "detached" \in {"held", "detached", "closed"}
    BY InTurnIs
  <2> QED BY <1>2, <2>1, ThenCalm
<1> QED BY <1>1, <1>2 DEF Superseded

LEMMA KeepsPrefix ==
    ASSUME NEW t \in Seq(ToApp), NEW r \in PrefixesOf(t)
    PROVE  Keeps(t, r)
<1>1. PICK k \in 0 .. Len(t) : r = SubSeq(t, 1, k)
  BY DEF PrefixesOf
<1>2. Len(t) \in Nat /\ DOMAIN t = 1 .. Len(t)
  BY LenProperties
<1>3. Len(r) = k /\ (\A i \in 1 .. k : r[i] = t[i]) /\ DOMAIN r = 1 .. k
  BY <1>1, <1>2
<1> QED BY <1>1, <1>2, <1>3 DEF Keeps

-----------------------------------------------------------------------------
(* What is known.                                                          *)

LEMMA KnownCalm ==
    ASSUME NEW ls \in [Links -> Link], NEW ls2 \in [Links -> Link],
           \A m \in Links : Calm(ls[m], ls2[m]), NEW rows, NEW ap, NEW l, NEW n
    PROVE  Known(rows, ap, ls2, l, n) \subseteq Known(rows, ap, ls, l, n)
<1>1. ASSUME NEW m \in Links, NEW q, Carries(ls2[m].toApp, n, q) PROVE Carries(ls[m].toApp, n, q)
  <2>1. ls[m] \in Link /\ ls2[m] \in Link
    OBVIOUS
  <2>2. ls[m].toApp \in Seq(ToApp) /\ ls2[m].toApp \in Seq(ToApp) /\ Keeps(ls[m].toApp, ls2[m].toApp)
    BY <2>1, LinkIs DEF Calm
  <2> QED BY <1>1, <2>2, CarriedKept
<1> QED BY <1>1 DEF Known

\* Of a socket not dialed yet nothing is.
LEMMA NothingKnown ==
    ASSUME IInv, FreshInv, NEW n \in Nat, n > up.sock, NEW l
    PROVE  Known(log, apps, links, l, n) = {}
<1> SUFFICES ASSUME NEW q \in Known(log, apps, links, l, n) PROVE FALSE
  OBVIOUS
<1>0. up.sock \in Nat
  <2>1. UpSound(up)
    BY DEF IInv
  <2> QED BY <2>1, Bounds DEF UpSound, Upstream
<1>1. CASE \E i \in DOMAIN log : log[i].sock = n /\ log[i].seq = q
  BY <1>0, <1>1 DEF FreshInv
<1>2. CASE \E a \in Apps : apps[a].link # l /\ InHand(apps[a], n, q)
  BY <1>0, <1>2 DEF FreshInv, InHand
<1>3. CASE \E m \in Links : m # l /\ Carries(links[m].toApp, n, q)
  BY <1>0, <1>3 DEF FreshInv, Carries, Dialed
<1> QED BY <1>1, <1>2, <1>3 DEF Known

LEMMA KnownSeqs ==
    ASSUME NEW rows, NEW ap, NEW ls, NEW l, NEW n
    PROVE  Known(rows, ap, ls, l, n) \subseteq Seqs /\ Known(rows, ap, ls, l, n) \subseteq Nat
BY Bounds DEF Known

\* Leaving a link aside is knowing less.
LEMMA KnownBut ==
    ASSUME IInv, NEW l \in Links, NEW n
    PROVE  Known(log, apps, links, l, n) \subseteq Known(log, apps, links, 0, n)
<1>1. 0 \notin Links
  BY Bounds
<1>2. ASSUME NEW a \in Apps, NEW q, InHand(apps[a], n, q) PROVE apps[a].link # 0
  <2>1. Sane(apps[a])
    BY DEF IInv
  <2> QED BY <1>2, <2>1 DEF Sane, InHand
<1> QED BY <1>1, <1>2 DEF Known

\* What is known keeps its place as the backlog moves on.
LEMMA UpFreshGrows ==
    ASSUME NEW u, NEW v, UpSound(u), UpSound(v), NEW K, K \subseteq Nat, UpFresh(K, u),
           v.st = u.st, v.sink = u.sink, v.sent = u.sent, v.liveAfter = u.liveAfter,
           u.buf.first <= v.buf.first, u.buf.next <= v.buf.next
    PROVE  UpFresh(K, v)
<1>1. /\ u.sent \in Nat /\ u.liveAfter \in Nat /\ u.buf.first \in Nat /\ v.buf.first \in Nat
      /\ u.buf.next \in Nat /\ v.buf.next \in Nat
  BY UpIs
<1>2. ASSUME NEW x \in Nat, NEW y \in Nat, x <= y, Under(K, x) PROVE Under(K, y)
  BY <1>2 DEF Under
<1>3. Edge(u) \in Nat /\ Edge(v) \in Nat /\ Edge(u) <= Edge(v)
  BY <1>1 DEF Edge, NextOwed
<1> QED BY <1>1, <1>2, <1>3 DEF UpFresh

\* Nor is it of a line that a flush brings.
LEMMA UpFreshNews ==
    ASSUME NEW u, NEW v, UpSound(u), UpSound(v), NEW K, K \subseteq Nat, UpFresh(K, u),
           u.st = "open", u.sink # 0, NEW out, Flows(u, v, out), News(u, v, out),
           NEW K2, \A q \in K2 : q \in K \/ \E i \in DOMAIN out : IsLine(out[i]) /\ out[i].seq = q
    PROVE  UpFresh(K2, v)
<1>1. /\ u.sent \in Nat /\ v.sent \in Nat /\ u.liveAfter \in Nat /\ v.liveAfter \in Nat
      /\ u.buf.first \in Nat /\ v.buf.first \in Nat
      /\ u.buf.next \in Nat \ {0} /\ v.buf.next \in Nat \ {0} /\ v.sent <= v.buf.next - 1
  BY UpIs DEF UpSound, LastSeq
<1>2. Edge(u) \in Nat /\ Edge(v) \in Nat /\ Edge(u) <= Edge(v) /\ v.buf.next = u.buf.next
  BY <1>1 DEF Edge, NextOwed, News
<1>3. out \in Seq(ToApp) /\ v.st = u.st /\ v.sink = u.sink
  BY DEF Flows
<1>4. ASSUME NEW i \in DOMAIN out, IsLine(out[i])
      PROVE  out[i].seq \in Nat /\ out[i].seq < v.buf.next /\ out[i].seq < Edge(v)
  <2>1. out[i] \in ToApp
    BY <1>3, ElementOfSeq
  <2>2. out[i].seq \in Nat
    BY <1>4, <2>1, LineSeq
  <2>3. out[i].seq <= v.sent /\ out[i].seq < Edge(v)
    BY <1>4 DEF Flows, News
  <2> QED BY <1>1, <2>2, <2>3
<1>5. \A q \in K : q < v.buf.next /\ q < Edge(v)
  <2>1. Under(K, u.buf.next) /\ Under(K, Edge(u))
    BY DEF UpFresh
  <2> SUFFICES ASSUME NEW q \in K PROVE q < v.buf.next /\ q < Edge(v)
    OBVIOUS
  <2>2. q \in Nat /\ q < u.buf.next /\ q < Edge(u)
    BY <2>1 DEF Under
  <2> QED BY <1>1, <1>2, <2>2
<1>6. Under(K2, v.buf.next) /\ Under(K2, Edge(v))
  BY <1>4, <1>5 DEF Under
<1>7. v.liveAfter < v.buf.next
  BY <1>1, <1>2 DEF News, UpFresh
<1> QED BY <1>3, <1>6, <1>7 DEF UpFresh

-----------------------------------------------------------------------------
(* Steps of the engine.                                                    *)

\* What the invariant says of a link that is there, and of the engine.
LEMMA FreshIs ==
    ASSUME IInv, FreshInv, NEW m \in Links
    PROVE  /\ links[m] \in Link /\ links[m].toApp \in Seq(ToApp) /\ Dialed(links[m].toApp, up.sock)
           /\ links[m].appEnd =>
                 /\ OneVoice(links[m].toApp, apps[links[m].owner])
                 /\ up.sink = m => SinkNew(Known(log, apps, links, m, up.sock), links[m].toApp,
                                           apps[links[m].owner], up)
           /\ UpFresh(Known(log, apps, links, 0, up.sock), up)
           /\ up.sock \in Nat /\ 0 \notin Links /\ UpSound(up)
<1>1. links[m] \in Link /\ UpSound(up)
  BY DEF IInv, Typed
<1>2. up.sock \in Nat /\ 0 \notin Links
  BY <1>1, Bounds DEF UpSound, Upstream
<1>3. /\ Dialed(links[m].toApp, up.sock) /\ UpFresh(Known(log, apps, links, 0, up.sock), up)
      /\ links[m].appEnd =>
            /\ OneVoice(links[m].toApp, apps[links[m].owner])
            /\ up.sink = m => SinkNew(Known(log, apps, links, m, up.sock), links[m].toApp,
                                      apps[links[m].owner], up)
  BY DEF FreshInv
<1>4. links[m].toApp \in Seq(ToApp)
  BY <1>1, LinkIs
<1> QED BY <1>1, <1>2, <1>3, <1>4

\* The engine moves on, and no link hears of it.
LEMMA FreshCalm ==
    ASSUME IInv, IInv', FreshInv, UNCHANGED <<apps, log>>, up'.sock = up.sock,
           up'.sink \in {0, up.sink}, up'.liveAfter # 0 => up.liveAfter # 0,
           \A m \in Links : Calm(links[m], links'[m]),
           UpFresh(Known(log, apps, links, 0, up.sock), up')
    PROVE  FreshInv'
<1> DEFINE n == up.sock
           K(l) == Known(log, apps, links, l, n)
           K2(l) == Known(log, apps, links', l, n)
<1>1. links \in [Links -> Link] /\ links' \in [Links -> Link] /\ 0 \notin Links
  BY Bounds DEF IInv, Typed
<1>2. \A l : K2(l) \subseteq K(l)
  BY <1>1, KnownCalm
<1>3. ASSUME NEW m \in Links
      PROVE  /\ links'[m].toApp \in Seq(ToApp) /\ links[m].toApp \in Seq(ToApp)
             /\ Keeps(links[m].toApp, links'[m].toApp) /\ links'[m].owner = links[m].owner
             /\ links'[m].appEnd = links[m].appEnd
  <2>1. links[m] \in Link /\ links'[m] \in Link
    BY <1>1
  <2> QED BY <2>1, LinkIs DEF Calm
<1> HIDE DEF K, K2
<1>4. UpFresh(K2(0), up')
  <2>1. UpFresh(K(0), up')
    BY DEF K
  <2> QED BY <1>2, <2>1, UnderLess DEF UpFresh
<1>5. ASSUME NEW m \in Links
      PROVE  /\ Dialed(links'[m].toApp, n)
             /\ links'[m].appEnd => OneVoice(links'[m].toApp, apps[links[m].owner])
             /\ up'.sink = m /\ links'[m].appEnd =>
                   SinkNew(K2(m), links'[m].toApp, apps[links[m].owner], up')
  <2> DEFINE t == links[m].toApp
             t2 == links'[m].toApp
             p == apps[links[m].owner]
  <2>1. /\ Dialed(t, n) /\ n \in Nat
        /\ links[m].appEnd => OneVoice(t, p) /\ (up.sink = m => SinkNew(K(m), t, p, up))
    BY FreshIs DEF K
  <2>2. t2 \in Seq(ToApp) /\ t \in Seq(ToApp) /\ Keeps(t, t2)
    BY <1>3
  <2>3. links'[m].appEnd = links[m].appEnd /\ (up'.sink = m => up.sink = m)
    BY <1>1, <1>3
  <2>4. up'.sock = up.sock /\ K2(m) \subseteq K(m)
    BY <1>2
  <2> HIDE DEF t, t2, p, n
  <2>5. Dialed(t2, n)
    BY <2>1, <2>2, CarriedKept
  <2>6. links'[m].appEnd => OneVoice(t2, p)
    BY <2>1, <2>2, <2>3, VoiceKeeps
  <2>7. up'.sink = m /\ links'[m].appEnd => SinkNew(K2(m), t2, p, up')
    BY <2>1, <2>2, <2>3, <2>4, NewKeeps
  <2> QED BY <2>5, <2>6, <2>7 DEF t2, p
<1>6. /\ \A i \in DOMAIN log : log[i].sock <= n
      /\ \A a \in Apps : apps[a].sock <= n
  BY DEF FreshInv
<1> QED BY <1>3, <1>4, <1>5, <1>6 DEF FreshInv, K2, n

\* What the sink's process is brought is new to it.
Written(t, p, K, u) == OneVoice(t, p) /\ SinkNew(K, t, p, u)

\* The engine writes to link l, whose process it then drives.
LEMMA FreshWrites ==
    ASSUME IInv, IInv', FreshInv, UNCHANGED <<apps, log>>,
           NEW ls \in [Links -> Link], \A m \in Links : Calm(links[m], ls[m]),
           NEW l \in Links, ls[l].engEnd, NEW out \in Seq(ToApp), links' = Deliver(ls, l, out),
           up'.sink = l, NEW n \in Nat, up'.sock = n, up.sock <= n, Dialed(out, n),
           ls[l].appEnd => Written(ls[l].toApp \o out, apps[links[l].owner],
                                   Known(log, apps, links, l, n), up'),
           UpFresh(Known(log, apps, links, 0, n) \union {q \in Seqs : Carries(out, n, q)}, up')
    PROVE  FreshInv'
<1> DEFINE K(m) == Known(log, apps, links, m, n)
           K2(m) == Known(log, apps, links', m, n)
           C == {q \in Seqs : Carries(out, n, q)}
<1>1. links \in [Links -> Link] /\ links' \in [Links -> Link] /\ 0 \notin Links /\ up.sock \in Nat
  BY Bounds, FreshIs DEF IInv, Typed
<1>2. /\ \A m \in Links : m # l \/ ~ls[m].appEnd \/ ~ls[m].engEnd => links'[m] = ls[m]
      /\ ls[l].appEnd => Wrote(ls[l], links'[l], ls[l].toApp \o out, ls[l].toEng)
  <2> DEFINE d == Deliver(ls, l, out)
  <2>1. /\ d \in [Links -> Link]
        /\ \A m \in Links : m # l \/ ~ls[m].appEnd \/ ~ls[m].engEnd => d[m] = ls[m]
        /\ \A m \in Links : m = l /\ ls[m].appEnd /\ ls[m].engEnd =>
              Wrote(ls[m], d[m], ls[m].toApp \o out, ls[m].toEng)
    BY ONLY ls \in [Links -> Link], l \in Links, out \in Seq(ToApp), Delivers
  <2>2. links' = d
    OBVIOUS
  <2> HIDE DEF d
  <2> QED BY ONLY <2>1, <2>2, l \in Links, ls[l].engEnd
<1>3. ASSUME NEW m \in Links
      PROVE  /\ ls[m].toApp \in Seq(ToApp) /\ links[m].toApp \in Seq(ToApp)
             /\ Keeps(links[m].toApp, ls[m].toApp) /\ ls[m].owner = links[m].owner
             /\ ls[m].appEnd = links[m].appEnd
             /\ links'[m].owner = links[m].owner /\ links'[m].appEnd = links[m].appEnd
             /\ m # l \/ ~ls[m].appEnd => links'[m].toApp = ls[m].toApp
             /\ m = l /\ ls[m].appEnd => links'[m].toApp = ls[m].toApp \o out
  <2>1. links[m] \in Link /\ ls[m] \in Link
    BY <1>1
  <2>2. Calm(links[m], ls[m])
    OBVIOUS
  <2>3. /\ m # l \/ ~ls[m].appEnd => links'[m] = ls[m]
        /\ m = l /\ ls[m].appEnd => Wrote(ls[m], links'[m], ls[m].toApp \o out, ls[m].toEng)
    BY <1>2
  <2>4. ls[m].toApp \in Seq(ToApp) /\ links[m].toApp \in Seq(ToApp)
    BY <2>1, LinkIs
  <2> QED BY <2>2, <2>3, <2>4 DEF Calm, Wrote
<1>4. ASSUME NEW m \in Links, NEW q, Carries(links'[m].toApp, n, q)
      PROVE  Carries(links[m].toApp, n, q) \/ (m = l /\ Carries(out, n, q))
  <2>1. CASE Carries(ls[m].toApp, n, q)
    BY <1>3, <2>1, CarriedKept
  <2>2. CASE m = l /\ ls[m].appEnd
    <3> DEFINE t == ls[m].toApp
               r == t \o out
    <3>1. /\ Len(t) \in Nat /\ DOMAIN t = 1 .. Len(t) /\ DOMAIN out = 1 .. Len(out)
          /\ DOMAIN r = 1 .. Len(t) + Len(out)
          /\ \A i \in 1 .. Len(t) : r[i] = t[i]
          /\ \A i \in 1 .. Len(t) + Len(out) :
                i > Len(t) => i - Len(t) \in 1 .. Len(out) /\ r[i] = out[i - Len(t)]
          /\ Len(out) \in Nat
      BY <1>3, Joined
    <3>2. links'[m].toApp = r
      BY <1>3, <2>2
    <3> HIDE DEF r, t
    <3>3. PICK i \in DOMAIN r : IsLine(r[i]) /\ r[i].sock = n /\ r[i].seq = q
      BY <1>4, <3>2 DEF Carries
    <3>4. CASE i > Len(t)
      BY <2>2, <3>1, <3>3, <3>4 DEF Carries
    <3>5. CASE ~(i > Len(t))
      <4>1. i \in DOMAIN t /\ r[i] = t[i]
        BY <3>1, <3>5
      <4>2. Carries(t, n, q)
        BY <3>3, <4>1 DEF Carries
      <4> QED BY <1>3, <4>2, CarriedKept DEF t
    <3> QED BY <3>4, <3>5
  <2>3. CASE ~(m = l /\ ls[m].appEnd)
    BY <1>3, <1>4, <2>1, <2>3
  <2> QED BY <2>2, <2>3
<1>5. K2(l) \subseteq K(l) /\ K2(0) \subseteq K(0) \union C
  BY <1>1, <1>4 DEF Known
<1>6. UpFresh(K2(0), up')
  <2>1. UpFresh(K(0) \union C, up')
    OBVIOUS
  <2> HIDE DEF K, K2, C
  <2> QED BY <1>5, <2>1, UnderLess DEF UpFresh
<1> HIDE DEF K2, C
<1>7. ASSUME NEW m \in Links
      PROVE  /\ Dialed(links'[m].toApp, n)
             /\ links'[m].appEnd => OneVoice(links'[m].toApp, apps[links[m].owner])
             /\ up'.sink = m /\ links'[m].appEnd =>
                   SinkNew(K2(m), links'[m].toApp, apps[links[m].owner], up')
  <2> DEFINE t == ls[m].toApp
             p == apps[links[m].owner]
  <2>1. t \in Seq(ToApp) /\ Dialed(t, n) /\ (links[m].appEnd => OneVoice(t, p))
    <3>1. Dialed(links[m].toApp, up.sock) /\ (links[m].appEnd => OneVoice(links[m].toApp, p))
      BY FreshIs
    <3>2. Dialed(t, up.sock) /\ t \in Seq(ToApp) /\ (links[m].appEnd => OneVoice(t, p))
      BY <1>1, <1>3, <3>1, CarriedKept, VoiceKeeps
    <3>3. ASSUME NEW i \in DOMAIN t, Starts(t[i]) \/ IsLine(t[i]) PROVE t[i].sock <= n
      <4>1. t[i] \in ToApp
        BY <3>2, ElementOfSeq
      <4>2. t[i].sock \in Socks
        BY <3>3, <4>1 DEF ToApp, Starts, IsLine, Bare
      <4>3. t[i].sock \in Nat /\ t[i].sock <= up.sock
        BY <3>2, <3>3, <4>2, Bounds DEF Dialed
      <4> QED BY <1>1, <4>3
    <3> QED BY <3>2, <3>3 DEF Dialed
  <2>2. CASE m = l /\ ls[m].appEnd
    <3> DEFINE r == t \o out
    <3>1. links'[m].toApp = r
      BY <1>3, <2>2
    <3>2. OneVoice(r, p) /\ SinkNew(K(l), r, p, up')
      BY <2>2 DEF Written
    <3>3. Dialed(r, n)
      <4> SUFFICES ASSUME NEW i \in DOMAIN r, Starts(r[i]) \/ IsLine(r[i]) PROVE r[i].sock <= n
        BY DEF Dialed
      <4>1. /\ Len(t) \in Nat /\ DOMAIN t = 1 .. Len(t) /\ DOMAIN out = 1 .. Len(out)
            /\ Len(out) \in Nat /\ DOMAIN r = 1 .. Len(t) + Len(out)
            /\ \A j \in 1 .. Len(t) : r[j] = t[j]
            /\ \A j \in 1 .. Len(t) + Len(out) :
                  j > Len(t) => j - Len(t) \in 1 .. Len(out) /\ r[j] = out[j - Len(t)]
        BY <2>1, Joined
      <4> HIDE DEF r, t
      <4>2. CASE i > Len(t)
        BY <4>1, <4>2 DEF Dialed
      <4>3. CASE ~(i > Len(t))
        BY <2>1, <4>1, <4>3 DEF Dialed
      <4> QED BY <4>2, <4>3
    <3>4. SinkNew(K2(m), r, p, up')
      <4> HIDE DEF r, K
      <4> QED BY <1>5, <2>2, <3>2, UnderLess DEF SinkNew
    <3> QED BY <3>1, <3>2, <3>3, <3>4
  <2>3. CASE m # l
    BY <1>3, <2>1, <2>3
  <2>4. CASE ~ls[m].appEnd
    BY <1>3, <2>1, <2>4
  <2> QED BY <2>2, <2>3, <2>4
<1>8. /\ \A i \in DOMAIN log : log[i].sock <= n
      /\ \A a \in Apps : apps[a].sock <= n
  <2>1. /\ \A i \in DOMAIN log : log[i].sock <= up.sock
        /\ \A a \in Apps : apps[a].sock <= up.sock
    BY DEF FreshInv
  <2>2. ASSUME NEW i \in DOMAIN log PROVE log[i].sock \in Nat
    <3>1. log \in Seq(Row)
      BY DEF IInv, Typed
    <3>2. log[i] \in Row
      BY <3>1, ElementOfSeq
    <3> QED BY <3>2, Bounds DEF Row
  <2>3. ASSUME NEW a \in Apps PROVE apps[a].sock \in Nat
    <3>1. apps[a].sock \in {0} \union Socks
      BY AppIs DEF Process
    <3>2. \A i \in {0} \union Socks : i \in Nat
      <4>1. \A i \in Socks : i \in Nat
        BY Bounds
      <4> QED BY <4>1
    <3> QED BY ONLY <3>1, <3>2
  <2> QED BY <1>1, <2>1, <2>2, <2>3
<1> QED BY <1>3, <1>6, <1>7, <1>8 DEF FreshInv, K2

\* EngineUpstream.flush, of what the upstream has become.
LEMMA FlushFresh ==
    ASSUME IInv, IInv', FreshInv, UNCHANGED <<apps, log>>, up.st = "open",
           NEW u, UpSound(u), u.st = "open", u.sink = up.sink, u.sock = up.sock,
           u.sent = up.sent, u.liveAfter = up.liveAfter,
           up.buf.first <= u.buf.first, up.buf.next <= u.buf.next,
           NEW f \in FlushOutcomes(u), up' = f.u, links' = Deliver(links, up.sink, f.out)
    PROVE  FreshInv'
<1> DEFINE n == up.sock
           K(l) == Known(log, apps, links, l, n)
           out == f.out
<1>1. UpSound(up) /\ up.sink \in {0} \union Links /\ (up.sink # 0 => links[up.sink].engEnd)
      /\ links \in [Links -> Link] /\ (\A m \in Links : Calm(links[m], links[m])) /\ n \in Nat
      /\ n \in Socks
  <2>1. UpSound(up)
    BY DEF IInv
  <2>2. up.sock \in Socks
    BY <2>1, UpIs
  <2> QED BY <2>1, <2>2, InTurnIs, LinksCalm, Bounds
<1>2. UpFresh(K(0), u) /\ \A l : K(l) \subseteq Nat
  <2>1. UpFresh(K(0), up)
    BY DEF FreshInv
  <2>2. \A l : K(l) \subseteq Nat
    BY KnownSeqs
  <2> HIDE DEF K, n
  <2> QED BY <1>1, <2>1, <2>2, UpFreshGrows
<1>3. UpSound(up') /\ Flows(u, up', out) /\ up'.sink = up.sink /\ up'.sock = n /\ out \in Seq(ToApp)
  <2>1. UpSound(f.u) /\ Flows(u, f.u, f.out)
    BY FlushFlows
  <2> QED BY <2>1 DEF Flows
<1>4. CASE up.sink = 0
  <2>1. f.u = u
    BY <1>4 DEF FlushOutcomes
  <2>2. links' = links
    BY <1>4 DEF Deliver
  <2>3. UpFresh(Known(log, apps, links, 0, up.sock), up')
    BY <1>2, <2>1
  <2>4. up'.sock = up.sock /\ up'.sink \in {0, up.sink} /\ up'.liveAfter = up.liveAfter
    BY <1>3, <2>1
  <2>5. \A m \in Links : Calm(links[m], links'[m])
    BY <1>1, <2>2
  <2> QED BY <2>3, <2>4, <2>5, FreshCalm
<1>5. CASE up.sink # 0
  <2> DEFINE l == up.sink
  <2>1. l \in Links /\ links[l].engEnd /\ u.sink # 0
    BY <1>1, <1>5
  <2>2. News(u, up', out)
    <3>1. u.liveAfter < u.buf.next
      BY <1>2, <2>1 DEF UpFresh
    <3> QED BY <3>1, FlushNews
  <2>3. \A i \in DOMAIN out : IsLine(out[i]) => out[i].sock = n
    BY <2>2 DEF News, Awakens
  <2>4. \A i \in DOMAIN out : out[i].op \in {"gap", "line", "live"}
    BY <1>3 DEF Flows
  <2>5. Dialed(out, n)
    BY <1>1, <2>3, <2>4 DEF Dialed, Starts
  <2>6. UpFresh(K(0) \union {q \in Seqs : Carries(out, n, q)}, up')
    <3> DEFINE K2 == K(0) \union {q \in Seqs : Carries(out, n, q)}
    <3>1. \A q \in K2 : q \in K(0) \/ \E i \in DOMAIN out : IsLine(out[i]) /\ out[i].seq = q
      BY DEF Carries
    <3> HIDE DEF K2, K, out, n
    <3>2. UpFresh(K2, up')
      BY <1>2, <1>3, <2>1, <2>2, <3>1, UpFreshNews
    <3> QED BY <3>2 DEF K2
  <2>7. ASSUME links[l].appEnd
        PROVE  Written(links[l].toApp \o out, apps[links[l].owner], K(l), up')
    <3> DEFINE t == links[l].toApp
               p == apps[links[l].owner]
    <3>1. t \in Seq(ToApp) /\ OneVoice(t, p) /\ SinkNew(K(l), t, p, up)
      BY <2>1, <2>7, FreshIs
    <3>2. Under(K(l), Edge(u))
      <4>1. K(l) \subseteq K(0) /\ Under(K(0), Edge(u))
        BY <1>2, <2>1, KnownBut DEF UpFresh
      <4> HIDE DEF K
      <4> QED BY <4>1, UnderLess
    <3>3. up'.sock = u.sock /\ K(l) \subseteq Nat
      BY <1>2, <1>3
    <3> HIDE DEF K, t, p, l, out
    <3>4. SinkNew(K(l), t, p, u)
      BY <3>1 DEF SinkNew
    <3>5. OneVoice(t \o out, p) /\ SinkNew(K(l), t \o out, p, up')
      BY <1>3, <2>2, <2>4, <3>1, <3>2, <3>3, <3>4, NewsGrows
    <3> QED BY <3>5 DEF Written, t, p
  <2>8. links' = Deliver(links, l, out) /\ up'.sink = l /\ up.sock <= n /\ up'.sock = n
    BY <1>1, <1>3
  <2> HIDE DEF l, n, out
  <2> QED BY <1>1, <1>3, <2>1, <2>5, <2>6, <2>7, <2>8, FreshWrites DEF K
<1> QED BY <1>4, <1>5

\* EngineUpstream.onOpen
LEMMA OpensFresh == ASSUME IInv, IInv', FreshInv, Opens PROVE FreshInv'
<1> DEFINE n == up.sock
           K(l) == Known(log, apps, links, l, n)
           out == <<[op |-> "open", sock |-> n]>>
<1>1. /\ UpSound(up) /\ n \in Socks /\ n \in Nat /\ up.st = "dialing"
      /\ links' = Deliver(links, up.sink, out) /\ up.sink \in {0} \union Links
      /\ (up.sink # 0 => links[up.sink].engEnd) /\ links \in [Links -> Link]
      /\ (\A m \in Links : Calm(links[m], links[m])) /\ UNCHANGED <<apps, log>>
  <2>1. UpSound(up) /\ up.st # "none"
    BY DEF IInv, Opens
  <2>2. up.sock \in Socks
    BY <2>1, UpIs
  <2> QED BY <2>1, <2>2, InTurnIs, LinksCalm, Bounds DEF Opens
<1>2. /\ up'.st = "open" /\ up'.sink = up.sink /\ up'.sock = n /\ up'.sent = up.sent
      /\ up'.liveAfter = up.liveAfter /\ up'.buf = up.buf
  <2>1. up' = [up EXCEPT !.st = "open"]
    BY DEF Opens
  <2> QED BY <1>1, <2>1 DEF UpSound, Upstream
<1>3. UpFresh(K(0), up) /\ up.liveAfter = 0
  BY <1>1 DEF FreshInv, UpFresh
<1>4. UpFresh(K(0), up')
  <2> HIDE DEF K
  <2> QED BY <1>1, <1>2, <1>3 DEF UpFresh, Edge, NextOwed
<1>5. CASE up.sink = 0
  <2>1. links' = links
    BY <1>1, <1>5 DEF Deliver
  <2>2. \A m \in Links : Calm(links[m], links'[m])
    BY <1>1, <2>1
  <2> HIDE DEF out
  <2> QED BY <1>1, <1>2, <1>4, <2>2, FreshCalm
<1>6. CASE up.sink # 0
  <2> DEFINE l == up.sink
  <2>1. l \in Links /\ links[l].engEnd
    BY <1>1, <1>6
  <2>2. /\ out \in Seq(ToApp) /\ Dialed(out, n)
        /\ \A i \in DOMAIN out : ~IsLine(out[i]) /\ ~Anew(out[i]) /\ out[i].sock = n
    BY <1>1 DEF ToApp, Dialed, IsLine, Anew
  <2>3. {q \in Seqs : Carries(out, n, q)} = {}
    BY <2>2 DEF Carries
  <2>4. ASSUME links[l].appEnd
        PROVE  Written(links[l].toApp \o out, apps[links[l].owner], K(l), up')
    <3> DEFINE t == links[l].toApp
               p == apps[links[l].owner]
    <3>1. t \in Seq(ToApp) /\ OneVoice(t, p) /\ SinkNew(K(l), t, p, up)
      BY <2>1, <2>4, FreshIs
    <3> HIDE DEF K, t, p, l, out, n
    <3>2. OneVoice(t \o out, p) /\ SinkNew(K(l), t \o out, p, up')
      <4>1. up'.sock = up.sock /\ up'.liveAfter = 0
        BY <1>2, <1>3 DEF n
      <4>2. \A i \in DOMAIN out : ~IsLine(out[i]) /\ ~Anew(out[i]) /\ out[i].sock = up'.sock
        BY <1>2, <2>2
      <4> QED BY <2>2, <3>1, <4>1, <4>2, StartGrows
    <3> QED BY <3>2 DEF Written, t, p
  <2>5. UpFresh(K(0) \union {q \in Seqs : Carries(out, n, q)}, up')
    BY <1>4, <2>3
  <2>6. links' = Deliver(links, l, out) /\ up'.sink = l /\ up'.sock = n /\ up.sock <= n
    BY <1>1, <1>2
  <2> HIDE DEF l, n, out
  <2> QED BY <1>1, <2>1, <2>2, <2>4, <2>5, <2>6, FreshWrites DEF K
<1> QED BY <1>5, <1>6

\* The backlog moves on, and nothing is flushed.
LEMMA BacklogFresh ==
    ASSUME IInv, IInv', FreshInv, UNCHANGED <<apps, log>>, NEW b, Held(b),
           up.buf.first <= b.first, up.buf.next <= b.next, up' = [up EXCEPT !.buf = b],
           \A m \in Links : Calm(links[m], links'[m])
    PROVE  FreshInv'
<1> DEFINE K == Known(log, apps, links, 0, up.sock)
<1>1. UpSound(up) /\ UpSound(up') /\ UpFresh(K, up) /\ K \subseteq Nat
  BY KnownSeqs DEF IInv, FreshInv
<1>2. /\ up'.st = up.st /\ up'.sink = up.sink /\ up'.sock = up.sock /\ up'.sent = up.sent
      /\ up'.liveAfter = up.liveAfter /\ up'.buf = b
  BY <1>1 DEF UpSound, Upstream
<1> HIDE DEF K
<1>3. UpFresh(K, up')
  BY <1>1, <1>2, UpFreshGrows
<1> QED BY <1>2, <1>3, FreshCalm DEF K

\* EngineUpstream.onLine
LEMMA ServerLineFresh == ASSUME IInv, IInv', FreshInv, ServerLine PROVE FreshInv'
<1>1. PICK k \in ShedCounts(Pushed(up.buf)) :
         \E f \in FlushOutcomes([up EXCEPT !.buf = Shed(Pushed(up.buf), k)]) :
              /\ up' = f.u
              /\ links' = IF up.sink = 0 /\ LastSeq(f.u.buf) = BurstEnd
                          THEN Offered(links) ELSE Deliver(links, up.sink, f.out)
  BY DEF ServerLine
<1>2. /\ up.st = "open" /\ LastSeq(up.buf) < MaxSeq /\ UNCHANGED <<apps, log>>
      /\ UpSound(up) /\ Held(up.buf) /\ LastSeq(up.buf) \in Nat /\ up.buf.first \in Nat
  BY InTurnIs, UpIs DEF ServerLine
<1> DEFINE b == Shed(Pushed(up.buf), k)
           u == [up EXCEPT !.buf = b]
<1>3. Held(b) /\ LastSeq(b) = LastSeq(up.buf) + 1 /\ up.buf.first <= b.first
  <2>1. /\ Held(Pushed(up.buf)) /\ LastSeq(Pushed(up.buf)) = LastSeq(up.buf) + 1
        /\ Pushed(up.buf).first = up.buf.first
    BY <1>2, PushedHeld DEF Pushed, Held, BufferType
  <2>2. b.first = up.buf.first + k /\ k \in Nat
    BY <2>1, ShedHeld DEF ShedCounts
  <2> QED BY <1>2, <2>1, <2>2, ShedHeld
<1> HIDE DEF b
<1>4. LastSeq(b) >= LastSeq(up.buf) /\ up.buf.next <= b.next
  <2>1. LastSeq(b) >= LastSeq(up.buf)
    BY <1>2, <1>3
  <2>2. up.buf.next \in Nat /\ b.next \in Nat
    BY <1>2, <1>3, HeldIs
  <2> QED BY <2>1, <2>2 DEF LastSeq
<1>5. UpSound(u) /\ u.st = "open" /\ u.sink = up.sink /\ u.sent = up.sent /\ u.buf = b
      /\ u.sock = up.sock /\ u.liveAfter = up.liveAfter
  BY <1>2, <1>3, <1>4, Rebuffered
<1>7. PICK f \in FlushOutcomes(u) :
              /\ up' = f.u
              /\ links' = IF up.sink = 0 /\ LastSeq(f.u.buf) = BurstEnd
                          THEN Offered(links) ELSE Deliver(links, up.sink, f.out)
  BY <1>1 DEF b
<1>u. u = [up EXCEPT !.buf = b]
  OBVIOUS
<1> HIDE DEF u
<1>8. CASE links' = Deliver(links, up.sink, f.out)
  BY <1>2, <1>3, <1>4, <1>5, <1>7, <1>8, FlushFresh
<1>9. CASE up.sink = 0 /\ links' = Offered(links)
  <2>1. up' = [up EXCEPT !.buf = b]
    BY <1>5, <1>7, <1>9, <1>u DEF FlushOutcomes
  <2>2. \A m \in Links : Calm(links[m], links'[m])
    BY <1>9, LinksCalm, OfferCalm
  <2> QED BY <1>2, <1>3, <1>4, <2>1, <2>2, BacklogFresh
<1> QED BY <1>7, <1>8, <1>9

\* LineBuffer sheds for another connection's line.
LEMMA SqueezedFresh == ASSUME IInv, IInv', FreshInv, Squeezed PROVE FreshInv'
<1>1. PICK k \in ShedCounts(up.buf) : up' = [up EXCEPT !.buf = Shed(up.buf, k)]
  BY DEF Squeezed
<1>2. UNCHANGED <<links, apps, log>> /\ UpSound(up) /\ Held(up.buf)
  BY InTurnIs, UpIs DEF Squeezed
<1> DEFINE b == Shed(up.buf, k)
<1>3. up' = [up EXCEPT !.buf = b]
  BY <1>1
<1>4. Held(b) /\ LastSeq(b) = LastSeq(up.buf) /\ b.first = up.buf.first + k
  BY <1>2, ShedHeld
<1> HIDE DEF b
<1>5. up.buf.first <= b.first /\ up.buf.next <= b.next
  <2>1. k \in Nat
    BY DEF ShedCounts
  <2>2. up.buf.next \in Nat /\ b.next \in Nat /\ up.buf.first \in Nat
    BY <1>2, <1>4, HeldIs
  <2> QED BY <1>4, <2>1, <2>2 DEF LastSeq
<1>6. \A m \in Links : Calm(links[m], links'[m])
  BY <1>2, LinksCalm
<1> QED BY <1>2, <1>3, <1>4, <1>5, <1>6, BacklogFresh

\* EngineUpstream.resume
LEMMA DrainFresh == ASSUME IInv, IInv', FreshInv, Drain PROVE FreshInv'
<1> DEFINE u == [up EXCEPT !.stalled = FALSE]
<1>1. UpSound(up) /\ up.st = "open" /\ UNCHANGED <<apps, log>>
  BY InTurnIs DEF Drain, UpSound
<1>2. PICK f \in FlushOutcomes(u) : up' = f.u /\ links' = Deliver(links, up.sink, f.out)
  BY DEF Drain
<1>3. u \in Upstream /\ u.st = up.st /\ u.sock = up.sock /\ u.sink = up.sink /\ u.buf = up.buf
      /\ u.sent = up.sent /\ ~u.stalled /\ u.liveAfter = up.liveAfter
  BY <1>1 DEF UpSound, Upstream
<1> HIDE DEF u
<1>4. UpSound(u) /\ u.st = "open"
  BY <1>1, <1>3 DEF UpSound
<1>5. up.buf.first <= u.buf.first /\ up.buf.next <= u.buf.next
  BY <1>1, <1>3, UpIs
<1> QED BY <1>1, <1>2, <1>3, <1>4, <1>5, FlushFresh

\* Whoever had the session has it no more.
LEMMA LeftFresh ==
    ASSUME IInv, IInv', FreshInv, UNCHANGED <<apps, log>>, up'.sock = up.sock, up'.sink = 0,
           up'.liveAfter = 0, up'.st # "open" => up'.sent = 0,
           up'.st = "none" \/ (up'.st = up.st /\ up'.buf = up.buf),
           \A m \in Links : Calm(links[m], links'[m])
    PROVE  FreshInv'
<1> DEFINE K == Known(log, apps, links, 0, up.sock)
<1>1. UpFresh(K, up)
  BY DEF FreshInv
<1> HIDE DEF K
<1>2. UpFresh(K, up')
  BY <1>1 DEF UpFresh
<1> QED BY <1>2, FreshCalm DEF K

\* EngineUpstream.onClose
LEMMA DiesFresh == ASSUME IInv, IInv', FreshInv, SocketDies PROVE FreshInv'
<1>1. links' = Deliver(links, up.sink, <<Op("closed")>>) /\ UNCHANGED <<apps, log>>
      /\ up.sink \in {0} \union Links
  BY InTurnIs DEF SocketDies
<1>2. up'.sink = 0 /\ up'.sock = up.sock /\ up'.liveAfter = 0 /\ up'.sent = 0 /\ up'.st = "none"
  BY DEF SocketDies, NoUpstream
<1>3. \A m \in Links : Calm(links[m], links'[m])
  <2>1. "closed" \in {"held", "detached", "closed"}
    OBVIOUS
  <2> QED BY <1>1, <2>1, LinksCalm, ThenCalm
<1> QED BY <1>1, <1>2, <1>3, LeftFresh

-----------------------------------------------------------------------------
(* The engine's side of a link.                                            *)

\* EngineServer.release and onLinkClose
LEMMA LetGoFresh ==
    ASSUME IInv, IInv', FreshInv, NEW l \in Links, NEW ls \in [Links -> Link],
           \A m \in Links : Calm(links[m], ls[m]), LetGo(l, ls), UNCHANGED <<apps, log>>
    PROVE  FreshInv'
<1>1. UpSound(up) /\ links \in [Links -> Link] /\ UpFresh(Known(log, apps, links, 0, up.sock), up)
  BY InTurnIs DEF FreshInv
<1>2. CASE UNCHANGED up /\ links' = ls
  <2>1. up'.sock = up.sock /\ up'.sink \in {0, up.sink} /\ up'.liveAfter = up.liveAfter
    BY <1>2
  <2> QED BY <1>1, <1>2, <2>1, FreshCalm
<1>3. CASE up' = Detached(up) /\ (links' = ls \/ links' = Offered(ls))
  <2>1. up'.sink = 0 /\ up'.sock = up.sock /\ up'.liveAfter = 0 /\ up'.sent = up.sent
        /\ up'.st = up.st /\ up'.buf = up.buf
    BY <1>1, <1>3 DEF Detached, UpSound, Upstream
  <2>2. \A m \in Links : Calm(links[m], links'[m])
    <3>1. CASE links' = ls
      BY <3>1
    <3>2. CASE links' = Offered(ls)
      <4>1. links' \in [Links -> Link] /\ \A m \in Links : Calm(ls[m], links'[m])
        BY <3>2, OfferCalm
      <4>2. ASSUME NEW m \in Links PROVE Calm(links[m], links'[m])
        <5>1. links[m] \in Link /\ ls[m] \in Link /\ links'[m] \in Link
          BY <1>1, <4>1
        <5> QED BY <4>1, <5>1, CalmTwice
      <4> QED BY <4>2
    <3> QED BY <1>3, <3>1, <3>2
  <2>3. up'.st # "open" => up'.sent = 0
    BY <1>1, <2>1 DEF UpFresh
  <2> QED BY <2>1, <2>2, <2>3, LeftFresh
<1> QED BY <1>2, <1>3 DEF LetGo

\* EngineServer.onLinkClose
LEMMA SeesEOFFresh == ASSUME IInv, IInv', FreshInv, NEW l \in Links, EngineSeesEOF(l) PROVE FreshInv'
<1> DEFINE ls == [links EXCEPT ![l].engEnd = FALSE]
           k2 == [links[l] EXCEPT !.engEnd = FALSE]
<1>1. LetGo(l, ls) /\ links \in [Links -> Link] /\ links[l] \in Link /\ UNCHANGED <<apps, log>>
  BY InTurnIs DEF EngineSeesEOF
<1>2. k2 \in Link /\ k2.owner = links[l].owner /\ k2.appEnd = links[l].appEnd
      /\ k2.toApp = links[l].toApp
  BY <1>1 DEF Link
<1>3. ls = [links EXCEPT ![l] = k2]
  OBVIOUS
<1> HIDE DEF k2
<1>4. ls \in [Links -> Link] /\ ls[l] = k2 /\ \A m \in Links : m # l => ls[m] = links[m]
  BY <1>1, <1>2, <1>3
<1> HIDE DEF ls
<1>5. Calm(links[l], k2)
  BY <1>1, <1>2, CalmSelf DEF Calm
<1>6. \A m \in Links : Calm(links[m], ls[m])
  BY <1>4, <1>5, LinksCalm
<1> QED BY <1>1, <1>4, <1>6, LetGoFresh

\* EngineServer.sweepSilentLinks
LEMMA DropsFresh == ASSUME IInv, IInv', FreshInv, NEW l \in Links, EngineDropsLink(l) PROVE FreshInv'
<1>0. PICK kept \in PrefixesOf(links[l].toApp) :
        LetGo(l, [links EXCEPT ![l].engEnd = FALSE, ![l].toEng = <<>>, ![l].toApp = kept])
  BY DEF EngineDropsLink
<1> DEFINE ls == [links EXCEPT ![l].engEnd = FALSE, ![l].toEng = <<>>, ![l].toApp = kept]
           k  == links[l]
           k2 == [k EXCEPT !.engEnd = FALSE, !.toEng = <<>>, !.toApp = kept]
<1>1. LetGo(l, ls) /\ links \in [Links -> Link] /\ k \in Link /\ k.toApp \in Seq(ToApp)
      /\ UNCHANGED <<apps, log>>
  BY <1>0, InTurnIs, LinkIs DEF EngineDropsLink
<1>2. kept \in Seq(ToApp) /\ Keeps(k.toApp, kept)
  BY <1>1, PrefixIs, KeepsPrefix
<1>3. k2 \in Link /\ k2.owner = k.owner /\ k2.appEnd = k.appEnd /\ k2.toApp = kept
  <2>1. <<>> \in Seq(ToEng)
    BY EmptySeq
  <2> HIDE DEF k
  <2> QED BY <1>1, <1>2, <2>1 DEF Link
<1>4. ls = [links EXCEPT ![l] = k2]
  BY <1>1
<1> HIDE DEF k2
<1>5. ls \in [Links -> Link] /\ ls[l] = k2 /\ \A m \in Links : m # l => ls[m] = links[m]
  BY <1>1, <1>3, <1>4
<1> HIDE DEF ls
<1>6. Calm(k, k2)
  BY <1>2, <1>3 DEF Calm
<1>7. \A m \in Links : Calm(links[m], ls[m])
  BY <1>5, <1>6, LinksCalm DEF k
<1> QED BY <1>1, <1>5, <1>7, LetGoFresh

\* What a process that asks was told is nothing.
Asks(k) == k.appEnd => /\ OnlyHeld(k.toApp) /\ k.toApp \in Seq(ToApp)
                       /\ apps[k.owner].st # "up" /\ apps[k.owner].todo = {}

\* EngineServer.connect: what is dialed has no lines yet.
LEMMA DialingFresh ==
    ASSUME IInv, IInv', FreshInv, UNCHANGED <<apps, log>>, NEW l \in Links,
           NEW ls \in [Links -> Link], \A m \in Links : Calm(links[m], ls[m]), ls[l].engEnd,
           Asks(ls[l]), links' = Deliver(ls, l, <<Op("dialing")>>),
           up'.sink = l, up.sock <= up'.sock, up'.sock \in Nat, up'.st = "dialing",
           up'.sent = 0, up'.liveAfter = 0, up'.buf = EmptyBuffer,
           Known(log, apps, links, 0, up'.sock) = {}
    PROVE  FreshInv'
<1> DEFINE n == up'.sock
           out == <<Op("dialing")>>
           K == Known(log, apps, links, l, n)
<1>1. /\ out \in Seq(ToApp) /\ DOMAIN out = {1} /\ links' = Deliver(ls, l, out)
      /\ \A i \in DOMAIN out : ~IsLine(out[i]) /\ ~Starts(out[i])
  BY BareIs DEF Bare, IsLine, Op, Starts
<1> HIDE DEF out
<1>2. Dialed(out, n) /\ {q \in Seqs : Carries(out, n, q)} = {}
  BY <1>1 DEF Dialed, Carries
<1>3. ASSUME ls[l].appEnd
      PROVE  Written(ls[l].toApp \o out, apps[links[l].owner], K, up')
  <2> DEFINE t == ls[l].toApp
             p == apps[links[l].owner]
             u == up'
  <2>1. t \in Seq(ToApp) /\ OnlyHeld(t) /\ p.st # "up" /\ p.todo = {}
    BY <1>3 DEF Asks, Calm
  <2>2. u.liveAfter = 0
    OBVIOUS
  <2> HIDE DEF t, p, u, K
  <2>3. OneVoice(t, p) /\ SinkNew(K, t, p, u)
    BY <2>1, HeldIsNew
  <2>4. \A i \in DOMAIN t : ~Starts(t[i])
    BY <2>1 DEF OnlyHeld, Starts
  <2>5. OneVoice(t \o out, p) /\ SinkNew(K, t \o out, p, u)
    BY <1>1, <2>1, <2>2, <2>3, <2>4, StartGrows
  <2> QED BY <2>5 DEF Written, t, p, u
<1>4. UpFresh({}, up')
  BY DEF UpFresh, Under, EmptyBuffer
<1>5. UpFresh(Known(log, apps, links, 0, n) \union {q \in Seqs : Carries(out, n, q)}, up')
  BY <1>2, <1>4
<1>6. up'.sock = n /\ n \in Nat /\ up.sock <= n
  OBVIOUS
<1> HIDE DEF n
<1> QED BY <1>1, <1>2, <1>3, <1>5, <1>6, FreshWrites DEF K

LEMMA Regroup ==
    ASSUME NEW x \in Seq(ToApp), NEW y \in Seq(ToApp), NEW z \in Seq(ToApp)
    PROVE  x \o (y \o z) = (x \o y) \o z
BY ConcatAssociative

\* EngineUpstream.attach: the process is told of a session, and then of what is
\* owed; `live' comes past all that anyone was delivered.
LEMMA AttachFresh ==
    ASSUME IInv, IInv', FreshInv, UNCHANGED <<apps, log>>, NEW l \in Links,
           NEW ls \in [Links -> Link], \A m \in Links : Calm(links[m], ls[m]), ls[l].engEnd,
           Asks(ls[l]), Registered, NEW f \in AttachOutcomes(l), up' = f.u,
           links' = Deliver(ls, l, f.out)
    PROVE  FreshInv'
<1> DEFINE b == Acked(up.buf, BurstEnd)
           u == [up EXCEPT !.buf = b, !.sink = l, !.sent = BurstEnd,
                           !.stalled = FALSE, !.liveAfter = LiveAfter(b)]
           first == <<[op |-> "attached", sock |-> up.sock]>>
           next  == IF u.liveAfter = 0 THEN <<Op("live")>> ELSE <<>>
           n == up.sock
           K(m) == Known(log, apps, links, m, n)
<1>1. UpSound(up) /\ up.st = "open" /\ up.sock \in Socks /\ Held(up.buf)
      /\ LastSeq(up.buf) \in Nat /\ LastSeq(up.buf) >= 1 /\ n \in Nat /\ 0 \notin Links
  <2>1. UpSound(up) /\ up.st = "open" /\ LastSeq(up.buf) >= 1
    BY InTurnIs DEF Registered, BurstEnd
  <2>2. up.sock \in Socks /\ Held(up.buf) /\ LastSeq(up.buf) \in Nat
    BY <2>1, UpIs
  <2> QED BY <2>1, <2>2, Bounds
<1>2. /\ Held(b) /\ LastSeq(b) = LastSeq(up.buf) /\ b.first \in Nat /\ b.next \in Nat
      /\ b.next = up.buf.next /\ b.first <= b.next /\ b.next >= 2
  <2>1. Held(b) /\ LastSeq(b) = LastSeq(up.buf)
    BY <1>1, AckedHeld, HeldIs DEF BurstEnd
  <2>2. b.first \in Nat /\ b.next \in Nat /\ up.buf.next \in Nat /\ b.first <= b.next
    BY <1>1, <2>1, HeldIs DEF Held
  <2> HIDE DEF b
  <2>3. b.next = up.buf.next /\ b.next >= 2
    BY <1>1, <2>1, <2>2 DEF LastSeq
  <2> QED BY <2>1, <2>2, <2>3
<1>3. LiveAfter(b) \in {0} \union Seqs /\ BurstEnd \in {0} \union Seqs
  <2>1. LastSeq(b) \in {0} \union Seqs
    BY <1>2, HeldIs
  <2>2. 1 \in Seqs
    BY <1>1, <1>2, <2>1, Bounds DEF Seqs
  <2> QED BY <2>1, <2>2 DEF LiveAfter, BurstEnd
<1>4. PICK g \in FlushOutcomes(u) : f = [u |-> g.u, out |-> (first \o next) \o g.out]
  BY DEF AttachOutcomes
<1> DEFINE h == first \o next
           v == g.u
           rest == g.out
<1>5. /\ h \in Seq(ToApp)
      /\ \A i \in DOMAIN h : /\ ~IsLine(h[i]) /\ (Starts(h[i]) => h[i].sock = n)
                             /\ (Anew(h[i]) => i = 1) /\ (u.liveAfter # 0 => ~Wakes(h[i]))
  <2>1. first \in Seq(ToApp) /\ next \in Seq(ToApp) /\ Len(first) = 1
    <3>1. first \in Seq(ToApp) /\ Len(first) = 1
      BY <1>1 DEF ToApp
    <3>2. <<Op("live")>> \in Seq(ToApp) /\ <<>> \in Seq(ToApp)
      BY BareIs, EmptySeq DEF Bare
    <3> HIDE DEF u, b
    <3> QED BY <3>1, <3>2
  <2>2. DOMAIN first = {1} /\ ~IsLine(first[1]) /\ first[1].sock = n /\ ~Wakes(first[1])
    BY DEF IsLine, Wakes
  <2>3. \A i \in DOMAIN next : /\ ~IsLine(next[i]) /\ ~Starts(next[i]) /\ ~Anew(next[i])
                               /\ u.liveAfter = 0
    BY BareIs DEF Bare, Op, IsLine, Starts, Anew
  <2> HIDE DEF first, next, u, n
  <2>4. /\ h \in Seq(ToApp) /\ Len(next) \in Nat /\ DOMAIN next = 1 .. Len(next)
        /\ DOMAIN first = 1 .. 1 /\ DOMAIN h = 1 .. 1 + Len(next)
        /\ \A i \in 1 .. 1 : h[i] = first[i]
        /\ \A i \in 1 .. 1 + Len(next) : i > 1 => i - 1 \in 1 .. Len(next) /\ h[i] = next[i - 1]
    <3>1. /\ h \in Seq(ToApp) /\ Len(next) \in Nat /\ DOMAIN next = 1 .. Len(next)
          /\ DOMAIN first = 1 .. Len(first) /\ DOMAIN h = 1 .. Len(first) + Len(next)
          /\ \A i \in 1 .. Len(first) : h[i] = first[i]
          /\ \A i \in 1 .. Len(first) + Len(next) :
                i > Len(first) => i - Len(first) \in 1 .. Len(next) /\ h[i] = next[i - Len(first)]
      BY ONLY <2>1, Joined
    <3> HIDE DEF h
    <3> QED BY ONLY <2>1, <3>1
  <2> HIDE DEF h
  <2>5. ASSUME NEW i \in DOMAIN h
        PROVE  /\ ~IsLine(h[i]) /\ (Starts(h[i]) => h[i].sock = n)
               /\ (Anew(h[i]) => i = 1) /\ (u.liveAfter # 0 => ~Wakes(h[i]))
    <3>1. CASE i = 1
      <4>1. h[i] = first[1]
        BY <2>4, <3>1
      <4> QED BY <2>2, <3>1, <4>1
    <3>2. CASE i # 1
      <4>1. i - 1 \in DOMAIN next /\ h[i] = next[i - 1]
        BY <2>4, <3>2
      <4> QED BY <2>3, <4>1
    <3> QED BY <3>1, <3>2
  <2> QED BY <2>4, <2>5
<1>6. f.u = v /\ f.out = h \o rest
  BY <1>4
<1>l. LiveAfter(b) # 0 => LiveAfter(b) = b.next - 1
  BY DEF LiveAfter, LastSeq
<1>m. LiveAfter(b) = 0 => b.first = b.next
  <2> HIDE DEF b
  <2> QED BY <1>2 DEF LiveAfter, LastSeq, Pending
<1> HIDE DEF b, first, next, h
<1>7. u \in Upstream /\ u.st = "open" /\ u.sock = n /\ u.buf = b /\ u.sink = l
      /\ u.sent = 1 /\ ~u.stalled /\ u.liveAfter = LiveAfter(b)
  BY <1>1, <1>2, <1>3 DEF UpSound, Upstream, Held, BurstEnd
<1> HIDE DEF u
<1>8. UpSound(u)
  <2>1. u.sent <= LastSeq(u.buf) /\ u.sock # 0
    BY <1>1, <1>2, <1>7, Bounds
  <2> QED BY <1>2, <1>7, <2>1 DEF UpSound
<1>9. Edge(u) = b.next /\ u.liveAfter < u.buf.next
  <2>1. CASE LiveAfter(b) = 0
    BY <1>2, <1>7, <1>m, <2>1 DEF Edge, NextOwed
  <2>2. CASE LiveAfter(b) # 0
    BY <1>2, <1>7, <1>l, <2>2 DEF Edge
  <2> QED BY <2>1, <2>2
<1>10. UpFresh(K(0), u) /\ Under(K(0), Edge(u)) /\ (\A m : K(m) \subseteq Nat)
       /\ K(l) \subseteq K(0)
  <2>1. UpFresh(K(0), up)
    BY DEF FreshInv
  <2>2. (\A m : K(m) \subseteq Nat) /\ K(l) \subseteq K(0)
    BY KnownSeqs, KnownBut
  <2> HIDE DEF K
  <2>3. Under(K(0), b.next)
    BY <1>1, <1>2, <2>1 DEF UpFresh
  <2> QED BY <1>7, <1>9, <2>2, <2>3 DEF UpFresh
<1>11. UpSound(v) /\ Flows(u, v, rest) /\ News(u, v, rest)
  <2>1. UpSound(g.u) /\ Flows(u, g.u, g.out)
    BY <1>7, <1>8, FlushFlows
  <2>2. News(u, g.u, g.out)
    BY <1>7, <1>8, <1>9, FlushNews
  <2> QED BY <2>1, <2>2
<1> HIDE DEF v, rest
<1>12. /\ rest \in Seq(ToApp) /\ v.sock = n /\ v.sink = l
       /\ \A i \in DOMAIN rest : /\ rest[i].op \in {"gap", "line", "live"}
                                 /\ IsLine(rest[i]) => rest[i].sock = n
  BY <1>7, <1>11 DEF Flows, News, Awakens
<1> DEFINE out == h \o rest
<1>13. /\ out \in Seq(ToApp) /\ Dialed(out, n)
       /\ \A q : Carries(out, n, q) => \E i \in DOMAIN rest : IsLine(rest[i]) /\ rest[i].seq = q
  <2>1. /\ out \in Seq(ToApp) /\ DOMAIN h = 1 .. Len(h) /\ DOMAIN rest = 1 .. Len(rest)
        /\ Len(h) \in Nat /\ Len(rest) \in Nat /\ DOMAIN out = 1 .. Len(h) + Len(rest)
        /\ \A i \in 1 .. Len(h) : out[i] = h[i]
        /\ \A i \in 1 .. Len(h) + Len(rest) :
              i > Len(h) => i - Len(h) \in 1 .. Len(rest) /\ out[i] = rest[i - Len(h)]
    BY <1>5, <1>12, Joined
  <2> HIDE DEF out
  <2>2. ASSUME NEW i \in DOMAIN out
        PROVE  \/ i \in DOMAIN h /\ out[i] = h[i]
               \/ i - Len(h) \in DOMAIN rest /\ out[i] = rest[i - Len(h)]
    BY <2>1
  <2>3. ASSUME NEW i \in DOMAIN out, Starts(out[i]) \/ IsLine(out[i]) PROVE out[i].sock <= n
    <3>1. out[i].sock = n
      BY <1>5, <1>12, <2>2, <2>3 DEF Starts
    <3> QED BY <1>1, <3>1
  <2>4. ASSUME NEW q, Carries(out, n, q)
        PROVE  \E i \in DOMAIN rest : IsLine(rest[i]) /\ rest[i].seq = q
    <3>1. PICK i \in DOMAIN out : IsLine(out[i]) /\ out[i].seq = q
      BY <2>4 DEF Carries
    <3> QED BY <1>5, <2>2, <3>1
  <2> QED BY <2>1, <2>3, <2>4 DEF Dialed
<1>14. UpFresh(K(0) \union {q \in Seqs : Carries(out, n, q)}, v)
  <2> DEFINE K2 == K(0) \union {q \in Seqs : Carries(out, n, q)}
  <2>1. \A q \in K2 : q \in K(0) \/ \E i \in DOMAIN rest : IsLine(rest[i]) /\ rest[i].seq = q
    BY <1>13
  <2>2. u.sink # 0
    BY <1>1, <1>7
  <2> HIDE DEF K2, K, out, n
  <2>3. UpFresh(K2, v)
    BY <1>7, <1>8, <1>10, <1>11, <2>1, <2>2, UpFreshNews
  <2> QED BY <2>3 DEF K2
<1>15. ASSUME ls[l].appEnd
       PROVE  Written(ls[l].toApp \o out, apps[links[l].owner], K(l), v)
  <2> DEFINE t == ls[l].toApp
             p == apps[links[l].owner]
             w == t \o h
  <2>1. t \in Seq(ToApp) /\ OnlyHeld(t) /\ p.st # "up" /\ p.todo = {}
    BY <1>15 DEF Asks, Calm
  <2>2. Under(K(l), Edge(u)) /\ K(l) \subseteq Nat
    <3> HIDE DEF K
    <3> QED BY <1>10, UnderLess
  <2> HIDE DEF t, p, K
  <2>3. t \o out = w \o rest
    BY <1>5, <1>12, <2>1, Regroup
  <2> HIDE DEF out
  <2>4. OneVoice(t, p) /\ SinkNew(K(l), t, p, u)
    BY <2>1, HeldIsNew
  <2>5. \A i \in DOMAIN t : ~Starts(t[i])
    BY <2>1 DEF OnlyHeld, Starts
  <2>6. w \in Seq(ToApp)
    BY <1>5, <2>1, Joined
  <2>7. OneVoice(w, p) /\ SinkNew(K(l), w, p, u)
    BY <1>5, <1>7, <2>1, <2>4, <2>5, StartGrows
  <2> HIDE DEF w
  <2>8. v.sock = u.sock
    BY <1>7, <1>12
  <2>9. OneVoice(w \o rest, p) /\ SinkNew(K(l), w \o rest, p, v)
    BY <1>8, <1>11, <1>12, <2>2, <2>6, <2>7, <2>8, NewsGrows
  <2> QED BY <2>3, <2>9 DEF Written, t, p
<1>16. links' = Deliver(ls, l, out) /\ up' = v /\ up'.sink = l /\ up'.sock = n /\ up.sock <= n
  BY <1>1, <1>6, <1>12
<1> HIDE DEF out, n
<1> QED BY <1>1, <1>13, <1>14, <1>15, <1>16, FreshWrites DEF K

\* What a process that asks is in, and what is on its way to it.
LEMMA AskerIs ==
    ASSUME IInv, FreshInv, NEW l \in Links, links[l].engEnd, links[l].toEng # <<>>,
           Head(links[l].toEng).op = "connect", NEW ls, ls = Heard(l)
    PROVE  /\ Asks(ls[l]) /\ ls \in [Links -> Link] /\ ls[l].engEnd
           /\ \A m \in Links : Calm(links[m], ls[m])
<1>1. /\ ls \in [Links -> Link] /\ (\A m \in Links : Stays(links[m], ls[m]))
      /\ links[l].appEnd => apps[links[l].owner].st = "asking"
  BY Reading
<1>2. /\ \A m \in Links : Calm(links[m], ls[m])
      /\ ls[l].toApp = links[l].toApp /\ ls[l].owner = links[l].owner
      /\ ls[l].appEnd = links[l].appEnd
  BY <1>1, HeardCalm
<1>3. links[l] \in Link /\ links[l].toEng \in Seq(ToEng) /\ links[l].toApp \in Seq(ToApp)
  BY InTurnIs, LinkIs
<1>4. 1 \in Connects(links[l].toEng)
  BY <1>3, LenProperties, HeadTailProperties DEF Connects
<1>5. ASSUME links[l].appEnd
      PROVE  OnlyHeld(links[l].toApp) /\ apps[links[l].owner].todo = {}
  <2>1. links[l].owner \in Apps
    <3>1. links[l].owner # 0
      BY <1>5 DEF IInv, Placed
    <3> QED BY <1>3, <3>1 DEF Link
  <2>2. Sane(apps[links[l].owner]) /\ InTurn(l)
    BY <2>1 DEF IInv
  <2>3. apps[links[l].owner].todo = {}
    BY <1>1, <1>5, <2>2 DEF Sane
  <2>4. Talk(links[l], apps[links[l].owner].st, up.sink = l, up.st = "open")
    BY <1>5, <2>2 DEF InTurn
  <2>5. OnlyHeld(links[l].toApp)
    BY <1>4, <2>4 DEF Talk
  <2> QED BY <2>3, <2>5
<1>6. ls[l].engEnd
  BY <1>1 DEF Stays
<1> QED BY <1>1, <1>2, <1>3, <1>5, <1>6 DEF Asks

\* EngineServer.connect
LEMMA ConnectFresh ==
    ASSUME IInv, IInv', FreshInv, NEW l \in Links, links[l].engEnd, links[l].toEng # <<>>,
           Head(links[l].toEng).op = "connect", NEW ls, ls = Heard(l),
           Connect(l, ls), UNCHANGED <<apps, log>>
    PROVE  FreshInv'
<1> DEFINE ls1 == Superseded(ls, l)
<1>1. /\ Asks(ls[l]) /\ ls \in [Links -> Link] /\ ls[l].engEnd
      /\ \A m \in Links : Calm(links[m], ls[m])
  BY AskerIs
<1>2. \A m \in Links : Quiet(links[m], ls[m])
  BY HeardQuiet
<1>3. ls1 \in [Links -> Link] /\ (\A m \in Links : Calm(links[m], ls1[m])) /\ ls1[l] = ls[l]
  BY <1>1, <1>2, SupersededCalm, SupersededQuiet
<1>4. UpSound(up) /\ up.sock \in Nat /\ UpFresh(Known(log, apps, links, 0, up.sock), up)
  BY FreshIs
<1>c. \/ links' = Deliver(ls, l, <<Op("detached")>>) /\ UNCHANGED up
      \/ /\ up.st = "dialing"
         /\ up' = [up EXCEPT !.sink = l, !.sent = 0, !.stalled = FALSE]
         /\ links' = Deliver(ls1, l, <<Op("dialing")>>)
      \/ /\ Registered
         /\ \E f \in AttachOutcomes(l) : up' = f.u /\ links' = Deliver(ls1, l, f.out)
      \/ up' = Dialing(up.sock + 1, l) /\ links' = Deliver(ls1, l, <<Op("dialing")>>)
  BY DEF Connect
<1> HIDE DEF ls1
<1>5. CASE links' = Deliver(ls, l, <<Op("detached")>>) /\ UNCHANGED up
  <2>1. \A m \in Links : Calm(links[m], links'[m])
    BY <1>1, <1>5, ThenCalm
  <2>2. /\ up'.sock = up.sock /\ up'.sink = up.sink /\ up'.liveAfter = up.liveAfter
        /\ UpFresh(Known(log, apps, links, 0, up.sock), up')
    BY <1>4, <1>5
  <2> QED BY <2>1, <2>2, FreshCalm
<1>6. CASE /\ up.st = "dialing"
           /\ up' = [up EXCEPT !.sink = l, !.sent = 0, !.stalled = FALSE]
           /\ links' = Deliver(ls1, l, <<Op("dialing")>>)
  <2> DEFINE K == Known(log, apps, links, 0, up.sock)
  <2>1. /\ up'.sink = l /\ up'.sent = 0 /\ up'.st = "dialing" /\ up'.sock = up.sock
        /\ up'.buf = up.buf /\ up'.liveAfter = up.liveAfter
    BY <1>4, <1>6 DEF UpSound, Upstream
  <2>2. K \subseteq Seqs /\ K \subseteq Nat
    BY KnownSeqs
  <2>3. UpFresh(K, up)
    BY <1>4
  <2> HIDE DEF K
  <2>4. up.buf = EmptyBuffer /\ up.liveAfter = 0 /\ Under(K, up.buf.next)
    BY <1>4, <1>6, <2>3 DEF UpSound, UpFresh
  <2>5. \A q \in K : q < 1
    BY <2>4 DEF Under, EmptyBuffer
  <2>6. K = {}
    <3>1. \A q \in K : q \in Nat /\ q # 0
      BY <2>2, Bounds
    <3>2. \A q \in K : FALSE
      BY <2>5, <3>1
    <3> QED BY <3>2
  <2> QED BY <1>1, <1>3, <1>4, <1>6, <2>1, <2>4, <2>6, DialingFresh DEF K
<1>7. CASE /\ Registered
           /\ \E f \in AttachOutcomes(l) : up' = f.u /\ links' = Deliver(ls1, l, f.out)
  <2>1. PICK f \in AttachOutcomes(l) : up' = f.u /\ links' = Deliver(ls1, l, f.out)
    BY <1>7
  <2> QED BY <1>1, <1>3, <1>7, <2>1, AttachFresh
<1>8. CASE up' = Dialing(up.sock + 1, l) /\ links' = Deliver(ls1, l, <<Op("dialing")>>)
  <2> DEFINE n == up.sock + 1
  <2>1. n \in Nat /\ n > up.sock /\ up.sock <= n
    BY <1>4
  <2> HIDE DEF n
  <2>2. Known(log, apps, links, 0, n) = {}
    BY <2>1, NothingKnown
  <2>3. /\ up'.sink = l /\ up'.sent = 0 /\ up'.st = "dialing" /\ up'.sock = n
        /\ up'.buf = EmptyBuffer /\ up'.liveAfter = 0
    BY <1>8 DEF Dialing, NoUpstream, n
  <2> QED BY <1>1, <1>3, <1>8, <2>1, <2>2, <2>3, DialingFresh
<1> QED BY <1>c, <1>5, <1>6, <1>7, <1>8

\* EngineServer.dispatch
LEMMA ReadsFresh == ASSUME IInv, IInv', FreshInv, NEW l \in Links, EngineReads(l) PROVE FreshInv'
<1> DEFINE frame == Head(links[l].toEng)
           ls == Heard(l)
<1>1. /\ links[l].engEnd /\ links[l].toEng # <<>> /\ UNCHANGED <<apps, log>>
      /\ \/ /\ links' = IF Registered /\ up.sink = 0
                        THEN Deliver(ls, l, <<Op("held")>>) ELSE ls
            /\ UNCHANGED up
         \/ frame.op = "connect" /\ Connect(l, ls)
         \/ /\ frame.op = "ack" /\ links' = ls
            /\ UNCHANGED up \/ up' = [up EXCEPT !.buf = Acked(@, frame.seq)]
         \/ LetGo(l, ls)
  BY DEF EngineReads, Heard
<1>2. /\ ls \in [Links -> Link] /\ frame \in ToEng
      /\ \A m \in Links : Calm(links[m], ls[m])
  <2>1. ls = Heard(l)
    OBVIOUS
  <2> HIDE DEF ls
  <2>2. ls \in [Links -> Link] /\ frame \in ToEng
    BY <1>1, <2>1, Reading
  <2> QED BY <2>1, <2>2, HeardCalm
<1>3. UpSound(up) /\ UpFresh(Known(log, apps, links, 0, up.sock), up)
  BY FreshIs
<1>s. ls = Heard(l)
  OBVIOUS
<1> HIDE DEF ls
<1>4. CASE frame.op = "connect" /\ Connect(l, ls)
  BY <1>1, <1>4, <1>s, ConnectFresh
<1>5. ASSUME UNCHANGED up, \A m \in Links : Calm(links[m], links'[m]) PROVE FreshInv'
  <2>1. /\ up'.sock = up.sock /\ up'.sink = up.sink /\ up'.liveAfter = up.liveAfter
        /\ UpFresh(Known(log, apps, links, 0, up.sock), up')
    BY <1>3, <1>5
  <2> QED BY <1>1, <1>5, <2>1, FreshCalm
<1>6. CASE links' = ls /\ UNCHANGED up
  BY <1>2, <1>5, <1>6
<1>7. CASE links' = Deliver(ls, l, <<Op("held")>>) /\ UNCHANGED up
  <2>1. \A m \in Links : Calm(links[m], links'[m])
    BY <1>2, <1>7, ThenCalm
  <2> QED BY <1>5, <1>7, <2>1
<1>8. CASE LetGo(l, ls)
  BY <1>1, <1>2, <1>8, LetGoFresh
<1>9. CASE frame.op = "ack" /\ links' = ls /\ up' = [up EXCEPT !.buf = Acked(@, frame.seq)]
  <2> DEFINE b == Acked(up.buf, frame.seq)
  <2>1. Held(up.buf) /\ frame.seq \in Nat
    BY <1>2, <1>3, <1>9, Bounds DEF ToEng, UpSound
  <2>2. Held(b) /\ LastSeq(b) = LastSeq(up.buf) /\ b.first >= up.buf.first
    BY <2>1, AckedHeld
  <2>3. up' = [up EXCEPT !.buf = b]
    BY <1>9
  <2> HIDE DEF b
  <2>4. up.buf.first \in Nat /\ b.first \in Nat /\ up.buf.next \in Nat /\ b.next \in Nat
    BY <2>1, <2>2, HeldIs
  <2>5. up.buf.first <= b.first /\ up.buf.next <= b.next
    BY <2>2, <2>4 DEF LastSeq
  <2>6. \A m \in Links : Calm(links[m], links'[m])
    BY <1>2, <1>9
  <2> QED BY <1>1, <2>2, <2>3, <2>5, <2>6, BacklogFresh
<1> QED BY <1>1, <1>4, <1>6, <1>7, <1>8, <1>9

-----------------------------------------------------------------------------
(* Steps of a process, and what becomes known by them.                     *)

\* A process changes, and perhaps the links and the rows with it.
LEMMA KnownLess ==
    ASSUME NEW a \in Apps, apps \in [Apps -> Process], NEW p, NEW ap, ap = [apps EXCEPT ![a] = p],
           NEW ls, NEW rows, NEW l, NEW n,
           \A q \in Seqs : p.link # l /\ InHand(p, n, q) => q \in Known(log, apps, links, l, n),
           \A m \in Links, q \in Seqs :
               m # l /\ Carries(ls[m].toApp, n, q) => Carries(links[m].toApp, n, q),
           \A i \in DOMAIN rows : rows[i].sock = n /\ rows[i].seq \in Seqs =>
               rows[i].seq \in Known(log, apps, links, l, n)
    PROVE  Known(rows, ap, ls, l, n) \subseteq Known(log, apps, links, l, n)
<1> DEFINE K == Known(log, apps, links, l, n)
<1> SUFFICES ASSUME NEW q \in Known(rows, ap, ls, l, n) PROVE q \in K
  OBVIOUS
<1>1. q \in Seqs
  BY DEF Known
<1>2. CASE \E i \in DOMAIN rows : rows[i].sock = n /\ rows[i].seq = q
  BY <1>1, <1>2
<1>3. CASE \E b \in Apps : ap[b].link # l /\ InHand(ap[b], n, q)
  <2>1. PICK b \in Apps : ap[b].link # l /\ InHand(ap[b], n, q)
    BY <1>3
  <2>2. CASE b = a
    BY <1>1, <2>1, <2>2
  <2>3. CASE b # a
    <3>1. apps[b].link # l /\ InHand(apps[b], n, q)
      BY <2>1, <2>3
    <3> QED BY <1>1, <3>1 DEF Known
  <2> QED BY <2>2, <2>3
<1>4. CASE \E m \in Links : m # l /\ Carries(ls[m].toApp, n, q)
  BY <1>1, <1>4 DEF Known
<1> HIDE DEF K
<1> QED BY <1>2, <1>3, <1>4 DEF Known

\* What is to be shown of a step in which process a becomes p.
LEMMA AppFresh ==
    ASSUME IInv, IInv', FreshInv, up' = up, NEW a \in Apps, NEW p, apps' = [apps EXCEPT ![a] = p],
           p.sock <= up.sock, \A i \in DOMAIN log' : log'[i].sock <= up.sock,
           \A m \in Links : Dialed(links'[m].toApp, up.sock),
           \A m \in Links : m # p.link /\ links'[m].appEnd => links'[m] = links[m],
           \A l \in {0} \union Links : l = 0 \/ l # p.link =>
               Known(log', apps', links', l, up.sock) \subseteq Known(log, apps, links, l, up.sock),
           \A m \in Links : m = p.link =>
               /\ OneVoice(links'[m].toApp, p)
               /\ up.sink = m =>
                     SinkNew(Known(log', apps', links', m, up.sock), links'[m].toApp, p, up)
    PROVE  FreshInv'
<1> DEFINE n == up.sock
           K(l) == Known(log, apps, links, l, n)
           K2(l) == Known(log', apps', links', l, n)
<1>1. apps \in [Apps -> Process] /\ apps'[a] = p /\ \A b \in Apps : b # a => apps'[b] = apps[b]
  BY AppIs
<1>2. UpFresh(K2(0), up)
  <2>1. UpFresh(K(0), up) /\ K2(0) \subseteq K(0)
    BY DEF FreshInv
  <2> HIDE DEF K, K2
  <2> QED BY <2>1, UnderLess DEF UpFresh
<1>3. ASSUME NEW m \in Links, links'[m].appEnd
      PROVE  /\ OneVoice(links'[m].toApp, apps'[links'[m].owner])
             /\ up.sink = m => SinkNew(K2(m), links'[m].toApp, apps'[links'[m].owner], up)
  <2>1. links'[m].owner \in Apps /\ apps'[links'[m].owner].link = m
    <3>1. links'[m].owner # 0 /\ apps'[links'[m].owner].link = m /\ links' \in [Links -> Link]
      BY <1>3 DEF IInv, Placed, Typed
    <3> QED BY <3>1 DEF Link
  <2>2. CASE m = p.link
    <3>1. apps'[a].link # 0
      BY <1>1, <2>2, Bounds
    <3>2. links'[apps'[a].link].owner = a
      BY <3>1 DEF IInv, Placed
    <3>3. links'[m].owner = a
      BY <1>1, <2>2, <3>2
    <3> QED BY <1>1, <2>2, <3>3
  <2>3. CASE m # p.link
    <3>1. links'[m] = links[m]
      BY <1>3, <2>3
    <3>2. apps'[links'[m].owner] = apps[links[m].owner]
      BY <1>1, <2>1, <2>3, <3>1
    <3> DEFINE t == links[m].toApp
               q == apps[links[m].owner]
    <3>3. /\ t \in Seq(ToApp) /\ OneVoice(t, q)
          /\ up.sink = m => SinkNew(K(m), t, q, up)
      BY <1>3, <3>1, FreshIs
    <3>4. K2(m) \subseteq K(m)
      BY <2>3
    <3> HIDE DEF t, q, K, K2
    <3>5. up.sink = m => SinkNew(K2(m), t, q, up)
      <4>1. Keeps(t, t)
        BY DEF Keeps
      <4> QED BY <3>3, <3>4, <4>1, NewKeeps
    <3> QED BY <3>1, <3>2, <3>3, <3>5 DEF t, q
  <2> QED BY <2>2, <2>3
<1>4. \A b \in Apps : apps'[b].sock <= n
  BY <1>1 DEF FreshInv
<1> QED BY <1>2, <1>3, <1>4 DEF FreshInv

\* A process opens its end of a link.
LEMMA OpensLinkFresh ==
    ASSUME IInv, IInv', FreshInv, NEW a \in Apps, nLinks < MaxLinks, NEW first \in {"connect", "hello"},
           links' = [links EXCEPT ![nLinks + 1] = NewLink(a, first)],
           NEW p, apps' = [apps EXCEPT ![a] = p], p.link = nLinks + 1,
           p.st # "up", p.todo = {}, p.sock = apps[a].sock, up' = up, log' = log
    PROVE  FreshInv'
<1> DEFINE k == NewLink(a, first)
<1>1. nLinks \in Nat /\ links \in [Links -> Link] /\ nLinks + 1 \in Links
      /\ apps \in [Apps -> Process]
  <2>1. nLinks \in Nat /\ links \in [Links -> Link] /\ apps \in [Apps -> Process]
    BY AppIs, InTurnIs
  <2> QED BY <2>1, Bounds DEF Links
<1>2. k.toApp = <<>>
  BY DEF NewLink
<1> HIDE DEF k
<1>3. links'[nLinks + 1] = k /\ \A m \in Links : m # nLinks + 1 => links'[m] = links[m]
  BY <1>1 DEF k
<1>4. up.sink # nLinks + 1
  <2>1. CASE up.sink = 0
    BY <1>1, <2>1
  <2>2. CASE up.sink # 0
    <3>1. up.sink \in Links /\ links[up.sink].engEnd
      BY <2>2, InTurnIs
    <3>2. up.sink <= nLinks /\ up.sink \in Nat
      BY <3>1, Bounds DEF IInv, Placed
    <3> QED BY <1>1, <3>2
  <2> QED BY <2>1, <2>2
<1>5. OneVoice(links'[nLinks + 1].toApp, p) /\ Dialed(links'[nLinks + 1].toApp, up.sock)
      /\ \A n, q : ~Carries(links'[nLinks + 1].toApp, n, q)
  BY <1>2, <1>3 DEF OneVoice, Dialed, Carries
<1>6. ASSUME NEW m \in Links PROVE Dialed(links'[m].toApp, up.sock)
  BY <1>3, <1>5, FreshIs
<1>7. ASSUME NEW l
      PROVE  Known(log', apps', links', l, up.sock) \subseteq Known(log, apps, links, l, up.sock)
  <2>1. \A q \in Seqs : p.link # l /\ InHand(p, up.sock, q)
                          => q \in Known(log, apps, links, l, up.sock)
    BY DEF InHand
  <2>2. \A m \in Links, q \in Seqs : m # l /\ Carries(links'[m].toApp, up.sock, q)
                                       => Carries(links[m].toApp, up.sock, q)
    BY <1>3, <1>5
  <2>3. \A i \in DOMAIN log : log[i].sock = up.sock /\ log[i].seq \in Seqs
                                => log[i].seq \in Known(log, apps, links, l, up.sock)
    BY DEF Known
  <2> QED BY <1>1, <2>1, <2>2, <2>3, KnownLess
<1>8. p.sock <= up.sock /\ \A i \in DOMAIN log' : log'[i].sock <= up.sock
  BY DEF FreshInv
<1> QED BY <1>3, <1>4, <1>5, <1>6, <1>7, <1>8, AppFresh

LEMMA BootFresh == ASSUME IInv, IInv', FreshInv, NEW a \in Apps, Boot(a) PROVE FreshInv'
<1> DEFINE p == [apps[a] EXCEPT !.st = "asking", !.link = nLinks + 1]
<1>1. /\ nLinks < MaxLinks /\ links' = [links EXCEPT ![nLinks + 1] = NewLink(a, "connect")]
      /\ apps' = [apps EXCEPT ![a].st = "asking", ![a].link = nLinks + 1]
      /\ up' = up /\ log' = log /\ apps[a].st = "unborn"
  BY DEF Boot
<1>2. apps[a] \in Process /\ apps \in [Apps -> Process] /\ apps[a].todo = {}
  BY <1>1, AppIs DEF Sane
<1>3. apps' = [apps EXCEPT ![a] = p] /\ p.link = nLinks + 1
      /\ p.todo = {} /\ p.sock = apps[a].sock /\ p.st # "up"
  BY <1>1, <1>2 DEF Process
<1> HIDE DEF p
<1> QED BY <1>1, <1>3, OpensLinkFresh

LEMMA RelinkFresh == ASSUME IInv, IInv', FreshInv, NEW a \in Apps, Relink(a) PROVE FreshInv'
<1> DEFINE p == [apps[a] EXCEPT !.st = "asking", !.link = nLinks + 1]
           q == [apps[a] EXCEPT !.link = nLinks + 1]
<1>1. nLinks < MaxLinks /\ up' = up /\ log' = log /\ apps[a].st # "up"
  BY DEF Relink
<1>2. apps[a] \in Process /\ apps \in [Apps -> Process] /\ apps[a].todo = {}
  BY <1>1, AppIs DEF Sane
<1>3. CASE /\ links' = [links EXCEPT ![nLinks + 1] = NewLink(a, "connect")]
           /\ apps' = [apps EXCEPT ![a].st = "asking", ![a].link = nLinks + 1]
  <2>1. apps' = [apps EXCEPT ![a] = p] /\ p.link = nLinks + 1
        /\ p.todo = {} /\ p.sock = apps[a].sock /\ p.st # "up"
    BY <1>2, <1>3 DEF Process
  <2> HIDE DEF p
  <2> QED BY <1>1, <1>3, <2>1, OpensLinkFresh
<1>4. CASE /\ links' = [links EXCEPT ![nLinks + 1] = NewLink(a, "hello")]
           /\ apps' = [apps EXCEPT ![a].link = nLinks + 1]
  <2>1. apps' = [apps EXCEPT ![a] = q] /\ q.link = nLinks + 1
        /\ q.todo = {} /\ q.sock = apps[a].sock /\ q.st # "up"
    BY <1>1, <1>2, <1>4 DEF Process
  <2> HIDE DEF q
  <2> QED BY <1>1, <1>4, <2>1, OpensLinkFresh
<1> QED BY <1>3, <1>4 DEF Relink

\* A process asks over its link.
LEMMA AsksFresh ==
    ASSUME IInv, IInv', FreshInv, NEW a \in Apps, NEW f \in ToEng,
           links' = Ask(links, apps[a].link, f), NEW p, apps' = [apps EXCEPT ![a] = p],
           p.link = apps[a].link, p.sock = apps[a].sock, p.todo = apps[a].todo,
           p.at = apps[a].at, p.under = apps[a].under, p.catching = apps[a].catching,
           (p.st = "up") = (apps[a].st = "up"), up' = up, log' = log
    PROVE  FreshInv'
<1>1. links \in [Links -> Link] /\ p.link \in {0} \union Links /\ apps \in [Apps -> Process]
  BY AppIs, InTurnIs
<1>2. \A m \in Links : links'[m].toApp = links[m].toApp /\ (m # p.link => links'[m] = links[m])
  <2> DEFINE d == Ask(links, p.link, f)
  <2>1. /\ \A m \in Links : m # p.link \/ ~links[m].engEnd => d[m] = links[m]
        /\ \A m \in Links : m = p.link /\ links[m].engEnd =>
              Wrote(links[m], d[m], links[m].toApp, Append(links[m].toEng, f))
    BY <1>1, AsksOne
  <2>2. links' = d
    OBVIOUS
  <2> HIDE DEF d
  <2> QED BY <2>1, <2>2 DEF Wrote
<1>3. ASSUME NEW l
      PROVE  Known(log', apps', links', l, up.sock) \subseteq Known(log, apps, links, l, up.sock)
  <2>1. \A q \in Seqs : p.link # l /\ InHand(p, up.sock, q)
                          => q \in Known(log, apps, links, l, up.sock)
    BY DEF InHand, Known
  <2>2. \A m \in Links, q \in Seqs : m # l /\ Carries(links'[m].toApp, up.sock, q)
                                       => Carries(links[m].toApp, up.sock, q)
    BY <1>2
  <2>3. \A i \in DOMAIN log : log[i].sock = up.sock /\ log[i].seq \in Seqs
                                => log[i].seq \in Known(log, apps, links, l, up.sock)
    BY DEF Known
  <2> QED BY <1>1, <2>1, <2>2, <2>3, KnownLess
<1>4. ASSUME NEW m \in Links, m = p.link
      PROVE  /\ OneVoice(links'[m].toApp, p)
             /\ up.sink = m =>
                   SinkNew(Known(log', apps', links', m, up.sock), links'[m].toApp, p, up)
  <2> DEFINE K == Known(log, apps, links, m, up.sock)
             K2 == Known(log', apps', links', m, up.sock)
             t == links[m].toApp
             q == apps[a]
  <2>1. links[m].appEnd /\ links[m].owner = a
    BY <1>4, AppIs
  <2>2. /\ t \in Seq(ToApp) /\ OneVoice(t, q)
        /\ up.sink = m => SinkNew(K, t, q, up)
    BY <2>1, FreshIs
  <2>3. K2 \subseteq K /\ links'[m].toApp = t
    BY <1>2, <1>3
  <2> HIDE DEF K, K2, t
  <2>4. OneVoice(t, p)
    BY <2>2 DEF OneVoice
  <2>5. ASSUME up.sink = m PROVE SinkNew(K2, t, p, up)
    <3>1. SinkNew(K2, t, q, up)
      <4>1. Keeps(t, t)
        BY DEF Keeps
      <4> HIDE DEF q
      <4> QED BY <2>2, <2>3, <2>5, <4>1, NewKeeps
    <3>2. Awake(p) = Awake(q)
      BY DEF Awake
    <3> QED BY <3>1, <3>2 DEF SinkNew
  <2> QED BY <2>3, <2>4, <2>5 DEF K2
<1>5. /\ p.sock <= up.sock /\ \A i \in DOMAIN log' : log'[i].sock <= up.sock
      /\ \A m \in Links : Dialed(links'[m].toApp, up.sock)
  BY <1>2 DEF FreshInv
<1> QED BY <1>2, <1>3, <1>4, <1>5, AppFresh

LEMMA RedialFresh == ASSUME IInv, IInv', FreshInv, NEW a \in Apps, Redial(a) PROVE FreshInv'
<1> DEFINE p == [apps[a] EXCEPT !.st = "asking"]
           f == Op("connect")
<1>1. /\ apps' = [apps EXCEPT ![a].st = "asking"] /\ links' = Ask(links, apps[a].link, f)
      /\ up' = up /\ log' = log /\ apps[a].st = "redial"
  BY DEF Redial
<1>2. apps[a] \in Process /\ apps \in [Apps -> Process]
  BY AppIs
<1>3. /\ apps' = [apps EXCEPT ![a] = p] /\ p.link = apps[a].link /\ p.sock = apps[a].sock
      /\ p.todo = apps[a].todo /\ p.at = apps[a].at /\ p.under = apps[a].under
      /\ p.catching = apps[a].catching /\ p.st = "asking"
  BY <1>1, <1>2 DEF Process
<1>4. f \in ToEng
  BY DEF Op, ToEng
<1> HIDE DEF p, f
<1>5. (p.st = "up") = (apps[a].st = "up")
  BY <1>1, <1>3
<1> QED BY <1>1, <1>3, <1>4, <1>5, AsksFresh

LEMMA SendAckFresh == ASSUME IInv, IInv', FreshInv, NEW a \in Apps, SendAck(a) PROVE FreshInv'
<1> DEFINE p == [apps[a] EXCEPT !.ackSeq = 0]
           f == [op |-> "ack", seq |-> apps[a].ackSeq]
<1>1. /\ apps' = [apps EXCEPT ![a].ackSeq = 0] /\ links' = Ask(links, apps[a].link, f)
      /\ up' = up /\ log' = log /\ apps[a].ackSeq # 0
  BY DEF SendAck
<1>2. apps[a] \in Process /\ apps \in [Apps -> Process]
  BY AppIs
<1>3. /\ apps' = [apps EXCEPT ![a] = p] /\ p.link = apps[a].link /\ p.sock = apps[a].sock
      /\ p.todo = apps[a].todo /\ p.at = apps[a].at /\ p.under = apps[a].under
      /\ p.catching = apps[a].catching /\ p.st = apps[a].st
  BY <1>1, <1>2 DEF Process
<1>4. f \in ToEng
  BY <1>1, <1>2 DEF ToEng, Process
<1> HIDE DEF p, f
<1> QED BY <1>1, <1>3, <1>4, AsksFresh

\* A process leaves its link.
LEMMA LeavesFresh ==
    ASSUME IInv, IInv', FreshInv, NEW a \in Apps, NEW p, NEW st, p = [NoApp EXCEPT !.st = st],
           apps' = [apps EXCEPT ![a] = p], up' = up, log' = log,
           \A m \in Links : m # apps[a].link => links'[m] = links[m],
           \A m \in Links : m = apps[a].link => ~links'[m].appEnd
    PROVE  FreshInv'
<1>1. p.link = 0 /\ p.sock = 0 /\ p.todo = {}
  BY DEF NoApp
<1>2. \A m \in Links : m # p.link
  BY <1>1, Bounds
<1>3. \A m \in Links : links'[m] = links[m] \/ links'[m].toApp = <<>>
  BY DEF IInv, Placed
<1>4. ASSUME NEW m \in Links
      PROVE  /\ Dialed(links'[m].toApp, up.sock)
             /\ \A n, q : Carries(links'[m].toApp, n, q) => Carries(links[m].toApp, n, q)
  <2>1. CASE links'[m] = links[m]
    BY <2>1, FreshIs
  <2>2. CASE links'[m].toApp = <<>>
    BY <2>2 DEF Dialed, Carries
  <2> QED BY <1>3, <2>1, <2>2
<1>5. apps \in [Apps -> Process]
  BY AppIs
<1>6. ASSUME NEW l
      PROVE  Known(log', apps', links', l, up.sock) \subseteq Known(log, apps, links, l, up.sock)
  <2>1. \A q \in Seqs : p.link # l /\ InHand(p, up.sock, q)
                          => q \in Known(log, apps, links, l, up.sock)
    BY <1>1 DEF InHand
  <2>2. \A m \in Links, q \in Seqs : m # l /\ Carries(links'[m].toApp, up.sock, q)
                                       => Carries(links[m].toApp, up.sock, q)
    BY <1>4
  <2>3. \A i \in DOMAIN log : log[i].sock = up.sock /\ log[i].seq \in Seqs
                                => log[i].seq \in Known(log, apps, links, l, up.sock)
    BY DEF Known
  <2> QED BY ONLY a \in Apps, apps' = [apps EXCEPT ![a] = p], log' = log,
                  <1>5, <2>1, <2>2, <2>3, KnownLess
<1>7. p.sock <= up.sock /\ \A i \in DOMAIN log' : log'[i].sock <= up.sock
  <2>1. up.sock \in Nat
    BY <1>1, InTurnIs, UpIs, Bounds
  <2> QED BY <1>1, <2>1 DEF FreshInv
<1>8. \A m \in Links : links'[m].appEnd => links'[m] = links[m]
  OBVIOUS
<1> QED BY <1>2, <1>4, <1>6, <1>7, <1>8, AppFresh

LEMMA LinkLostFresh == ASSUME IInv, IInv', FreshInv, NEW a \in Apps, LinkLost(a) PROVE FreshInv'
<1> DEFINE l == apps[a].link
           st == IF apps[a].st = "over" THEN "over" ELSE "linkless"
           p == [NoApp EXCEPT !.st = st]
<1>1. PICK r \in PrefixesOf(links[l].toEng) : links' = Gone(links, l, r)
  BY DEF LinkLost, Gone
<1>2. l # 0 /\ apps' = [apps EXCEPT ![a] = p] /\ up' = up /\ log' = log
  <2> HIDE DEF l
  <2> QED BY DEF LinkLost, l
<1>3. l \in Links /\ links \in [Links -> Link]
  BY <1>2, AppIs, InTurnIs
<1>4. p = [NoApp EXCEPT !.st = st]
  OBVIOUS
<1> HIDE DEF p, st
<1>5. ~links'[l].appEnd /\ \A m \in Links : m # l => links'[m] = links[m]
  BY <1>1, <1>3, GoneIs
<1> QED BY <1>2, <1>4, <1>5, LeavesFresh

LEMMA CrashFresh == ASSUME IInv, IInv', FreshInv, NEW a \in Apps, Crash(a) PROVE FreshInv'
<1> DEFINE l == apps[a].link
           p == [NoApp EXCEPT !.st = "gone"]
<1>1. PICK r \in IF l = 0 THEN {<<>>} ELSE PrefixesOf(links[l].toEng) :
         links' = IF l = 0 THEN links ELSE Gone(links, l, r)
  BY DEF Crash, Gone
<1>2. apps' = [apps EXCEPT ![a] = p] /\ up' = up /\ log' = log
  BY DEF Crash
<1>3. l \in {0} \union Links /\ links \in [Links -> Link] /\ 0 \notin Links
  BY AppIs, InTurnIs
<1>4. p = [NoApp EXCEPT !.st = "gone"]
  OBVIOUS
<1> HIDE DEF p
<1>5. CASE l = 0
  BY <1>1, <1>2, <1>3, <1>4, <1>5, LeavesFresh
<1>6. CASE l # 0
  <2>1. l \in Links /\ links' = Gone(links, l, r)
    BY <1>1, <1>3, <1>6
  <2>2. ~links'[l].appEnd /\ \A m \in Links : m # l => links'[m] = links[m]
    BY <1>3, <2>1, GoneIs
  <2> QED BY <1>2, <1>4, <2>2, LeavesFresh
<1> QED BY <1>5, <1>6

LEMMA ShutdownFresh == ASSUME IInv, IInv', FreshInv, NEW a \in Apps, Shutdown(a) PROVE FreshInv'
<1> DEFINE l == apps[a].link
           p == [NoApp EXCEPT !.st = "gone"]
           f == Op("detach")
           e == Ask(links, l, f)
           d == IF apps[a].st = "up" THEN e ELSE links
<1>1. links' = IF l = 0 THEN links ELSE [d EXCEPT ![l].appEnd = FALSE, ![l].toApp = <<>>]
  BY DEF Shutdown
<1>2. apps' = [apps EXCEPT ![a] = p] /\ up' = up /\ log' = log
  BY DEF Shutdown
<1>3. l \in {0} \union Links /\ links \in [Links -> Link] /\ 0 \notin Links
  BY AppIs, InTurnIs
<1>4. p = [NoApp EXCEPT !.st = "gone"]
  OBVIOUS
<1>5. f \in ToEng
  BY DEF Op, ToEng
<1> HIDE DEF p, f, l
<1>7. e \in [Links -> Link] /\ \A m \in Links : m # l => e[m] = links[m]
  <2>1. e \in [Links -> Link]
    BY ONLY <1>3, <1>5, AsksOne
  <2>2. \A m \in Links : m # l => e[m] = links[m]
    BY ONLY <1>3, <1>5, AsksOne
  <2> QED BY <2>1, <2>2
<1> HIDE DEF e
<1>8. d \in [Links -> Link] /\ \A m \in Links : m # l => d[m] = links[m]
  BY <1>3, <1>7
<1> HIDE DEF d
<1>9. CASE l = 0
  BY <1>1, <1>2, <1>3, <1>4, <1>9, LeavesFresh DEF l
<1>10. CASE l # 0
  <2> DEFINE k == [d[l] EXCEPT !.appEnd = FALSE, !.toApp = <<>>]
  <2>1. l \in Links /\ d[l] \in Link /\ links' = [d EXCEPT ![l] = k]
    BY <1>1, <1>3, <1>8, <1>10
  <2>2. ~k.appEnd
    BY <2>1 DEF Link
  <2> HIDE DEF k
  <2>3. ~links'[l].appEnd /\ \A m \in Links : m # l => links'[m] = links[m]
    BY <1>8, <2>1, <2>2
  <2> QED BY <1>2, <1>4, <2>3, LeavesFresh DEF l
<1> QED BY <1>9, <1>10

\* What becomes of p, with nothing in hand, when it reads f.
Hears(p, q, f) ==
    /\ q.link = p.link
    /\ q.todo # {} => IsLine(f) /\ p.st = "up" /\ q.st = "up" /\ q.sock = p.sock /\ q.at = f.seq
    /\ q.st = "up" => \/ Starts(f) /\ q.sock = f.sock
                      \/ p.st = "up" /\ q.sock = p.sock
    /\ Awake(q) => Awake(p) \/ Wakes(f)
    /\ q.sock \in {0, p.sock} \/ (Starts(f) /\ q.sock = f.sock)

\* What comes after the frame it reads.
LEMMA VoiceHears ==
    ASSUME NEW t \in Seq(ToApp), t # <<>>, NEW p, NEW q, Hears(p, q, Head(t)), OneVoice(t, p)
    PROVE  OneVoice(Tail(t), q)
<1> DEFINE r == Tail(t)
<1>1. /\ r \in Seq(ToApp) /\ Len(t) \in Nat \ {0} /\ DOMAIN t = 1 .. Len(t)
      /\ DOMAIN r = 1 .. Len(t) - 1 /\ \A i \in 1 .. Len(t) - 1 : r[i] = t[i + 1]
  BY LenProperties, HeadTailProperties
<1>2. Head(t) = t[1]
  BY HeadTailProperties
<1> HIDE DEF r
<1>3. \A i \in DOMAIN r : i \in Nat /\ i >= 1 /\ i + 1 \in DOMAIN t /\ r[i] = t[i + 1]
  BY <1>1
<1>4. 1 \in DOMAIN t
  BY <1>1
<1>5. ASSUME NEW i \in DOMAIN r, NEW j \in DOMAIN r, i < j, Starts(r[i]) PROVE ~Anew(r[j])
  <2>1. i + 1 < j + 1
    BY <1>3, <1>5
  <2> QED BY <1>3, <1>5, <2>1 DEF OneVoice
<1>6. ASSUME q.st = "up", NEW i \in DOMAIN r PROVE ~Anew(r[i])
  <2>1. CASE Starts(t[1])
    <3>1. 1 < i + 1
      BY <1>3
    <3> QED BY <1>3, <1>4, <2>1, <3>1 DEF OneVoice
  <2>2. CASE p.st = "up"
    BY <1>3, <2>2 DEF OneVoice
  <2> QED BY <1>2, <1>6, <2>1, <2>2 DEF Hears
<1>7. ASSUME NEW i \in DOMAIN r, IsLine(r[i])
      PROVE  /\ q.st = "up" => r[i].sock = q.sock
             /\ \A j \in 1 .. i - 1 : Starts(r[j]) => r[j].sock = r[i].sock
  <2>1. /\ p.st = "up" => t[i + 1].sock = p.sock
        /\ \A j \in 1 .. i + 1 - 1 : Starts(t[j]) => t[j].sock = t[i + 1].sock
    BY <1>3, <1>7 DEF OneVoice
  <2>2. 1 \in 1 .. i + 1 - 1
    BY <1>3
  <2>3. q.st = "up" => r[i].sock = q.sock
    BY <1>2, <1>3, <2>1, <2>2 DEF Hears
  <2>4. ASSUME NEW j \in 1 .. i - 1, Starts(r[j]) PROVE r[j].sock = r[i].sock
    <3>1. j \in DOMAIN r /\ j + 1 \in 1 .. i + 1 - 1
      BY <1>1, <1>3
    <3> QED BY <1>3, <2>1, <2>4, <3>1
  <2> QED BY <2>3, <2>4
<1> QED BY <1>5, <1>6, <1>7 DEF OneVoice, r

LEMMA NewHears ==
    ASSUME NEW t \in Seq(ToApp), t # <<>>, NEW p, NEW q, Hears(p, q, Head(t)),
           NEW K, NEW K2, K2 \subseteq K, NEW u, SinkNew(K, t, p, u)
    PROVE  SinkNew(K2, Tail(t), q, u)
<1> DEFINE r == Tail(t)
<1>1. /\ r \in Seq(ToApp) /\ Len(t) \in Nat \ {0} /\ DOMAIN t = 1 .. Len(t) /\ Len(r) = Len(t) - 1
      /\ DOMAIN r = 1 .. Len(t) - 1 /\ \A i \in 1 .. Len(t) - 1 : r[i] = t[i + 1]
  BY LenProperties, HeadTailProperties
<1>2. Head(t) = t[1]
  BY HeadTailProperties
<1> HIDE DEF r
<1>3. \A i \in DOMAIN r : i \in Nat /\ i >= 1 /\ i + 1 \in DOMAIN t /\ r[i] = t[i + 1]
  BY <1>1
<1>4. 1 \in DOMAIN t
  BY <1>1
<1>5. ASSUME NEW i \in 1 .. Len(t), Live(r, Awake(q), i) PROVE Live(t, Awake(p), i + 1)
  <2>1. CASE Awake(q)
    <3>1. 1 \in 1 .. i + 1 - 1
      BY <1>1
    <3> QED BY <1>2, <2>1, <3>1 DEF Hears, Live
  <2>2. CASE \E j \in 1 .. i - 1 : Wakes(r[j])
    <3>1. PICK j \in 1 .. i - 1 : Wakes(r[j])
      BY <2>2
    <3>2. j \in DOMAIN r /\ j + 1 \in 1 .. i + 1 - 1
      BY <1>1
    <3> QED BY <1>3, <3>1, <3>2 DEF Live
  <2> QED BY <1>5, <2>1, <2>2 DEF Live
<1>6. \A i \in DOMAIN r : Starts(r[i]) => r[i].sock = u.sock
  BY <1>3 DEF SinkNew
<1>7. q.st = "up" => q.sock = u.sock
  BY <1>2, <1>4 DEF Hears, SinkNew
<1>8. ASSUME NEW i \in DOMAIN r, IsLine(r[i]), Live(r, Awake(q), i) PROVE Under(K2, r[i].seq)
  <2>1. i \in 1 .. Len(t)
    BY <1>1
  <2>2. Live(t, Awake(p), i + 1)
    BY <1>5, <1>8, <2>1
  <2>3. Under(K, t[i + 1].seq)
    BY <1>3, <1>8, <2>2 DEF SinkNew
  <2> QED BY <1>3, <2>3, UnderLess
<1>9. ASSUME q.todo # {}, ~q.catching PROVE Under(K2, q.at)
  <2>1. IsLine(t[1]) /\ q.at = t[1].seq /\ Awake(q)
    BY <1>2, <1>9 DEF Hears, Awake
  <2>2. Awake(p)
    BY <1>2, <2>1 DEF Hears, IsLine, Wakes
  <2>3. Under(K, t[1].seq)
    BY <1>4, <2>1, <2>2 DEF SinkNew, Live
  <2> QED BY <2>1, <2>3, UnderLess
<1>10. ASSUME u.liveAfter # 0 PROVE ~Live(r, Awake(q), Len(r) + 1)
  <2>1. Len(r) + 1 = Len(t) /\ Len(t) \in 1 .. Len(t)
    BY <1>1
  <2>2. ~Live(t, Awake(p), Len(t) + 1)
    BY <1>10 DEF SinkNew
  <2> QED BY <1>5, <2>1, <2>2
<1> QED BY <1>6, <1>7, <1>8, <1>9, <1>10 DEF SinkNew, r

\* A process that reads a frame.
LEMMA TakesFresh ==
    ASSUME IInv, IInv', FreshInv, NEW a \in Apps, NEW l, l = apps[a].link, l # 0, links[l].toApp # <<>>,
           up' = up, log' = log, NEW q, apps' = [apps EXCEPT ![a] = q],
           Hears(apps[a], q, Head(links[l].toApp)),
           \A m \in Links : m # l => links'[m] = links[m],
           links'[l].toApp = Tail(links[l].toApp)
    PROVE  FreshInv'
<1> DEFINE t == links[l].toApp
           p == apps[a]
           f == Head(t)
           n == up.sock
           K(m) == Known(log, apps, links, m, n)
           K2(m) == Known(log', apps', links', m, n)
<1>1. /\ l \in Links /\ links[l].appEnd /\ links[l].owner = a /\ q.link = l
      /\ apps \in [Apps -> Process] /\ p.sock \in {0} \union Socks
  BY AppIs DEF Hears, Process
<1>2. /\ t \in Seq(ToApp) /\ t # <<>> /\ OneVoice(t, p) /\ Dialed(t, n) /\ n \in Nat
      /\ up.sink = l => SinkNew(K(l), t, p, up)
  BY <1>1, FreshIs
<1>3. /\ Tail(t) \in Seq(ToApp) /\ DOMAIN t = 1 .. Len(t) /\ Len(t) \in Nat \ {0}
      /\ DOMAIN Tail(t) = 1 .. Len(t) - 1 /\ (\A i \in 1 .. Len(t) - 1 : Tail(t)[i] = t[i + 1])
      /\ f = t[1] /\ 1 \in DOMAIN t
  <2> HIDE DEF t
  <2> QED BY <1>2, LenProperties, HeadTailProperties
<1>4. \A i \in DOMAIN Tail(t) : i + 1 \in DOMAIN t /\ Tail(t)[i] = t[i + 1]
  <2> HIDE DEF t
  <2> QED BY <1>3
<1>h. Hears(p, q, f)
  OBVIOUS
<1>5. links'[l].toApp = Tail(t)
  OBVIOUS
<1> HIDE DEF t, f
<1>6. /\ Dialed(Tail(t), n)
      /\ \A x, y : Carries(Tail(t), x, y) => Carries(t, x, y)
  BY <1>2, <1>4 DEF Dialed, Carries
<1>7. ASSUME NEW m, m # l PROVE K2(m) \subseteq K(m)
  <2>1. ASSUME NEW x \in Seqs, InHand(q, n, x) PROVE x \in K(m)
    <3>1. IsLine(f) /\ p.st = "up" /\ q.sock = p.sock /\ x = f.seq /\ p.sock = n
      BY <1>h, <2>1 DEF Hears, InHand
    <3>2. f.sock = n
      BY <1>2, <1>3, <3>1 DEF OneVoice
    <3>3. Carries(links[l].toApp, n, x)
      BY <1>3, <3>1, <3>2 DEF Carries, t
    <3> QED BY <1>1, <1>7, <3>3 DEF Known
  <2>2. ASSUME NEW k \in Links, NEW x, Carries(links'[k].toApp, n, x)
        PROVE  Carries(links[k].toApp, n, x)
    BY <1>5, <1>6, <2>2 DEF t
  <2>3. \A i \in DOMAIN log' : log'[i].sock = n /\ log'[i].seq \in Seqs => log'[i].seq \in K(m)
    BY DEF Known
  <2> QED BY ONLY a \in Apps, apps' = [apps EXCEPT ![a] = q], <1>1, <2>1, <2>2, <2>3, KnownLess
<1>8. K2(l) \subseteq K(l)
  <2>1. \A x \in Seqs : q.link # l /\ InHand(q, n, x) => x \in K(l)
    BY <1>1
  <2>2. \A k \in Links, x \in Seqs : k # l /\ Carries(links'[k].toApp, n, x)
                                       => Carries(links[k].toApp, n, x)
    OBVIOUS
  <2>3. \A i \in DOMAIN log' : log'[i].sock = n /\ log'[i].seq \in Seqs => log'[i].seq \in K(l)
    BY DEF Known
  <2> QED BY ONLY a \in Apps, apps' = [apps EXCEPT ![a] = q], <1>1, <2>1, <2>2, <2>3, KnownLess
<1>9. q.sock <= n
  <2>1. p.sock <= n /\ 0 <= n
    BY <1>2 DEF FreshInv
  <2>2. Starts(f) => f.sock <= n
    BY <1>2, <1>3 DEF Dialed
  <2> QED BY <1>h, <2>1, <2>2 DEF Hears
<1>10. OneVoice(Tail(t), q) /\ (up.sink = l => SinkNew(K2(l), Tail(t), q, up))
  <2>1. OneVoice(Tail(t), q)
    BY <1>2, <1>h, VoiceHears DEF f
  <2>2. up.sink = l => SinkNew(K2(l), Tail(t), q, up)
    <3> HIDE DEF K, K2
    <3> QED BY <1>2, <1>8, <1>h, NewHears DEF f
  <2> QED BY <2>1, <2>2
<1>11. \A m \in Links : m = q.link =>
          /\ OneVoice(links'[m].toApp, q)
          /\ up.sink = m => SinkNew(Known(log', apps', links', m, up.sock), links'[m].toApp, q, up)
  BY <1>1, <1>5, <1>10 DEF K2, n
<1>12. \A m \in Links : Dialed(links'[m].toApp, up.sock)
  BY <1>5, <1>6, FreshIs DEF n
<1>13. \A m \in {0} \union Links : m = 0 \/ m # q.link =>
          Known(log', apps', links', m, up.sock) \subseteq Known(log, apps, links, m, up.sock)
  <2>1. 0 # l
    OBVIOUS
  <2> QED BY <1>1, <1>7, <2>1 DEF K, K2, n
<1>14. \A i \in DOMAIN log' : log'[i].sock <= up.sock
  BY DEF FreshInv
<1>15. \A m \in Links : m # q.link /\ links'[m].appEnd => links'[m] = links[m]
  BY <1>1
<1> HIDE DEF K, K2, n, p
<1> QED BY <1>9, <1>11, <1>12, <1>13, <1>14, <1>15, AppFresh DEF n

\* EngineTransport.onFrame, for each kind of frame: a process is up, and on which
\* socket, by the frames that say so; it is past the catch-up from `live' on.
LEMMA FrameHears ==
    ASSUME IInv, NEW a \in Apps, apps[a].link # 0, links[apps[a].link].toApp # <<>>,
           NEW f, f = Head(links[apps[a].link].toApp), apps[a].todo = {}, OnFrame(a, f)
    PROVE  \E q : apps' = [apps EXCEPT ![a] = q] /\ Hears(apps[a], q, f)
<1> DEFINE p == apps[a]
<1>1. p \in Process /\ apps \in [Apps -> Process] /\ p.todo = {}
  BY AppIs
<1>2. f.op = "line" => p.st = "up"
  BY FrameIs
<1> DEFINE Step(q) == apps' = [apps EXCEPT ![a] = q] /\ Hears(p, q, f)
<1> SUFFICES \E q : Step(q)
  OBVIOUS
<1>3. ASSUME NEW st, st # "up", NEW q, q = Ended(p, st), apps' = [apps EXCEPT ![a] = q]
      PROVE  Step(q)
  <2>1. q.link = p.link /\ q.todo = {} /\ q.st = st /\ q.sock = 0
    BY <1>3 DEF Ended, NoApp
  <2> QED BY <1>3, <2>1 DEF Hears, Awake
<1>4. ASSUME NEW q, apps' = [apps EXCEPT ![a] = q], q.link = p.link, q.st = "up", q.todo = {},
             Starts(f), q.sock = f.sock, q.catching \/ Wakes(f)
      PROVE  Step(q)
  BY <1>4 DEF Hears, Awake
<1>5. ASSUME NEW q, apps' = [apps EXCEPT ![a] = q], q.link = p.link, q.st = p.st, q.sock = p.sock,
             q.todo = {} \/ (IsLine(f) /\ p.st = "up" /\ q.at = f.seq),
             q.catching = p.catching \/ Wakes(f)
      PROVE  Step(q)
  BY <1>5 DEF Hears, Awake
<1>6. CASE f.op = "dialing" /\ apps' = [apps EXCEPT ![a] = Ended(p, "asking")]
  <2> HIDE DEF Step
  <2> QED BY <1>3, <1>6
<1>7. CASE f.op = "detached" /\ apps' = [apps EXCEPT ![a] = Ended(p, "over")]
  <2> HIDE DEF Step
  <2> QED BY <1>3, <1>7
<1>8. CASE f.op = "closed" /\ apps' = [apps EXCEPT ![a] = Ended(p, "redial")]
  <2> HIDE DEF Step
  <2> QED BY <1>3, <1>8
<1>9. CASE f.op = "open" /\ apps' = [apps EXCEPT ![a].st = "up", ![a].sock = f.sock]
  <2> DEFINE q == [p EXCEPT !.st = "up", !.sock = f.sock]
  <2>1. apps' = [apps EXCEPT ![a] = q] /\ q.link = p.link /\ q.st = "up" /\ q.todo = {}
        /\ q.sock = f.sock /\ Starts(f) /\ Wakes(f)
    BY <1>1, <1>9 DEF Process, Starts, Wakes
  <2> HIDE DEF q, Step
  <2> QED BY <1>4, <2>1
<1>10. CASE f.op = "attached"
            /\ apps' = [apps EXCEPT ![a] = [Ended(p, "up") EXCEPT !.sock = f.sock,
                                               !.catching = TRUE, !.maxRow = Len(log)]]
  <2> DEFINE q == [Ended(p, "up") EXCEPT !.sock = f.sock, !.catching = TRUE, !.maxRow = Len(log)]
  <2>1. apps' = [apps EXCEPT ![a] = q] /\ Starts(f)
    BY <1>10 DEF Starts
  <2>2. q.link = p.link /\ q.st = "up" /\ q.todo = {} /\ q.sock = f.sock /\ q.catching
    BY DEF Ended, NoApp
  <2> HIDE DEF q, Step
  <2> QED BY <1>4, <2>1, <2>2
<1>11. CASE f.op = "line" /\ apps' = [apps EXCEPT ![a] = Delivering(p, f.seq)]
  <2> DEFINE s     == f.seq
             q     == Delivering(p, s)
             rows  == RowsFor(p, s)
             known == IF InOpenBatch(s) THEN p.known \union {s} ELSE p.known \ (BatchStart[s] .. s)
  <2>1. q = IF rows = {} THEN [p EXCEPT !.known = known, !.ackSeq = s]
                         ELSE [p EXCEPT !.known = known, !.at = s, !.todo = rows]
    BY DEF Delivering
  <2> HIDE DEF rows, known, q
  <2>2. q.link = p.link /\ q.st = p.st /\ q.sock = p.sock /\ q.catching = p.catching
        /\ (q.todo = {} \/ q.at = s)
    BY <1>1, <2>1 DEF Process
  <2>3. apps' = [apps EXCEPT ![a] = q] /\ IsLine(f) /\ p.st = "up"
    BY <1>2, <1>11 DEF q, IsLine
  <2>4. Step(q)
    BY <1>5, <2>2, <2>3
  <2> HIDE DEF Step
  <2> QED BY <2>4
<1>12. CASE f.op = "gap" /\ UNCHANGED apps
  <2>1. apps' = [apps EXCEPT ![a] = p]
    BY <1>1, <1>12
  <2>2. Step(p)
    BY <1>1, <1>5, <2>1
  <2> HIDE DEF Step, p
  <2> QED BY <2>2
<1>13. CASE f.op = "live" /\ apps' = [apps EXCEPT ![a].catching = FALSE, ![a].maxRow = 0]
  <2> DEFINE q == [p EXCEPT !.catching = FALSE, !.maxRow = 0]
  <2>1. apps' = [apps EXCEPT ![a] = q] /\ q.link = p.link /\ q.st = p.st /\ q.sock = p.sock
        /\ q.todo = {} /\ Wakes(f)
    BY <1>1, <1>13 DEF Process, Wakes
  <2> HIDE DEF q, Step
  <2> QED BY <1>5, <2>1
<1> HIDE DEF Step
<1> QED BY <1>6, <1>7, <1>8, <1>9, <1>10, <1>11, <1>12, <1>13 DEF OnFrame

LEMMA AppReadsFresh == ASSUME IInv, IInv', FreshInv, NEW a \in Apps, AppReads(a) PROVE FreshInv'
<1> DEFINE l == apps[a].link
           p == apps[a]
           f == Head(links[l].toApp)
           ls == Took(l)
<1>1. l # 0 /\ links[l].toApp # <<>> /\ up' = up /\ log' = log /\ p.todo = {}
  BY DEF AppReads
<1>2. p \in Process /\ apps \in [Apps -> Process] /\ l \in Links
  BY <1>1, AppIs
<1>3. /\ ls \in [Links -> Link]
      /\ \A m \in Links : m # l => ls[m] = links[m]
      /\ ls[l].toApp = Tail(links[l].toApp)
  BY <1>1, <1>2, TookIs DEF Wrote
<1>4. CASE f.op = "held" /\ p.st = "over"
  <2> DEFINE q == [p EXCEPT !.st = "asking"]
             o == Op("connect")
             d == Ask(ls, l, o)
  <2>1. links' = d /\ apps' = [apps EXCEPT ![a] = q]
    BY <1>2, <1>4 DEF AppReads, Took
  <2>2. q.link = l /\ q.sock = p.sock /\ q.todo = {} /\ q.st = "asking"
    BY <1>1, <1>2 DEF Process
  <2> HIDE DEF q
  <2>3. Hears(p, q, f)
    BY <2>2 DEF Hears, Awake
  <2>4. o \in ToEng
    BY DEF Op, ToEng
  <2> HIDE DEF ls, o, l
  <2>5. \A m \in Links : m # l \/ ~ls[m].engEnd => d[m] = ls[m]
    BY ONLY <1>2, <1>3, <2>4, AsksOne
  <2>6. \A m \in Links : m = l /\ ls[m].engEnd =>
            Wrote(ls[m], d[m], ls[m].toApp, Append(ls[m].toEng, o))
    BY ONLY <1>2, <1>3, <2>4, AsksOne
  <2> HIDE DEF d
  <2>7. links'[l].toApp = Tail(links[l].toApp) /\ \A m \in Links : m # l => links'[m] = links[m]
    BY <1>2, <1>3, <2>1, <2>5, <2>6 DEF Wrote
  <2>8. l = apps[a].link /\ l # 0 /\ links[l].toApp # <<>> /\ up' = up /\ log' = log
        /\ Hears(apps[a], q, Head(links[l].toApp)) /\ apps' = [apps EXCEPT ![a] = q]
    BY <1>1, <2>1, <2>3 DEF l
  <2> QED BY ONLY IInv, IInv', FreshInv, a \in Apps, <2>7, <2>8, TakesFresh
<1>5. CASE ~(f.op = "held" /\ p.st = "over")
  <2>1. /\ links' = ls
        /\ \/ (f.op = "held" \/ p.st \notin {"asking", "up"}) /\ UNCHANGED apps
           \/ OnFrame(a, f)
    BY <1>5 DEF AppReads, Took
  <2>2. links'[l].toApp = Tail(links[l].toApp) /\ \A m \in Links : m # l => links'[m] = links[m]
    BY <1>3, <2>1
  <2>3. \E q : apps' = [apps EXCEPT ![a] = q] /\ Hears(p, q, f)
    <3>1. CASE UNCHANGED apps
      <4>1. apps' = [apps EXCEPT ![a] = p] /\ Hears(p, p, f)
        BY <1>1, <1>2, <3>1 DEF Hears
      <4> QED BY <4>1
    <3>2. CASE OnFrame(a, f)
      <4> HIDE DEF f
      <4> QED BY <1>1, <3>2, FrameHears DEF f
    <3> QED BY <2>1, <3>1, <3>2
  <2>4. PICK q : apps' = [apps EXCEPT ![a] = q] /\ Hears(p, q, f)
    BY <2>3
  <2> QED BY ONLY IInv, IInv', FreshInv, a \in Apps, <1>1, <2>2, <2>4, TakesFresh
<1> QED BY <1>4, <1>5

\* The lines still to be read by a process that is up are past what it has in
\* hand: nothing starts over before them.
LEMMA HandIsBelow ==
    ASSUME IInv, OrderInv, FreshInv, NEW a \in Apps, apps[a].st = "up"
    PROVE  \A i \in DOMAIN links[apps[a].link].toApp :
               IsLine(links[apps[a].link].toApp[i]) =>
                   apps[a].at < links[apps[a].link].toApp[i].seq
<1> DEFINE l == apps[a].link
           t == links[l].toApp
           p == apps[a]
<1>1. /\ l \in Links /\ links[l].appEnd /\ links[l].owner = a
      /\ Talk(links[l], p.st, up.sink = l, up.st = "open")
  BY AppIs DEF Sane
<1>2. t \in Seq(ToApp) /\ Rising(t, Floor(p)) /\ OneVoice(t, p)
  BY <1>1, OrderIs, FreshIs
<1>3. \A i, j \in DOMAIN t : t[i].op \in {"detached", "closed"} /\ i < j => t[j].op = "held"
  BY <1>1 DEF Talk
<1>4. DOMAIN t = 1 .. Len(t) /\ Len(t) \in Nat
  BY <1>2, LenProperties
<1>5. p.at \in Floor(p) /\ p.st = "up"
  BY DEF Floor
<1> HIDE DEF t, p
<1>6. ASSUME NEW i \in DOMAIN t, IsLine(t[i]) PROVE p.at < t[i].seq
  <2>1. ASSUME NEW j \in 0 + 1 .. i - 1 PROVE ~Resets(t[j])
    <3>1. j \in DOMAIN t /\ j < i
      BY <1>4
    <3>2. ~Anew(t[j])
      BY <1>2, <1>5, <3>1 DEF OneVoice
    <3>3. t[j].op \notin {"detached", "closed"}
      BY <1>3, <1>6, <3>1 DEF IsLine
    <3> QED BY <3>2, <3>3 DEF Anew, Resets
  <2>2. Clear(t, 0, i)
    BY <2>1 DEF Clear
  <2> QED BY <1>2, <1>5, <1>6, <2>2 DEF Rising
<1> QED BY <1>6 DEF t, p

\* IrcConnection.publish, for one row: the line was in hand before it was stored,
\* and what the process is yet to read is past it.
LEMMA StoreRowFresh ==
    ASSUME IInv, IInv', OrderInv, FreshInv, NEW a \in Apps, StoreRow(a)
    PROVE  FreshInv'
<1> DEFINE p     == apps[a]
           row   == [sock |-> p.sock, seq |-> p.at, part |-> Min(p.todo)]
           store == ~AlreadyPersisted(p, row) /\ ~RefusedByMark(p)
           last  == p.todo = {Min(p.todo)}
           q     == [p EXCEPT !.todo = @ \ {Min(@)}, !.under = IF store THEN p.at ELSE @,
                              !.at = IF last THEN 0 ELSE @, !.ackSeq = IF last THEN p.at ELSE @]
           k     == Min(p.todo)
           n     == up.sock
           s     == p.at
           l     == p.link
           K(m)  == Known(log, apps, links, m, n)
           K2(m) == Known(log', apps', links', m, n)
<1>1. p \in Process /\ Sane(p) /\ apps \in [Apps -> Process] /\ log \in Seq(Row) /\ Len(log) \in Nat
  BY AppIs
<1>2. /\ p.todo # {} /\ up' = up /\ links' = links /\ p.st = "up" /\ l # 0
      /\ log' = (IF store THEN Append(log, row) ELSE log)
  BY <1>1 DEF StoreRow, Sane
<1>3. apps' = [apps EXCEPT ![a] = q]
  BY <1>1 DEF StoreRow
<1>4. p.sock \in Socks /\ s \in Seqs /\ row.sock = p.sock /\ row.seq = s
  BY <1>1, <1>2 DEF Sane, Process
<1>5. /\ q.link = l /\ q.st = "up" /\ q.sock = p.sock /\ q.catching = p.catching
      /\ q.under = (IF store THEN s ELSE p.under)
      /\ q.todo # {} => q.at = s
  <2> HIDE DEF store
  <2> QED BY <1>1, <1>2 DEF Process
<1>6. l \in Links /\ links[l].appEnd /\ links[l].owner = a /\ 0 \notin Links
  BY <1>2, AppIs
<1> HIDE DEF store, row, q, last, k
<1>7. \A i \in DOMAIN log' : (i \in DOMAIN log /\ log'[i] = log[i])
                             \/ (store /\ log'[i].sock = p.sock /\ log'[i].seq = s)
  <2>1. CASE store
    <3> DEFINE e == Len(log)
    <3>1. log' = Append(log, row) /\ DOMAIN log = 1 .. e
      BY <1>1, <1>2, <2>1
    <3>2. row \in Row \/ row \notin Row
      OBVIOUS
    <3>3. Len(log') = e + 1 /\ DOMAIN log' = 1 .. e + 1
          /\ \A i \in 1 .. e : log'[i] = log[i]
      BY <1>1, <3>1
    <3>4. log'[e + 1] = row
      BY <1>1, <3>1
    <3> HIDE DEF e
    <3>5. e \in Nat
      BY <1>1 DEF e
    <3>6. ASSUME NEW i \in DOMAIN log'
          PROVE  (i \in DOMAIN log /\ log'[i] = log[i])
                 \/ (store /\ log'[i].sock = p.sock /\ log'[i].seq = s)
      <4>1. CASE i = e + 1
        BY <1>4, <2>1, <3>4, <4>1
      <4>2. CASE i # e + 1
        BY <3>1, <3>3, <3>5, <4>2
      <4> QED BY <4>1, <4>2
    <3> QED BY <3>6
  <2>2. CASE ~store
    BY <1>2, <2>2
  <2> QED BY <2>1, <2>2
<1>8. n \in Nat /\ p.sock <= n
  BY <1>6, FreshIs DEF FreshInv
<1>9. ASSUME NEW i \in DOMAIN log' PROVE log'[i].sock <= n
  BY <1>7, <1>8, <1>9 DEF FreshInv
<1>10. ASSUME NEW m, m # l PROVE K2(m) \subseteq K(m)
  <2>1. ASSUME NEW x \in Seqs, InHand(q, n, x) PROVE x \in K(m)
    <3>1. InHand(p, n, x)
      BY <1>2, <1>5, <2>1 DEF InHand
    <3> QED BY <1>10, <3>1 DEF Known
  <2>2. ASSUME NEW i \in DOMAIN log', log'[i].sock = n, log'[i].seq \in Seqs
        PROVE  log'[i].seq \in K(m)
    <3>1. CASE i \in DOMAIN log /\ log'[i] = log[i]
      BY <2>2, <3>1 DEF Known
    <3>2. CASE log'[i].sock = p.sock /\ log'[i].seq = s
      <4>1. InHand(p, n, s)
        BY <1>2, <2>2, <3>2 DEF InHand
      <4> QED BY <1>4, <1>10, <3>2, <4>1 DEF Known
    <3> QED BY <1>7, <3>1, <3>2
  <2>3. \A o \in Links, x \in Seqs : o # m /\ Carries(links'[o].toApp, n, x)
                                       => Carries(links[o].toApp, n, x)
    BY <1>2
  <2> QED BY ONLY a \in Apps, <1>1, <1>3, <2>1, <2>2, <2>3, KnownLess
<1>11. \A x \in K2(l) : x \in K(l) \/ (store /\ x = s)
  <2> SUFFICES ASSUME NEW x \in K2(l) PROVE x \in K(l) \/ (store /\ x = s)
    OBVIOUS
  <2>1. x \in Seqs
    BY DEF Known
  <2>2. CASE \E i \in DOMAIN log' : log'[i].sock = n /\ log'[i].seq = x
    BY <1>7, <2>1, <2>2 DEF Known
  <2>3. CASE \E b \in Apps : apps'[b].link # l /\ InHand(apps'[b], n, x)
    <3>1. PICK b \in Apps : apps'[b].link # l /\ InHand(apps'[b], n, x)
      BY <2>3
    <3>2. b # a
      BY <1>1, <1>3, <1>5, <3>1
    <3>3. apps'[b] = apps[b]
      BY <1>1, <1>3, <3>2
    <3> QED BY <2>1, <3>1, <3>3 DEF Known
  <2>4. CASE \E m \in Links : m # l /\ Carries(links'[m].toApp, n, x)
    BY <1>2, <2>1, <2>4 DEF Known
  <2> QED BY <2>2, <2>3, <2>4 DEF Known
<1> DEFINE t == links[l].toApp
<1>12. /\ t \in Seq(ToApp) /\ OneVoice(t, p)
       /\ up.sink = l => SinkNew(K(l), t, p, up)
  BY <1>6, FreshIs
<1>13. \A i \in DOMAIN t : IsLine(t[i]) => s < t[i].seq
  BY <1>2, HandIsBelow
<1> HIDE DEF K, K2, t
<1>14. OneVoice(t, q)
  BY <1>2, <1>5, <1>12 DEF OneVoice
<1>15. ASSUME up.sink = l PROVE SinkNew(K2(l), t, q, up)
  <2>1. SinkNew(K(l), t, p, up)
    BY <1>12, <1>15
  <2>2. Awake(q) = Awake(p)
    BY <1>2, <1>5 DEF Awake
  <2>3. ASSUME NEW i \in DOMAIN t, IsLine(t[i]), Live(t, Awake(q), i) PROVE Under(K2(l), t[i].seq)
    <3>1. Under(K(l), t[i].seq) /\ s < t[i].seq
      BY <1>13, <2>1, <2>2, <2>3 DEF SinkNew
    <3> QED BY <1>11, <3>1 DEF Under
  <2>4. ASSUME q.todo # {}, ~q.catching, q.under # q.at PROVE Under(K2(l), q.at)
    <3>1. ~store /\ q.at = s /\ q.under = p.under
      BY <1>5, <2>4
    <3>2. Under(K(l), s)
      BY <1>2, <1>5, <2>1, <2>4, <3>1 DEF SinkNew
    <3> QED BY <1>11, <3>1, <3>2 DEF Under
  <2>5. q.st = "up" => q.sock = up.sock
    BY <1>2, <1>5, <2>1 DEF SinkNew
  <2> QED BY <2>1, <2>2, <2>3, <2>4, <2>5 DEF SinkNew
<1>16. \A m \in Links : m = q.link =>
          /\ OneVoice(links'[m].toApp, q)
          /\ up.sink = m => SinkNew(Known(log', apps', links', m, up.sock), links'[m].toApp, q, up)
  BY <1>2, <1>5, <1>14, <1>15 DEF K2, n, t
<1>17. \A m \in {0} \union Links : m = 0 \/ m # q.link =>
          Known(log', apps', links', m, up.sock) \subseteq Known(log, apps, links, m, up.sock)
  BY <1>2, <1>5, <1>10 DEF K, K2, n
<1>18. /\ q.sock <= up.sock /\ \A i \in DOMAIN log' : log'[i].sock <= up.sock
       /\ \A m \in Links : Dialed(links'[m].toApp, up.sock)
       /\ \A m \in Links : m # q.link /\ links'[m].appEnd => links'[m] = links[m]
  BY <1>2, <1>5, <1>8, <1>9 DEF FreshInv, n
<1> QED BY ONLY IInv, IInv', FreshInv, a \in Apps, <1>2, <1>3, <1>16, <1>17, <1>18, AppFresh

-----------------------------------------------------------------------------
(* What is delivered past `live' is new.                                   *)

LEMMA InitFresh == Init => FreshInv
<1> SUFFICES ASSUME Init PROVE FreshInv
  OBVIOUS
<1>1. /\ apps = [a \in Apps |-> NoApp] /\ links = [l \in Links |-> NoLink]
      /\ log = <<>> /\ up = NoUpstream
  BY DEF Init
<1>2. NoApp.sock = 0 /\ ~NoLink.appEnd /\ NoLink.toApp = <<>>
  BY DEF NoApp, NoLink
<1>3. /\ up.st = "none" /\ up.sock = 0 /\ up.sent = 0 /\ up.liveAfter = 0 /\ up.sink = 0
  BY <1>1 DEF NoUpstream
<1>4. \A l \in Links : ~links[l].appEnd /\ links[l].toApp = <<>>
  BY <1>1, <1>2
<1>5. \A l \in Links : Dialed(links[l].toApp, up.sock)
  BY <1>4 DEF Dialed
<1>6. \A K : UpFresh(K, up)
  BY <1>3 DEF UpFresh
<1>7. (\A i \in DOMAIN log : log[i].sock <= up.sock) /\ \A a \in Apps : apps[a].sock <= up.sock
  BY <1>1, <1>2, <1>3
<1> QED BY <1>4, <1>5, <1>6, <1>7 DEF FreshInv

LEMMA StepFresh == IInv /\ IInv' /\ OrderInv /\ FreshInv /\ [Next]_vars => FreshInv'
<1> SUFFICES ASSUME IInv, IInv', OrderInv, FreshInv, [Next]_vars PROVE FreshInv'
  OBVIOUS
<1>1. CASE EngineStep
  BY <1>1, OpensFresh, ServerLineFresh, SqueezedFresh, DrainFresh, DiesFresh DEF EngineStep
<1>2. ASSUME NEW l \in Links, LinkStep(l) PROVE FreshInv'
  BY <1>2, ReadsFresh, SeesEOFFresh, DropsFresh DEF LinkStep
<1>3. ASSUME NEW a \in Apps, AppStep(a) PROVE FreshInv'
  BY <1>3, BootFresh, RelinkFresh, RedialFresh, LinkLostFresh, CrashFresh, ShutdownFresh,
     AppReadsFresh, StoreRowFresh, SendAckFresh DEF AppStep
<1>4. CASE UNCHANGED vars
  <2>1. up' = up /\ links' = links /\ apps' = apps /\ log' = log
    BY <1>4 DEF vars
  <2> QED BY <2>1 DEF FreshInv, Known
<1> QED BY <1>1, <1>2, <1>3, <1>4 DEF Next

LEMMA FreshIsNew == IInv /\ FreshInv => LiveLinesAreNew
<1> SUFFICES ASSUME IInv, FreshInv, NEW a \in Apps, apps[a].todo # {}, apps[a].under # apps[a].at,
                    ~apps[a].catching, up.sink = apps[a].link,
                    NEW r \in StoredRows, r.sock = apps[a].sock
             PROVE  r.seq < apps[a].at
  BY DEF LiveLinesAreNew
<1> DEFINE l == apps[a].link
           K == Known(log, apps, links, l, up.sock)
<1>1. l \in Links /\ links[l].appEnd /\ links[l].owner = a /\ apps[a].st = "up" /\ log \in Seq(Row)
  BY AppIs DEF Sane
<1>2. SinkNew(K, links[l].toApp, apps[a], up)
  BY <1>1, FreshIs
<1>3. PICK i \in DOMAIN log : log[i] = r
  BY DEF StoredRows, ToSet
<1>4. r \in Row
  BY <1>1, <1>3, ElementOfSeq
<1>5. r.seq \in Seqs
  BY <1>4 DEF Row
<1> HIDE DEF K
<1>6. apps[a].sock = up.sock /\ Under(K, apps[a].at)
  BY <1>1, <1>2 DEF SinkNew
<1>7. r.seq \in K
  BY <1>3, <1>5, <1>6 DEF Known, K
<1> QED BY <1>6, <1>7 DEF Under

\* What the engine delivers past `live' nobody has stored: outside the catch-up
\* window a process need not look whether the row is there
\* (ircConnection.ts:7688-7690).
THEOREM LiveIsNew == Spec => []LiveLinesAreNew
<1>1. Init => IInv /\ OrderInv /\ FreshInv
  BY InitIInv, InitOrder, InitFresh
<1>2. (IInv /\ OrderInv /\ FreshInv) /\ [Next]_vars => (IInv /\ OrderInv /\ FreshInv)'
  BY StepKeeps, StepOrder, StepFresh
<1>3. IInv /\ FreshInv => LiveLinesAreNew
  BY FreshIsNew
<1> QED BY <1>1, <1>2, <1>3, PTL DEF Spec

-----------------------------------------------------------------------------
(* The promise of MessageLog.                                              *)

\* A line in hand has a row, and this process has stored none of it.
Untold(p) == p.todo # {} => RowsAt[p.at] # 0 /\ p.under # p.at

\* Lines leave the backlog on an ack, or are shed.
Trimmed == \A s \in Seqs : s < up.buf.first => <<1, s>> \in hist.acked \union hist.shed

PromiseInv == (\A a \in Apps : Untold(apps[a])) /\ Trimmed

\* A step of MessageLog, or none.
PromisedStep == PromisedLog!LogNext \/ UNCHANGED PromisedLog!logVars

\* A step that stores nothing, sheds nothing and forgets no mark.
LEMMA SaysNothing ==
    ASSUME log' = log, hist'.shed = hist.shed, hist'.forgot = hist.forgot
    PROVE  PromisedStep
BY DEF PromisedStep, PromisedLog!logVars

\* LineBuffer.dropOldest: of the lines shed, those that have rows.
LEMMA ShedsLines ==
    ASSUME hist \in History, log' = log, NEW n \in Socks, NEW S \in SUBSET Seqs, hist' = Note("shed", n, S)
    PROVE  PromisedStep
<1> DEFINE T == {s \in S : RowsAt[s] # 0}
<1>1. hist'.shed = hist.shed \union ({n} \X S) /\ hist'.forgot = hist.forgot
  BY DEF Note, History
<1>2. {e \in hist'.shed : RowsAt[e[2]] # 0} = {e \in hist.shed : RowsAt[e[2]] # 0} \union ({n} \X T)
  <2>1. {e \in {n} \X S : RowsAt[e[2]] # 0} = {n} \X T
    OBVIOUS
  <2> QED BY <1>1, <2>1
<1>3. T \in SUBSET {s \in Seqs : RowsAt[s] # 0}
  OBVIOUS
<1>4. PromisedLog!ShedLines(n, T)
  BY <1>1, <1>2 DEF PromisedLog!ShedLines
<1> HIDE DEF T
<1>5. PromisedLog!LogNext
  BY <1>3, <1>4 DEF PromisedLog!LogNext
<1> QED BY <1>5 DEF PromisedStep

\* pruneEngineMarks
LEMMA ForgetsMarks ==
    ASSUME hist \in History, log' = log, NEW keep,
           hist' = [hist EXCEPT !.forgot = @ \union Forgotten(keep)]
    PROVE  PromisedStep
<1>1. hist'.forgot = hist.forgot \union Forgotten(keep) /\ hist'.shed = hist.shed
  BY DEF History
<1>2. Forgotten(keep) \in SUBSET Socks
  BY DEF Forgotten
<1>3. PromisedLog!Forget(Forgotten(keep))
  BY <1>1 DEF PromisedLog!Forget
<1>4. PromisedLog!LogNext
  BY <1>2, <1>3 DEF PromisedLog!LogNext
<1> QED BY <1>4 DEF PromisedStep

\* A row more: the next line of its socket, or one of a socket forgotten.
LEMMA StoresLine ==
    ASSUME log \in Seq(Row), NEW row \in Row, log' = Append(log, row), RowsAt[row.seq] # 0, hist' = hist,
           \/ row.sock \in hist.forgot
           \/ /\ \A i \in DOMAIN log : log[i].sock = row.sock => log[i].seq < row.seq
              /\ \A t \in Seqs : RowsAt[t] # 0 /\ t < row.seq =>
                    \/ <<row.sock, t>> \in hist.shed
                    \/ \E i \in DOMAIN log : log[i].sock = row.sock /\ log[i].seq = t
    PROVE  PromisedStep
<1> DEFINE rows == [i \in DOMAIN log |-> <<log[i].sock, log[i].seq>>]
           n == row.sock
           s == row.seq
           e == Len(log)
           holes == {h \in hist.shed : RowsAt[h[2]] # 0}
<1>1. /\ e \in Nat /\ DOMAIN log = 1 .. e /\ DOMAIN log' = 1 .. e + 1
      /\ (\A i \in 1 .. e : log'[i] = log[i]) /\ log'[e + 1] = row
  BY AppendProperties, LenProperties
<1>2. n \in Socks /\ s \in Seqs
  BY DEF Row
<1>3. rows' = Append(rows, <<n, s>>)
  <2>1. rows' = [i \in 1 .. e + 1 |-> <<log'[i].sock, log'[i].seq>>]
    BY <1>1
  <2>2. Len(rows) = e
    <3>1. rows = [i \in 1 .. e |-> <<log[i].sock, log[i].seq>>]
      BY <1>1
    <3>2. rows \in Seq(Socks \X Seqs)
      <4>1. \A i \in 1 .. e : log[i].sock \in Socks /\ log[i].seq \in Seqs
        <5>1. \A i \in 1 .. e : log[i] \in Row
          BY <1>1, ElementOfSeq
        <5> QED BY <5>1 DEF Row
      <4> QED BY <1>1, <3>1, <4>1
    <3> QED BY <1>1, <3>1, <3>2, LenProperties
  <2>3. Append(rows, <<n, s>>) = [i \in 1 .. e + 1 |-> IF i = e + 1 THEN <<n, s>> ELSE rows[i]]
    BY <2>2
  <2>4. \A i \in 1 .. e + 1 : <<log'[i].sock, log'[i].seq>> = IF i = e + 1 THEN <<n, s>> ELSE rows[i]
    BY <1>1
  <2> HIDE DEF rows
  <2> QED BY <2>1, <2>3, <2>4
<1>4. CASE n \in hist.forgot
  <2>1. PromisedLog!Repeat(n, s)
    BY <1>3, <1>4 DEF PromisedLog!Repeat
  <2>2. PromisedLog!LogNext
    BY <1>2, <2>1 DEF PromisedLog!LogNext
  <2> QED BY <2>2 DEF PromisedStep
<1>5. CASE /\ \A i \in DOMAIN log : log[i].sock = n => log[i].seq < s
           /\ \A t \in Seqs : RowsAt[t] # 0 /\ t < s =>
                 \/ <<n, t>> \in hist.shed
                 \/ \E i \in DOMAIN log : log[i].sock = n /\ log[i].seq = t
  <2>1. \A t : <<n, t>> \in PromisedLog!Stored <=> \E i \in DOMAIN log : log[i].sock = n /\ log[i].seq = t
    <3>1. PromisedLog!Stored = {rows[i] : i \in DOMAIN log}
      BY DEF PromisedLog!Stored, PromisedLog!ToSet
    <3> QED BY <3>1
  <2>2. \A t \in Seqs : RowsAt[t] # 0 /\ <<n, t>> \in PromisedLog!Stored => t < s
    BY <1>5, <2>1
  <2>3. \A t \in Seqs : RowsAt[t] # 0 /\ t < s => <<n, t>> \in PromisedLog!Stored \union holes
    BY <1>5, <2>1
  <2>4. PromisedLog!Store(n, s)
    <3>1. holes' = holes /\ hist'.forgot = hist.forgot
      OBVIOUS
    <3> QED BY <1>3, <2>2, <2>3, <3>1 DEF PromisedLog!Store
  <2>5. PromisedLog!LogNext
    BY <1>2, <2>4 DEF PromisedLog!LogNext
  <2> QED BY <2>5 DEF PromisedStep
<1> QED BY <1>4, <1>5

-----------------------------------------------------------------------------
(* Lines leave the backlog.                                                *)

LEMMA TrimKeeps ==
    ASSUME Trimmed, hist.acked \subseteq hist'.acked, hist.shed \subseteq hist'.shed,
           \A s \in Seqs : s < up'.buf.first =>
               s < up.buf.first \/ <<1, s>> \in hist'.acked \union hist'.shed
    PROVE  Trimmed'
BY DEF Trimmed

\* What is noted of lines shed or acked.
LEMMA NotedLines ==
    ASSUME hist \in History, NEW n, NEW S
    PROVE  /\ hist' = Note("shed", n, S) => /\ hist'.shed = hist.shed \union ({n} \X S)
                                            /\ hist'.acked = hist.acked
           /\ hist' = Note("acked", n, S) => /\ hist'.acked = hist.acked \union ({n} \X S)
                                             /\ hist'.shed = hist.shed /\ hist'.forgot = hist.forgot
BY DEF Note, History

\* On the one socket the engine's lines are numbered by it.
LEMMA OneSock == ASSUME OneSocketPlain, IInv, up.st # "none" PROVE up.sock = 1 /\ 1 \in Socks
<1>1. up.sock \in Socks
  BY InTurnIs, UpIs
<1>2. Socks = {1}
  BY DEF OneSocketPlain, Socks
<1> QED BY <1>1, <1>2

\* Shedding: LineBuffer.dropOldest.
LEMMA ShedsTrim ==
    ASSUME IInv, OneSocketPlain, up.st = "open", Trimmed, NEW k \in Nat,
           hist' = Note("shed", up.sock, Dropped(up.buf, k)), up'.buf.first = up.buf.first + k
    PROVE  Trimmed'
<1>1. hist \in History /\ up.buf.first \in Nat
  BY InTurnIs, UpIs
<1>2. up.sock = 1
  BY OneSock
<1>3. hist'.shed = hist.shed \union ({1} \X Dropped(up.buf, k)) /\ hist'.acked = hist.acked
  BY <1>1, <1>2, NotedLines
<1>4. ASSUME NEW s \in Seqs, s < up'.buf.first PROVE s < up.buf.first \/ <<1, s>> \in hist'.shed
  <2>1. s \in Nat
    BY Bounds
  <2>2. s < up.buf.first \/ s \in Dropped(up.buf, k)
    BY <1>1, <1>4, <2>1 DEF Dropped
  <2> QED BY <1>3, <2>2
<1> QED BY <1>3, <1>4, TrimKeeps

\* Acks: LineBuffer.ack.
LEMMA AcksTrim ==
    ASSUME IInv, OneSocketPlain, up.st # "none", Trimmed, NEW q \in Nat,
           hist' = Note("acked", up.sock, Released(up.buf, q)),
           up'.buf.first = Acked(up.buf, q).first
    PROVE  Trimmed'
<1>1. /\ hist \in History /\ Held(up.buf) /\ up.buf.first \in Nat \ {0} /\ up.buf.next \in Nat
      /\ up.buf \in BufferType
  BY InTurnIs, UpIs
<1>2. up.sock = 1
  BY OneSock
<1>3. hist'.acked = hist.acked \union ({1} \X Released(up.buf, q)) /\ hist'.shed = hist.shed
  BY <1>1, <1>2, NotedLines
<1>4. Acked(up.buf, q).first = IF q < up.buf.first THEN up.buf.first
                               ELSE IF q < up.buf.next THEN q + 1 ELSE up.buf.next
  BY <1>1 DEF Acked, BufferType
<1>5. ASSUME NEW s \in Seqs, s < up'.buf.first PROVE s < up.buf.first \/ <<1, s>> \in hist'.acked
  <2>1. s \in Nat
    BY Bounds
  <2>2. s < up.buf.first \/ s \in Released(up.buf, q)
    BY <1>1, <1>4, <1>5, <2>1 DEF Released, Pending
  <2> QED BY <1>3, <2>2
<1> QED BY <1>3, <1>5, TrimKeeps

\* Steps of the engine that let go of nothing.
LEMMA SameTrim ==
    ASSUME Trimmed, hist' = hist, up'.buf.first = up.buf.first \/ up'.buf.first = 1
    PROVE  Trimmed'
<1>1. \A s \in Seqs : ~(s < 1)
  BY Bounds
<1> QED BY <1>1, TrimKeeps

LEMMA EngineStepPromise ==
    ASSUME OneSocketPlain, IInv, PromiseInv, EngineStep
    PROVE  PromiseInv' /\ PromisedStep
<1>1. /\ UpSound(up) /\ Held(up.buf) /\ up.buf.first \in Nat /\ hist \in History
      /\ LastSeq(up.buf) \in Nat /\ up \in Upstream
  BY InTurnIs, UpIs DEF UpSound
<1>2. UNCHANGED <<apps, marks, log>> /\ Trimmed
  BY DEF EngineStep, Opens, ServerLine, Squeezed, Drain, SocketDies, PromiseInv
<1>3. \A a \in Apps : Untold(apps'[a])
  BY <1>2 DEF PromiseInv
<1>4. ASSUME Trimmed' PROVE PromiseInv'
  BY <1>3, <1>4 DEF PromiseInv, Untold
<1>5. CASE Opens
  <2>1. up'.buf.first = up.buf.first /\ hist' = hist
    BY <1>1, <1>5 DEF Opens, Upstream
  <2> QED BY <1>2, <1>4, <2>1, SameTrim, SaysNothing
<1>6. CASE ServerLine
  <2>1. PICK k \in ShedCounts(Pushed(up.buf)) :
           /\ hist' = Note("shed", up.sock, Dropped(up.buf, k))
           /\ \E f \in FlushOutcomes([up EXCEPT !.buf = Shed(Pushed(up.buf), k)]) : up' = f.u
    BY <1>6 DEF ServerLine
  <2>2. up.st = "open" /\ LastSeq(up.buf) < MaxSeq
    BY <1>6 DEF ServerLine
  <2> DEFINE b == Shed(Pushed(up.buf), k)
             u == [up EXCEPT !.buf = b]
  <2>3. Held(b) /\ LastSeq(b) = LastSeq(up.buf) + 1 /\ b.first = up.buf.first + k /\ k \in Nat
        /\ Dropped(up.buf, k) \subseteq Seqs
    <3>1. Held(Pushed(up.buf)) /\ LastSeq(Pushed(up.buf)) = LastSeq(up.buf) + 1
      BY <1>1, <2>2, PushedHeld
    <3>2. Pushed(up.buf).first = up.buf.first
      BY <1>1 DEF Pushed, Held, BufferType
    <3>3. Held(b) /\ LastSeq(b) = LastSeq(Pushed(up.buf)) /\ b.first = Pushed(up.buf).first + k
          /\ Dropped(Pushed(up.buf), k) \subseteq Seqs
      BY <3>1, ShedHeld
    <3>4. k \in Nat /\ Dropped(up.buf, k) = Dropped(Pushed(up.buf), k)
      BY <3>2 DEF ShedCounts, Dropped
    <3> QED BY <3>1, <3>2, <3>3, <3>4
  <2> HIDE DEF b
  <2>4. LastSeq(b) >= LastSeq(up.buf)
    BY <1>1, <2>3
  <2>5. UpSound(u) /\ u.st = "open" /\ u.buf = b
    BY <1>1, <2>2, <2>3, <2>4, Rebuffered
  <2>6. PICK f \in FlushOutcomes(u) : up' = f.u
    BY <2>1 DEF b
  <2> HIDE DEF u
  <2>7. up'.buf.first = up.buf.first + k
    BY <2>3, <2>5, <2>6, FlushFlows DEF Flows
  <2>8. Trimmed'
    BY <1>2, <2>1, <2>2, <2>3, <2>7, ShedsTrim
  <2>9. up.sock \in Socks
    BY <2>2, OneSock
  <2>10. PromisedStep
    BY <1>1, <1>2, <2>1, <2>3, <2>9, ShedsLines
  <2> QED BY <1>4, <2>8, <2>10
<1>7. CASE Squeezed
  <2>1. PICK k \in ShedCounts(up.buf) : /\ up' = [up EXCEPT !.buf = Shed(up.buf, k)]
                                        /\ hist' = Note("shed", up.sock, Dropped(up.buf, k))
    BY <1>7 DEF Squeezed
  <2>2. up.st = "open"
    BY <1>7 DEF Squeezed
  <2>3. Shed(up.buf, k).first = up.buf.first + k /\ k \in Nat /\ Dropped(up.buf, k) \subseteq Seqs
    BY <1>1, ShedHeld DEF ShedCounts
  <2>4. up'.buf = Shed(up.buf, k)
    BY <1>1, <2>1 DEF Upstream
  <2>5. Trimmed'
    BY <1>2, <2>1, <2>2, <2>3, <2>4, ShedsTrim
  <2>6. up.sock \in Socks
    BY <2>2, OneSock
  <2>7. PromisedStep
    BY <1>1, <1>2, <2>1, <2>3, <2>6, ShedsLines
  <2> QED BY <1>4, <2>5, <2>7
<1>8. CASE Drain
  <2> DEFINE u == [up EXCEPT !.stalled = FALSE]
  <2>1. PICK f \in FlushOutcomes(u) : up' = f.u
    BY <1>8 DEF Drain
  <2>2. up.st = "open" /\ hist' = hist
    BY <1>1, <1>8 DEF Drain, UpSound
  <2>3. u \in Upstream /\ u.st = up.st /\ u.sock = up.sock /\ u.sink = up.sink /\ u.buf = up.buf
        /\ u.sent = up.sent /\ ~u.stalled
    BY <1>1 DEF Upstream
  <2> HIDE DEF u
  <2>4. UpSound(u)
    BY <1>1, <2>2, <2>3 DEF UpSound
  <2>5. up'.buf.first = up.buf.first
    BY <2>1, <2>2, <2>3, <2>4, FlushFlows DEF Flows
  <2> QED BY <1>2, <1>4, <2>2, <2>5, SameTrim, SaysNothing
<1>9. ~SocketDies
  BY NoSocketDies
<1> QED BY <1>5, <1>6, <1>7, <1>8, <1>9 DEF EngineStep

\* EngineUpstream.attach: the burst is acked.
LEMMA AttachTrims ==
    ASSUME IInv, NEW l \in Links, Registered, NEW f \in AttachOutcomes(l)
    PROVE  f.u.buf.first = Acked(up.buf, BurstEnd).first
<1> DEFINE b == Acked(up.buf, BurstEnd)
           u == [up EXCEPT !.buf = b, !.sink = l, !.sent = BurstEnd,
                           !.stalled = FALSE, !.liveAfter = LiveAfter(b)]
<1>1. UpSound(up) /\ up.st = "open" /\ up.sock \in Socks /\ Held(up.buf)
      /\ LastSeq(up.buf) \in Nat /\ LastSeq(up.buf) >= 1
  BY InTurnIs, UpIs DEF Registered, BurstEnd
<1>2. Held(b) /\ LastSeq(b) = LastSeq(up.buf)
  BY <1>1, AckedHeld DEF BurstEnd
<1>3. LiveAfter(b) \in {0} \union Seqs /\ BurstEnd \in {0} \union Seqs
  <2>1. LastSeq(b) \in {0} \union Seqs
    BY <1>2, HeldIs
  <2>2. 1 \in Seqs
    BY <1>1, <1>2, <2>1, Bounds DEF Seqs
  <2> QED BY <2>1, <2>2 DEF LiveAfter, BurstEnd
<1> DEFINE first == <<[op |-> "attached", sock |-> up.sock]>>
           next  == IF u.liveAfter = 0 THEN <<Op("live")>> ELSE <<>>
<1>4. PICK g \in FlushOutcomes(u) : f = [u |-> g.u, out |-> (first \o next) \o g.out]
  BY DEF AttachOutcomes
<1> HIDE DEF first, next
<1> HIDE DEF b
<1>5. u \in Upstream /\ u.st = "open" /\ u.sock = up.sock /\ u.buf = b /\ u.sink = l
      /\ u.sent = BurstEnd /\ ~u.stalled
  BY <1>1, <1>2, <1>3 DEF UpSound, Upstream, Held
<1> HIDE DEF u
<1>6. UpSound(u)
  <2>1. u.sent <= LastSeq(u.buf) /\ u.sock # 0
    BY <1>1, <1>2, <1>5, Bounds DEF BurstEnd
  <2> QED BY <1>2, <1>5, <2>1 DEF UpSound
<1>7. Flows(u, g.u, g.out)
  BY <1>5, <1>6, FlushFlows
<1> QED BY <1>4, <1>5, <1>7 DEF Flows, b

LEMMA LinkStepPromise ==
    ASSUME OneSocketPlain, IInv, PromiseInv, NEW l \in Links, LinkStep(l)
    PROVE  PromiseInv' /\ PromisedStep
<1>1. /\ UpSound(up) /\ Held(up.buf) /\ up.buf.first \in Nat /\ hist \in History /\ up \in Upstream
  BY InTurnIs, UpIs DEF UpSound
<1>2. UNCHANGED <<apps, marks, log>> /\ Trimmed
  BY DEF LinkStep, EngineReads, EngineSeesEOF, EngineDropsLink, PromiseInv
<1>3. \A a \in Apps : Untold(apps'[a])
  BY <1>2 DEF PromiseInv
<1>4. ASSUME Trimmed' PROVE PromiseInv'
  BY <1>3, <1>4 DEF PromiseInv, Untold
\* Nothing is let go of.
<1>5. ASSUME hist' = hist, up'.buf.first = up.buf.first \/ up'.buf.first = 1
      PROVE  PromiseInv' /\ PromisedStep
  BY <1>2, <1>4, <1>5, SameTrim, SaysNothing
\* An ack lets go of what it covers.
<1>6. ASSUME NEW q \in Nat, up.st # "none", up'.buf.first = Acked(up.buf, q).first,
             hist' = Note("acked", up.sock, Released(up.buf, q))
      PROVE  PromiseInv' /\ PromisedStep
  <2>1. Trimmed'
    BY <1>2, <1>6, AcksTrim
  <2>2. hist'.shed = hist.shed /\ hist'.forgot = hist.forgot
    BY <1>1, <1>6, NotedLines
  <2> QED BY <1>2, <1>4, <2>1, <2>2, SaysNothing
<1>7. ASSUME NEW ls, LetGo(l, ls), hist' = hist PROVE PromiseInv' /\ PromisedStep
  <2>1. up' = up \/ up' = Detached(up)
    BY <1>7 DEF LetGo
  <2>2. up'.buf = up.buf
    BY <1>1, <2>1 DEF Detached, Upstream
  <2> QED BY <1>5, <1>7, <2>2
<1>8. ASSUME NEW ls, Connect(l, ls) PROVE PromiseInv' /\ PromisedStep
  <2>1. CASE UNCHANGED <<up, hist>>
    BY <1>5, <2>1
  <2>2. CASE up' = [up EXCEPT !.sink = l, !.sent = 0, !.stalled = FALSE] /\ UNCHANGED hist
    <3>1. up'.buf = up.buf
      BY <1>1, <2>2 DEF Upstream
    <3> QED BY <1>5, <2>2, <3>1
  <2>3. CASE /\ Registered /\ \E f \in AttachOutcomes(l) : up' = f.u
             /\ hist' = Note("acked", up.sock, Released(up.buf, BurstEnd))
    <3>1. up'.buf.first = Acked(up.buf, BurstEnd).first
      BY <2>3, AttachTrims
    <3>2. up.st # "none" /\ BurstEnd \in Nat
      BY <2>3 DEF Registered, BurstEnd
    <3> QED BY <1>6, <2>3, <3>1, <3>2
  <2>4. CASE up' = Dialing(up.sock + 1, l) /\ UNCHANGED hist
    <3>1. up'.buf.first = 1
      BY <2>4 DEF Dialing, NoUpstream, EmptyBuffer
    <3> QED BY <1>5, <2>4, <3>1
  <2> QED BY <1>8, <2>1, <2>2, <2>3, <2>4 DEF Connect
<1>9. CASE EngineReads(l)
  <2> DEFINE frame == Head(links[l].toEng)
             ls == [links EXCEPT ![l].toEng = Tail(@)]
  <2>1. /\ links[l].toEng # <<>>
        /\ \/ UNCHANGED <<up, hist>>
           \/ Connect(l, ls)
           \/ /\ frame.op = "ack" /\ up.st # "none"
              /\ up' = [up EXCEPT !.buf = Acked(@, frame.seq)]
              /\ hist' = Note("acked", up.sock, Released(up.buf, frame.seq))
           \/ LetGo(l, ls) /\ UNCHANGED hist
    BY <1>9 DEF EngineReads
  <2> HIDE DEF ls
  <2>2. CASE UNCHANGED <<up, hist>>
    BY <1>5, <2>2
  <2>3. CASE Connect(l, ls)
    BY <1>8, <2>3
  <2>4. CASE /\ frame.op = "ack" /\ up.st # "none"
             /\ up' = [up EXCEPT !.buf = Acked(@, frame.seq)]
             /\ hist' = Note("acked", up.sock, Released(up.buf, frame.seq))
    <3>1. frame.seq \in Nat
      <4>1. links[l].toEng \in Seq(ToEng)
        BY LinkIs, InTurnIs
      <4>2. frame \in ToEng
        BY <2>1, <4>1, HeadTailProperties
      <4>3. frame.seq \in Seqs
        BY <2>4, <4>2 DEF ToEng
      <4> QED BY <4>3, OrNone
    <3>2. up'.buf = Acked(up.buf, frame.seq)
      BY <1>1, <2>4 DEF Upstream
    <3> QED BY <1>6, <2>4, <3>1, <3>2
  <2>5. CASE LetGo(l, ls) /\ UNCHANGED hist
    BY <1>7, <2>5
  <2> QED BY <2>1, <2>2, <2>3, <2>4, <2>5
<1>10. CASE EngineSeesEOF(l) \/ EngineDropsLink(l)
  <2>1. \E ls : LetGo(l, ls) /\ hist' = hist
    BY <1>10 DEF EngineSeesEOF, EngineDropsLink
  <2> QED BY <1>7, <2>1
<1> QED BY <1>9, <1>10 DEF LinkStep

-----------------------------------------------------------------------------
(* What a process stores.                                                  *)

\* A step of one process that stores nothing.
LEMMA OnePromise ==
    ASSUME IInv, PromiseInv, NEW a \in Apps, NEW p, apps' = [apps EXCEPT ![a] = p], Untold(p),
           UNCHANGED <<up, log>>, hist'.acked = hist.acked, hist'.shed = hist.shed
    PROVE  PromiseInv'
<1>1. apps \in [Apps -> Process]
  BY AppIs
<1>2. \A b \in Apps : Untold(apps'[b])
  BY <1>1 DEF PromiseInv
<1>3. Trimmed'
  BY DEF Trimmed, PromiseInv
<1> QED BY <1>2, <1>3 DEF PromiseInv, Untold

LEMMA NothingUntold == ASSUME NEW p, p.todo = {} PROVE Untold(p)
BY DEF Untold

LEMMA RestPromise ==
    ASSUME IInv, PromiseInv, NEW a \in Apps,
           \/ Boot(a) \/ Relink(a) \/ Redial(a) \/ LinkLost(a) \/ Crash(a) \/ Shutdown(a) \/ SendAck(a)
    PROVE  PromiseInv' /\ PromisedStep
<1>0. apps \in [Apps -> Process] /\ apps[a] \in Process
  BY AppIs
<1>1. UNCHANGED <<up, log, hist>>
  BY DEF Boot, Relink, Redial, LinkLost, Crash, Shutdown, SendAck
<1> DEFINE Same(q) == apps' = [apps EXCEPT ![a] = q] /\ SameHand(apps[a], q) /\ q.under = apps[a].under
           None(q) == apps' = [apps EXCEPT ![a] = q] /\ q.todo = {}
<1>2. ASSUME NEW q, Same(q) \/ None(q) PROVE PromiseInv' /\ PromisedStep
  <2>1. apps' = [apps EXCEPT ![a] = q]
    BY <1>2
  <2>2. Untold(q)
    BY <1>2 DEF Untold, SameHand, PromiseInv
  <2> QED BY <1>1, <2>1, <2>2, OnePromise, SaysNothing
<1>3. ASSUME NEW st PROVE [NoApp EXCEPT !.st = st].todo = {}
  BY DEF NoApp
<1>4. CASE Boot(a)
  <2> DEFINE q == [apps[a] EXCEPT !.st = "asking", !.link = nLinks + 1]
  <2>1. Same(q)
    BY <1>0, <1>4 DEF Boot, SameHand, Process
  <2> QED BY <1>2, <2>1
<1>5. CASE Relink(a)
  <2> DEFINE q == [apps[a] EXCEPT !.st = "asking", !.link = nLinks + 1]
             r == [apps[a] EXCEPT !.link = nLinks + 1]
  <2>1. Same(q) \/ Same(r)
    BY <1>0, <1>5 DEF Relink, SameHand, Process
  <2> HIDE DEF q, r, Same
  <2> QED BY <1>2, <2>1
<1>6. CASE Redial(a)
  <2> DEFINE q == [apps[a] EXCEPT !.st = "asking"]
  <2>1. Same(q)
    BY <1>0, <1>6 DEF Redial, SameHand, Process
  <2> QED BY <1>2, <2>1
<1>7. CASE SendAck(a)
  <2> DEFINE q == [apps[a] EXCEPT !.ackSeq = 0]
  <2>1. Same(q)
    BY <1>0, <1>7 DEF SendAck, SameHand, Process
  <2> QED BY <1>2, <2>1
<1>8. CASE LinkLost(a) \/ Crash(a) \/ Shutdown(a)
  <2>1. PICK st : apps' = [apps EXCEPT ![a] = [NoApp EXCEPT !.st = st]]
    BY <1>8 DEF LinkLost, Crash, Shutdown
  <2> DEFINE q == [NoApp EXCEPT !.st = st]
  <2>2. None(q)
    BY <1>3, <2>1
  <2> HIDE DEF q, None
  <2> QED BY <1>2, <2>2
<1> QED BY <1>4, <1>5, <1>6, <1>7, <1>8

\* EngineTransport.onFrame: the line read is past all this process stored.
LEMMA OnFramePromise ==
    ASSUME OneSocketPlain, IInv, OrderInv, PromiseInv, NEW a \in Apps, apps[a].link # 0,
           links[apps[a].link].toApp # <<>>, apps[a].todo = {},
           NEW f, f = Head(links[apps[a].link].toApp), UNCHANGED <<up, log>>, OnFrame(a, f)
    PROVE  PromiseInv' /\ PromisedStep
<1> DEFINE p == apps[a]
<1>1. p \in Process /\ apps \in [Apps -> Process] /\ hist \in History
  BY AppIs, InTurnIs
<1>2. ASSUME NEW q, apps' = [apps EXCEPT ![a] = q], Untold(q),
             \/ UNCHANGED hist
             \/ \E n, S : hist' = Note("told", n, S)
             \/ \E keep : hist' = [hist EXCEPT !.forgot = @ \union Forgotten(keep)]
      PROVE  PromiseInv' /\ PromisedStep
  <2>1. CASE UNCHANGED hist
    BY <1>2, <2>1, OnePromise, SaysNothing
  <2>2. CASE \E n, S : hist' = Note("told", n, S)
    <3>1. hist'.acked = hist.acked /\ hist'.shed = hist.shed /\ hist'.forgot = hist.forgot
      BY <1>1, <2>2 DEF Note, History
    <3> QED BY <1>2, <3>1, OnePromise, SaysNothing
  <2>3. CASE \E keep : hist' = [hist EXCEPT !.forgot = @ \union Forgotten(keep)]
    <3>1. hist'.acked = hist.acked /\ hist'.shed = hist.shed
      BY <1>1, <2>3 DEF History
    <3>2. PromisedStep
      BY <1>1, <2>3, ForgetsMarks
    <3> QED BY <1>2, <3>1, <3>2, OnePromise
  <2> QED BY <1>2, <2>1, <2>2, <2>3
<1>3. ASSUME NEW st PROVE Untold(Ended(p, st))
  BY DEF Ended, NoApp, Untold
<1>4. CASE apps' = [apps EXCEPT ![a] = Ended(p, "asking")]
           /\ hist' = [hist EXCEPT !.forgot = @ \union Forgotten(0)]
  <2> HIDE DEF p
  <2> QED BY <1>2, <1>3, <1>4
<1>5. CASE UNCHANGED hist /\ \E st : apps' = [apps EXCEPT ![a] = Ended(p, st)]
  <2> HIDE DEF p
  <2> QED BY <1>2, <1>3, <1>5
<1>6. CASE apps' = [apps EXCEPT ![a].st = "up", ![a].sock = f.sock] /\ UNCHANGED hist
  <2> DEFINE q == [p EXCEPT !.st = "up", !.sock = f.sock]
  <2>1. apps' = [apps EXCEPT ![a] = q] /\ q.todo = {}
    BY <1>1, <1>6 DEF Process
  <2> HIDE DEF q
  <2> QED BY <1>2, <1>6, <2>1, NothingUntold
<1>7. CASE /\ apps' = [apps EXCEPT ![a] = [Ended(p, "up") EXCEPT !.sock = f.sock,
                                              !.catching = TRUE, !.maxRow = Len(log)]]
           /\ hist' = [hist EXCEPT !.forgot = @ \union Forgotten(f.sock)]
  <2> DEFINE q == [Ended(p, "up") EXCEPT !.sock = f.sock, !.catching = TRUE, !.maxRow = Len(log)]
  <2>1. q.todo = {}
    BY DEF Ended, NoApp
  <2>2. apps' = [apps EXCEPT ![a] = q]
    BY <1>7
  <2> HIDE DEF q
  <2> QED BY <1>2, <1>7, <2>1, <2>2, NothingUntold
<1>8. CASE f.op = "line" /\ apps' = [apps EXCEPT ![a] = Delivering(p, f.seq)] /\ UNCHANGED hist
  <2> DEFINE s     == f.seq
             q     == Delivering(p, s)
             rows  == RowsFor(p, s)
             known == IF InOpenBatch(s) THEN p.known \union {s} ELSE p.known \ (BatchStart[s] .. s)
  <2>1. q = IF rows = {} THEN [p EXCEPT !.known = known, !.ackSeq = s]
                         ELSE [p EXCEPT !.known = known, !.at = s, !.todo = rows]
    BY DEF Delivering
  <2>2. p.under # s /\ s \in Seqs
    BY <1>8, LineIsPast, FrameIs, LineSeq DEF IsLine
  <2>3. rows # {} => RowsAt[s] # 0
    <3>1. BatchStart[s] = s
      BY <2>2 DEF OneSocketPlain
    <3>2. rows = 1 .. RowsAt[s]
      BY <3>1 DEF RowsFor
    <3>3. 1 .. 0 = {}
      OBVIOUS
    <3> HIDE DEF rows, s
    <3> QED BY <3>2, <3>3
  <2>4. apps' = [apps EXCEPT ![a] = q]
    BY <1>8
  <2> HIDE DEF rows, known, q, s
  <2>5. q.todo = {} \/ (q.at = s /\ q.under = p.under /\ RowsAt[s] # 0)
    BY <1>1, <2>1, <2>3 DEF Process
  <2>6. Untold(q)
    BY <2>2, <2>5 DEF Untold
  <2> QED BY <1>2, <1>8, <2>4, <2>6
<1>9. CASE hist' = Note("told", f.sock, f.gap.first .. f.gap.last) /\ UNCHANGED apps
  <2>1. apps' = [apps EXCEPT ![a] = p]
    BY <1>1, <1>9
  <2>2. \E n, S : hist' = Note("told", n, S)
    BY <1>9
  <2>3. Untold(p)
    BY NothingUntold
  <2> HIDE DEF p
  <2> QED BY <1>2, <2>1, <2>2, <2>3
<1>10. CASE apps' = [apps EXCEPT ![a].catching = FALSE, ![a].maxRow = 0] /\ UNCHANGED hist
  <2> DEFINE q == [p EXCEPT !.catching = FALSE, !.maxRow = 0]
  <2>1. apps' = [apps EXCEPT ![a] = q] /\ q.todo = {}
    BY <1>1, <1>10 DEF Process
  <2> HIDE DEF q
  <2> QED BY <1>2, <1>10, <2>1, NothingUntold
<1> QED BY <1>4, <1>5, <1>6, <1>7, <1>8, <1>9, <1>10 DEF OnFrame

LEMMA AppReadsPromise ==
    ASSUME OneSocketPlain, IInv, OrderInv, PromiseInv, NEW a \in Apps, AppReads(a)
    PROVE  PromiseInv' /\ PromisedStep
<1> DEFINE l == apps[a].link
           f == Head(links[l].toApp)
<1>1. l # 0 /\ links[l].toApp # <<>> /\ UNCHANGED <<up, log>> /\ apps[a].todo = {}
  BY DEF AppReads
<1>2. apps \in [Apps -> Process] /\ apps[a] \in Process
  BY AppIs
<1>3. \/ apps' = [apps EXCEPT ![a].st = "asking"] /\ UNCHANGED hist
      \/ UNCHANGED <<apps, hist>>
      \/ OnFrame(a, f)
  BY DEF AppReads
<1>4. CASE apps' = [apps EXCEPT ![a].st = "asking"] /\ UNCHANGED hist
  <2> DEFINE q == [apps[a] EXCEPT !.st = "asking"]
  <2>1. apps' = [apps EXCEPT ![a] = q] /\ q.todo = {}
    BY <1>1, <1>2, <1>4 DEF Process
  <2> HIDE DEF q
  <2>2. Untold(q)
    BY <2>1, NothingUntold
  <2> QED BY <1>1, <1>4, <2>1, <2>2, OnePromise, SaysNothing
<1>5. CASE UNCHANGED <<apps, hist>>
  <2>1. apps' = [apps EXCEPT ![a] = apps[a]]
    BY <1>2, <1>5
  <2>2. Untold(apps[a])
    BY DEF PromiseInv
  <2> QED BY <1>1, <1>5, <2>1, <2>2, OnePromise, SaysNothing
<1>6. CASE OnFrame(a, f)
  BY <1>1, <1>6, OnFramePromise
<1> QED BY <1>3, <1>4, <1>5, <1>6

\* IrcConnection.publish under the mark: while the mark stands a row is the
\* next of its socket, past all that are stored; what it passes over was shed.
LEMMA StoreRowPromise ==
    ASSUME OneSocketPlain, IInv, MarkInv, AckInv, PromiseInv, NEW a \in Apps, StoreRow(a)
    PROVE  PromiseInv' /\ PromisedStep
<1> DEFINE p     == apps[a]
           row   == [sock |-> p.sock, seq |-> p.at, part |-> Min(p.todo)]
           store == ~AlreadyPersisted(p, row) /\ ~RefusedByMark(p)
           last  == p.todo = {Min(p.todo)}
           q     == [p EXCEPT !.todo = @ \ {Min(@)}, !.under = IF store THEN p.at ELSE @,
                              !.at = IF last THEN 0 ELSE @, !.ackSeq = IF last THEN p.at ELSE @]
<1>1. /\ p \in Process /\ Sane(p) /\ apps \in [Apps -> Process] /\ log \in Seq(Row)
      /\ marks \in [Socks -> {0} \union Seqs]
  BY AppIs
<1>2. /\ p.todo # {} /\ UNCHANGED <<up, hist>>
      /\ log' = IF store THEN Append(log, row) ELSE log
  BY DEF StoreRow
<1>3. apps' = [apps EXCEPT ![a] = q]
  BY <1>1 DEF StoreRow
<1>4. p.todo = {1} /\ 1 .. p.at - 1 \subseteq Done
  BY <1>2 DEF AckInv, Honest
<1>5. Min(p.todo) = 1
  <2>1. {1} \in SUBSET Nat
    OBVIOUS
  <2>2. Min({1}) \in {1}
    BY <2>1, MinIs
  <2> QED BY <1>4, <2>2
<1>6. p.sock = 1 /\ p.at \in Seqs /\ p.at \in Nat /\ 1 \in Socks /\ Socks = {1} /\ marks[1] \in Nat
  <2>1. p.sock \in Socks /\ p.at \in Seqs
    BY <1>1, <1>2 DEF Sane, Process
  <2>2. Socks = {1}
    BY DEF OneSocketPlain, Socks
  <2>3. marks[1] \in {0} \union Seqs
    BY <1>1, <2>2
  <2> QED BY <2>1, <2>2, <2>3, OrNone
<1>7. q.todo = {}
  <2> HIDE DEF store
  <2> QED BY <1>1, <1>4, <1>5 DEF Process
<1>8. RowsAt[p.at] # 0 /\ p.under # p.at /\ Trimmed
  BY <1>2 DEF PromiseInv, Untold
<1>9. store => marks[1] < p.at
  BY <1>6, <1>8 DEF RefusedByMark
<1>10. row \in Row /\ row.sock = 1 /\ row.seq = p.at
  BY <1>5, <1>6 DEF Row
<1> HIDE DEF q, row, store, last
<1>11. PromiseInv'
  <2>1. \A b \in Apps : Untold(apps'[b])
    BY <1>1, <1>3, <1>7, NothingUntold DEF PromiseInv
  <2>2. Trimmed'
    BY <1>2, <1>8 DEF Trimmed
  <2> QED BY <2>1, <2>2 DEF PromiseInv, Untold
<1>12. CASE ~store
  <2>1. log' = log
    BY <1>2, <1>12
  <2>2. hist' = hist
    BY <1>2
  <2> QED BY <2>1, <2>2, <1>11, SaysNothing
<1>13. CASE store
  <2>1. ASSUME 1 \notin hist.forgot, NEW i \in DOMAIN log, log[i].sock = 1 PROVE log[i].seq < p.at
    <3>1. log[i].seq <= marks[1]
      BY <2>1 DEF MarkInv, Stands
    <3>2. log[i].seq \in Nat
      <4>1. log[i] \in Row
        BY <1>1, ElementOfSeq
      <4> QED BY <4>1, Bounds DEF Row
    <3> QED BY <1>6, <1>9, <1>13, <3>1, <3>2
  <2>2. ASSUME NEW t \in Seqs, RowsAt[t] # 0, t < p.at
        PROVE  <<1, t>> \in hist.shed \/ \E i \in DOMAIN log : log[i].sock = 1 /\ log[i].seq = t
    <3>1. t \in Done
      <4>1. t \in Nat \ {0}
        BY Bounds
      <4> QED BY <1>4, <1>6, <2>2, <4>1
    <3>2. <<1, t>> \in hist.shed \/ Stored(t)
      <4>1. CASE t < up.buf.first
        BY <1>8, <4>1 DEF Trimmed, AckInv
      <4> QED BY <3>1, <4>1 DEF Done
    <3>3. CASE Stored(t)
      <4>1. 1 \in 1 .. RowsAt[t]
        <5>1. RowsAt[t] \in {0, 1}
          BY DEF OneSocketPlain
        <5> QED BY <2>2, <5>1
      <4>2. [sock |-> 1, seq |-> t, part |-> 1] \in StoredRows
        BY <3>3, <4>1 DEF Stored, RowsOf
      <4>3. \E i \in DOMAIN log : log[i] = [sock |-> 1, seq |-> t, part |-> 1]
        BY <4>2 DEF StoredRows, ToSet
      <4> QED BY <4>3
    <3> QED BY <3>2, <3>3
  <2>3. log' = Append(log, row) /\ hist' = hist
    BY <1>2, <1>13
  <2>4. \/ row.sock \in hist.forgot
        \/ /\ \A i \in DOMAIN log : log[i].sock = row.sock => log[i].seq < row.seq
           /\ \A t \in Seqs : RowsAt[t] # 0 /\ t < row.seq =>
                 \/ <<row.sock, t>> \in hist.shed
                 \/ \E i \in DOMAIN log : log[i].sock = row.sock /\ log[i].seq = t
    BY <1>10, <2>1, <2>2
  <2>5. RowsAt[row.seq] # 0 /\ row \in Row /\ log \in Seq(Row)
    BY <1>1, <1>8, <1>10
  <2>6. PromisedStep
    BY ONLY <2>3, <2>4, <2>5, StoresLine
  <2> QED BY <1>11, <2>6
<1> QED BY <1>11, <1>12, <1>13

-----------------------------------------------------------------------------
(* The theorem.                                                            *)

LEMMA InitPromise == Init => PromiseInv /\ PromisedLog!LogInit
<1> SUFFICES ASSUME Init PROVE PromiseInv /\ PromisedLog!LogInit
  OBVIOUS
<1>1. /\ log = <<>> /\ apps = [a \in Apps |-> NoApp] /\ up.buf.first = 1
      /\ hist.shed = {} /\ hist.forgot = {}
  BY DEF Init, NoUpstream, EmptyBuffer
<1>2. \A a \in Apps : Untold(apps[a])
  BY <1>1 DEF NoApp, Untold
<1>3. Trimmed
  BY <1>1, Bounds DEF Trimmed
<1>4. [i \in DOMAIN log |-> <<log[i].sock, log[i].seq>>] = <<>>
  BY <1>1
<1>5. {e \in hist.shed : RowsAt[e[2]] # 0} = {}
  BY <1>1
<1>6. PromisedLog!LogInit
  BY <1>1, <1>4, <1>5 DEF PromisedLog!LogInit
<1> QED BY <1>2, <1>3, <1>6 DEF PromiseInv

LEMMA StepPromise ==
    ASSUME OneSocketPlain, IInv, OrderInv, MarkInv, AckInv, PromiseInv, [Next]_vars
    PROVE  PromiseInv' /\ PromisedStep
<1>1. CASE EngineStep
  BY <1>1, EngineStepPromise
<1>2. ASSUME NEW l \in Links, LinkStep(l) PROVE PromiseInv' /\ PromisedStep
  BY <1>2, LinkStepPromise
<1>3. ASSUME NEW a \in Apps, AppStep(a) PROVE PromiseInv' /\ PromisedStep
  BY <1>3, RestPromise, AppReadsPromise, StoreRowPromise DEF AppStep
<1>4. CASE UNCHANGED vars
  <2>1. UNCHANGED <<up, apps, log>> /\ hist' = hist
    BY <1>4 DEF vars
  <2>2. PromiseInv'
    BY <2>1 DEF PromiseInv, Untold, Trimmed
  <2> QED BY <2>1, <2>2, SaysNothing
<1> QED BY <1>1, <1>2, <1>3, <1>4 DEF Next

\* The relay implements MessageLog: on one socket, with lines of one row each,
\* for any processes and links, whatever breaks, crashes, takes over or is shed
\* (EngineUpstream.flush, engineTransport.ts, db/engineMarks.ts).  What
\* PromisesProofs proves of the log holds of the message rows: unrepeated, in
\* order, none passed over that was not shed, while the mark stands.
THEOREM RelayKeepsItsPromise == OneSocketPlain => (Spec => ImplementsMessageLog)
<1> SUFFICES ASSUME OneSocketPlain PROVE Spec => ImplementsMessageLog
  OBVIOUS
<1> DEFINE All == IInv /\ OrderInv /\ MarkInv /\ AckInv /\ PromiseInv
<1>1. Init => All /\ PromisedLog!LogInit
  BY InitIInv, InitOrder, InitMarks, InitAck, InitPromise
<1>2. All /\ [Next]_vars => All' /\ PromisedStep
  BY StepKeeps, StepOrder, StepMarks, StepAck, StepPromise
<1>3. All /\ [Next]_vars => [PromisedLog!LogNext]_(PromisedLog!logVars)
  BY <1>2 DEF PromisedStep
<1> QED BY <1>1, <1>2, <1>3, PTL DEF Spec, ImplementsMessageLog, PromisedLog!LogSpec

=============================================================================
