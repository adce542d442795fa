------------------------- MODULE KomodoStateProofs -------------------------
(***************************************************************************)
(* The invariants of KomodoState, over reorganisations and starts: its     *)
(* events, heights, checkpoints and last notarised block.                  *)
(***************************************************************************)
EXTENDS KomodoState, BlockTreeProofs, TLAPS

\* Zenon is the default; the steps that need arithmetic, records or functions name SMT.
USE ZenonT(40)

\* Wherever the last search stopped, komodo_state::NotarizedData finds the
\* newest checkpoint below a height, for any number of checkpoints whose
\* carriers are in order.
THEOREM SearchIsExact == TypeOK => SearchExact
  <1>. SUFFICES ASSUME TypeOK, CarriersInOrder(sp.NPOINTS), NEW b \in Block
                PROVE  NotarizedData(sp.NPOINTS, sp.NPOINTS_last_index, Height[b]).np =
                           NewestBelow(sp.NPOINTS, Height[b])
    BY DEF SearchExact
  <1>1. sp.NPOINTS \in Seq(Point) /\ sp.NPOINTS_last_index \in Nat
    BY DEF TypeOK, KState
  <1>2. Height[b] \in Nat
    BY TypeAssumption
  <1>3. Heights(Point)
    BY DEF Heights, Point
  <1>. QED
    BY <1>1, <1>2, <1>3, NotarizedDataExact

----------------------------------------------------------------------------
(***************************************************************************)
(* What the operations of komodo_state do.                                 *)
(***************************************************************************)
\* The memory of notarisations is the same.
SameNotarised(r, s) == r.NPOINTS = s.NPOINTS /\ r.last = s.last

\* The events of f are those of e and then events of block b.
AddsOf(e, f, b) ==
    /\ Len(e) <= Len(f)
    /\ \A i \in 1 .. Len(f) :
          IF i <= Len(e) THEN f[i] = e[i] ELSE f[i].height = Height[b] /\ f[i].block = b

\* The events of r are the first ones of s, up to one below the height.
Rewinds(r, s, h) ==
    /\ r \in KState /\ SameNotarised(r, s)
    /\ Len(r.events) <= Len(s.events)
    /\ \A i \in 1 .. Len(r.events) : r.events[i] = s.events[i]
    /\ Len(r.events) > 0 => r.events[Len(r.events)].height < h

\* komodo_event_rewind: its loop from the back of the list stops.
LEMMA RewindStops ==
    ASSUME NEW e \in Seq(Event), NEW h \in Nat
    PROVE  \E n \in 0 .. Len(e) : /\ \A i \in n + 1 .. Len(e) : e[i].height >= h
                                  /\ n > 0 => e[n].height < h
  <1>. DEFINE S == {n \in Nat : n <= Len(e) /\ \A i \in n + 1 .. Len(e) : e[i].height >= h}
  <1>1. S \subseteq Nat /\ Len(e) \in S
    BY SMT
  <1>2. PICK n \in S : \A m \in S : ~(<<m, n>> \in OpToRel(<, Nat))
    BY <1>1, NatLessThanWellFounded, WFMin, ZenonT(60)
  <1>3. n \in 0 .. Len(e) /\ \A i \in n + 1 .. Len(e) : e[i].height >= h
    BY SMT
  <1>4. ASSUME n > 0 PROVE e[n].height < h
    <2>. SUFFICES ASSUME ~(e[n].height < h) PROVE FALSE
      OBVIOUS
    <2>1. n \in 1 .. Len(e) /\ e[n] \in Event
      BY SMT, <1>3, <1>4
    <2>2. e[n].height >= h
      BY SMT, <2>1 DEF Event
    <2>3. n - 1 \in S
      BY SMT, <1>3, <2>1, <2>2
    <2>4. <<n - 1, n>> \in OpToRel(<, Nat)
      BY SMT, <2>1 DEF OpToRel
    <2>. QED
      BY <1>2, <2>3, <2>4
  <1>. HIDE DEF S
  <1>. QED
    BY <1>3, <1>4

\* komodo_event_rewind drops events from the back and changes nothing else:
\* komodo_event_undo never meets a type that it knows.
LEMMA RewindFacts ==
    ASSUME NEW s \in KState, NEW h \in Nat
    PROVE  Rewinds(komodo_event_rewind(s, h), s, h)
  <1>. DEFINE Kept(n) == /\ \A i \in n + 1 .. Len(s.events) : s.events[i].height >= h
                         /\ n > 0 => s.events[n].height < h
              kept == CHOOSE n \in 0 .. Len(s.events) : Kept(n)
              undone == {s.events[i] : i \in kept + 1 .. Len(s.events)}
              low == {e.height : e \in {e \in undone : e.type = KOMODO_EVENT_KMDHEIGHT}}
  <1>1. s.events \in Seq(Event) /\ s.SAVEDHEIGHT \in Nat
    BY DEF KState
  <1>2. kept \in 0 .. Len(s.events) /\ Kept(kept)
    BY <1>1, RewindStops
  <1>. HIDE DEF Kept, kept
  <1>3. \A e \in undone : e \in Event
    BY SMT, <1>1, <1>2
  <1>4. low = {}
    BY SMT, <1>3 DEF Event, KOMODO_EVENT_KMDHEIGHT, EVENT_NOTARIZED, EVENT_KMDHEIGHT, EVENT_REWIND
  <1>. HIDE DEF undone
  <1>5. Min({s.SAVEDHEIGHT} \cup low) = s.SAVEDHEIGHT
    <2>1. \A x \in Nat : Min({x}) = x
      BY SMT DEF Min
    <2>2. {s.SAVEDHEIGHT} \cup low = {s.SAVEDHEIGHT}
      BY <1>4
    <2>. QED
      BY <1>1, <2>1, <2>2
  <1>6. komodo_event_undo(s, undone) = [s EXCEPT !.SAVEDHEIGHT = Min({@} \cup low)]
    BY DEF komodo_event_undo
  <1>. HIDE DEF low
  <1>7. komodo_event_undo(s, undone) = s
    BY <1>5, <1>6 DEF KState
  <1>8. komodo_event_rewind(s, h) = [s EXCEPT !.events = SubSeq(s.events, 1, kept)]
    BY <1>7 DEF komodo_event_rewind, kept, undone, Kept
  <1>. DEFINE f == SubSeq(s.events, 1, kept)
  <1>9. f \in Seq(Event) /\ Len(f) = kept /\ \A i \in 1 .. kept : f[i] = s.events[i]
    BY SMT, <1>1, <1>2
  <1>10. kept > 0 => f[kept].height < h
    BY SMT, <1>2, <1>9 DEF Kept
  <1>. HIDE DEF f
  <1>11. [s EXCEPT !.events = f] \in KState
    BY <1>9 DEF KState
  <1>12. /\ [s EXCEPT !.events = f].events = f
         /\ SameNotarised([s EXCEPT !.events = f], s)
    BY DEF KState, SameNotarised
  <1>. QED
    BY SMT, <1>1, <1>2, <1>8, <1>9, <1>10, <1>11, <1>12 DEF Rewinds, f

\* komodo_state::add_event adds one event, or on the main chain none.
LEMMA AddEventFacts ==
    ASSUME NEW s \in KState, NEW e \in Event
    PROVE  /\ add_event(s, e) \in KState
           /\ SameNotarised(add_event(s, e), s)
           /\ add_event(s, e).CURRENT_HEIGHT = s.CURRENT_HEIGHT
           /\ add_event(s, e).events \in {s.events, Append(s.events, e)}
  <1>1. s.events \in Seq(Event)
    BY DEF KState
  <1>2. Append(s.events, e) \in Seq(Event)
    BY SMT, <1>1
  <1>. QED
    BY <1>2 DEF add_event, KState, SameNotarised

\* Of two numbers the greater.
LEMMA MaxOfTwo ==
    ASSUME NEW x \in Nat, NEW y \in Nat
    PROVE  Max({x, y}) \in Nat /\ Max({x, y}) >= x /\ Max({x, y}) >= y
  BY SMT DEF Max

\* komodo_setkmdheight: only the heights change, and they only grow.
LEMMA SetHeightFacts ==
    ASSUME NEW s \in KState, NEW k \in Nat
    PROVE  LET r == komodo_setkmdheight(s, k)
           IN  /\ r \in KState /\ SameNotarised(r, s) /\ r.events = s.events
               /\ r.CURRENT_HEIGHT >= k
  <1>1. s.SAVEDHEIGHT \in Nat /\ s.CURRENT_HEIGHT \in Nat
    BY DEF KState
  <1>. DEFINE m == Max({s.SAVEDHEIGHT, k})
              n == Max({s.CURRENT_HEIGHT, k})
  <1>2. m \in Nat /\ n \in Nat /\ n >= k
    BY <1>1, MaxOfTwo
  <1>3. komodo_setkmdheight(s, k) = [s EXCEPT !.SAVEDHEIGHT = m, !.CURRENT_HEIGHT = n]
    BY DEF komodo_setkmdheight
  <1>. HIDE DEF m, n
  <1>. QED
    BY <1>2, <1>3 DEF KState, SameNotarised

\* komodo_eventadd_kmdheight, forward or back, leaves the notarisations alone.
LEMMA KmdHeightFacts ==
    ASSUME NEW s \in KState, NEW h \in Nat, NEW k \in Int, NEW b \in Block
    PROVE  /\ komodo_eventadd_kmdheight(s, h, k, b) \in KState
           /\ SameNotarised(komodo_eventadd_kmdheight(s, h, k, b), s)
  <1>. DEFINE up == [type |-> EVENT_KMDHEIGHT, height |-> h, block |-> b]
              back == [type |-> EVENT_REWIND, height |-> h, block |-> b]
  <1>1. up \in Event /\ back \in Event
    BY DEF Event
  <1>. HIDE DEF up, back
  <1>2. CASE k > 0
    <2>1. komodo_eventadd_kmdheight(s, h, k, b) = komodo_setkmdheight(add_event(s, up), k)
      BY <1>2 DEF komodo_eventadd_kmdheight, up
    <2>2. k \in Nat
      BY SMT, <1>2
    <2>. DEFINE a == add_event(s, up)
    <2>3. a \in KState /\ SameNotarised(a, s)
      BY <1>1, AddEventFacts
    <2>. HIDE DEF a
    <2>4. komodo_setkmdheight(a, k) \in KState /\ SameNotarised(komodo_setkmdheight(a, k), a)
      BY <2>2, <2>3, SetHeightFacts
    <2>. QED
      BY <2>1, <2>3, <2>4 DEF SameNotarised, a
  <1>3. CASE ~(k > 0)
    <2>1. komodo_eventadd_kmdheight(s, h, k, b) = komodo_event_rewind(add_event(s, back), h)
      BY <1>3 DEF komodo_eventadd_kmdheight, back
    <2>. DEFINE a == add_event(s, back)
    <2>2. a \in KState /\ SameNotarised(a, s)
      BY <1>1, AddEventFacts
    <2>. HIDE DEF a
    <2>3. komodo_event_rewind(a, h) \in KState /\ SameNotarised(komodo_event_rewind(a, h), a)
      BY <2>2, RewindFacts DEF Rewinds
    <2>. QED
      BY <2>1, <2>2, <2>3 DEF SameNotarised, a
  <1>. QED
    BY <1>2, <1>3

\* The rewind of komodo_connectblock: the rewind that is recorded undoes
\* itself.
LEMMA RewoundFacts ==
    ASSUME NEW s \in KState, NEW b \in Block, b # Genesis
    PROVE  Rewinds(Rewound(s, b), s, Height[b])
  <1>. DEFINE h == Height[b]
              r == komodo_event_rewind(s, h)
              e == [type |-> EVENT_REWIND, height |-> h, block |-> b]
              a == add_event(r, e)
              q == komodo_event_rewind(a, h)
  <1>1. h \in Nat /\ e \in Event /\ e.height = h
    BY TypeAssumption DEF Event
  <1>2. ~(-h > 0)
    BY SMT, <1>1
  <1>3. Rewound(s, b) = q
    BY <1>2 DEF Rewound, komodo_eventadd_kmdheight
  <1>. HIDE DEF h, e
  <1>4. Rewinds(r, s, h)
    BY <1>1, RewindFacts
  <1>. HIDE DEF r
  <1>5. /\ a \in KState /\ SameNotarised(a, r)
        /\ a.events \in {r.events, Append(r.events, e)}
    BY <1>1, <1>4, AddEventFacts DEF Rewinds
  <1>. HIDE DEF a
  <1>6. Rewinds(q, a, h)
    BY <1>1, <1>5, RewindFacts
  <1>. HIDE DEF q
  <1>7. r.events \in Seq(Event) /\ a.events \in Seq(Event) /\ q.events \in Seq(Event) /\ s.events \in Seq(Event)
    BY <1>4, <1>5, <1>6 DEF Rewinds, KState
  <1>8. Len(q.events) <= Len(r.events) /\ \A i \in 1 .. Len(q.events) : q.events[i] = r.events[i]
    <2>1. CASE a.events = r.events
      BY <1>6, <2>1 DEF Rewinds
    <2>2. CASE a.events = Append(r.events, e)
      <3>1. Len(a.events) = Len(r.events) + 1 /\ a.events[Len(r.events) + 1] = e
        BY SMT, <1>7, <2>2
      <3>2. \A i \in 1 .. Len(r.events) : a.events[i] = r.events[i]
        BY SMT, <1>7, <2>2
      <3>3. Len(q.events) # Len(r.events) + 1
        BY SMTT(30), <1>1, <1>6, <1>7, <3>1 DEF Rewinds
      <3>. QED
        BY SMTT(30), <1>6, <1>7, <3>1, <3>2, <3>3 DEF Rewinds
    <2>. QED
      BY <1>5, <2>1, <2>2
  <1>9. Rewinds(q, s, h)
    BY SMT, <1>4, <1>5, <1>6, <1>7, <1>8 DEF Rewinds, SameNotarised
  <1>. QED
    BY <1>3, <1>9 DEF h

\* The checkpoint of notarisation p carried at height h, and the list with it.
Carried(h, p) == [nHeight |-> h, notarized_height |-> p.height, notarized_hash |-> p.hash]
WithPoint(pts, h, p) == Append(pts, Carried(h, p))

\* r is s with a notarisation event of b, and with a checkpoint and `last' beside
\* it unless the notarised block is not below the carrier.
Notes(r, s, h, p, b) ==
    /\ r \in KState
    /\ p.height >= h => SameNotarised(r, s)
    /\ p.height < h => r.last = p /\ r.NPOINTS = WithPoint(s.NPOINTS, h, p)
    /\ r.events \in {s.events, Append(s.events, [type |-> EVENT_NOTARIZED, height |-> h, block |-> b])}

\* komodo_eventadd_notarized, for a notarisation of some block.
LEMMA NotarizedFacts ==
    ASSUME NEW s \in KState, NEW h \in Nat, NEW p \in Notarisation, p.hash \in Block, NEW b \in Block
    PROVE  Notes(komodo_eventadd_notarized(s, h, p, b), s, h, p, b)
  <1>. DEFINE e == [type |-> EVENT_NOTARIZED, height |-> h, block |-> b]
              a == add_event(s, e)
  <1>1. e \in Event
    BY DEF Event
  <1>2. a \in KState /\ SameNotarised(a, s) /\ a.events \in {s.events, Append(s.events, e)}
    BY <1>1, AddEventFacts
  <1>3. komodo_eventadd_notarized(s, h, p, b) = komodo_notarized_update(a, h, p)
    BY DEF komodo_eventadd_notarized
  <1>. HIDE DEF a
  <1>4. CASE p.height >= h
    <2>1. komodo_notarized_update(a, h, p) = a
      BY <1>4 DEF komodo_notarized_update
    <2>2. ~(p.height < h)
      BY SMT, <1>4 DEF Notarisation
    <2>. QED
      BY <1>2, <1>3, <1>4, <2>1, <2>2 DEF Notes
  <1>5. CASE ~(p.height >= h)
    <2>. DEFINE pts == Append(a.NPOINTS, Carried(h, p))
    <2>1. komodo_notarized_update(a, h, p) = [a EXCEPT !.NPOINTS = pts, !.last = p]
      BY <1>5 DEF komodo_notarized_update, Carried
    <2>2. Carried(h, p) \in Point /\ a.NPOINTS \in Seq(Point)
      BY <1>2 DEF Carried, Point, Notarisation, KState
    <2>3. pts \in Seq(Point)
      BY SMT, <2>2
    <2>4. pts = WithPoint(s.NPOINTS, h, p)
      BY <1>2 DEF SameNotarised, WithPoint
    <2>. HIDE DEF pts, e
    <2>5. [a EXCEPT !.NPOINTS = pts, !.last = p] \in KState
      BY <1>2, <2>3 DEF KState
    <2>6. /\ [a EXCEPT !.NPOINTS = pts, !.last = p].last = p
          /\ [a EXCEPT !.NPOINTS = pts, !.last = p].NPOINTS = pts
          /\ [a EXCEPT !.NPOINTS = pts, !.last = p].events = a.events
      BY <1>2 DEF KState
    <2>. QED
      BY <1>2, <1>3, <1>5, <2>1, <2>4, <2>5, <2>6 DEF e, Notes
  <1>. QED
    BY <1>4, <1>5

\* AddCheckpoint: the newest checkpoint is the one that was added.
LEMMA NewestIsAdded ==
    ASSUME NEW pts \in Seq(Point), NEW h \in Nat, NEW p \in Notarisation, p.hash \in Block
    PROVE  NewestPoint(WithPoint(pts, h, p)) = p
  <1>. DEFINE c == Carried(h, p)
              new == Append(pts, c)
  <1>1. c \in Point
    BY DEF Carried, Point, Notarisation
  <1>. HIDE DEF c
  <1>2. new # <<>> /\ new[Len(new)] = c
    BY SMT, <1>1
  <1>. HIDE DEF new
  <1>3. NewestPoint(new) = [hash |-> c.notarized_hash, height |-> c.notarized_height]
    BY <1>2 DEF NewestPoint
  <1>4. c.notarized_hash = p.hash /\ c.notarized_height = p.height
    BY DEF c, Carried
  <1>. QED
    BY <1>3, <1>4 DEF Notarisation, new, c, WithPoint

\* One event of b more, or none.
LEMMA AddsOne ==
    ASSUME NEW e \in Seq(Event), NEW f \in Seq(Event), NEW g \in Seq(Event), NEW b \in Block,
           AddsOf(e, f, b), NEW x \in Event, x.height = Height[b], x.block = b,
           g \in {f, Append(f, x)}
    PROVE  AddsOf(e, g, b)
  <1>1. CASE g = f
    BY <1>1
  <1>2. CASE g = Append(f, x)
    <2>1. Len(g) = Len(f) + 1 /\ g[Len(f) + 1] = x /\ \A i \in 1 .. Len(f) : g[i] = f[i]
      BY SMT, <1>2
    <2>2. Len(e) \in Nat /\ Len(f) \in Nat /\ Len(e) <= Len(f)
      BY SMT DEF AddsOf
    <2>3. \A i \in 1 .. Len(g) :
              IF i <= Len(e) THEN g[i] = e[i] ELSE g[i].height = Height[b] /\ g[i].block = b
      <3>. SUFFICES ASSUME NEW i \in 1 .. Len(g)
                    PROVE  IF i <= Len(e) THEN g[i] = e[i]
                           ELSE g[i].height = Height[b] /\ g[i].block = b
        OBVIOUS
      <3>1. CASE i \in 1 .. Len(f)
        BY <2>1, <3>1 DEF AddsOf
      <3>2. CASE i = Len(f) + 1
        BY SMT, <2>1, <2>2, <3>2
      <3>. QED
        BY SMT, <2>1, <2>2, <3>1, <3>2
    <2>. QED
      BY SMT, <2>1, <2>2, <2>3 DEF AddsOf
  <1>. QED
    BY <1>1, <1>2

----------------------------------------------------------------------------
(***************************************************************************)
(* What the steps do.                                                      *)
(***************************************************************************)
\* The high water mark that komodo_connectblock compares with.
Mark(b) == IF JustChecked(b) THEN Height[b] ELSE hwmheight

\* ConnectTip: the events are rewound after a reorganisation, then events of
\* the block are added; the notarisation of the block, if it is accepted, is
\* the last one; on a notary it may be no checkpoint.
LEMMA ConnectFacts ==
    ASSUME TypeOK, NEW b \in Block, NEW verified \in BOOLEAN, ConnectTip(b, verified)
    PROVE  /\ sp' \in KState
           /\ sp'.CURRENT_HEIGHT >= Height[b]
           /\ ~Accepted(b) => SameNotarised(sp', sp)
           /\ Accepted(b) => /\ sp'.last = Notarises[b]
                             /\ sp'.NPOINTS = IF verified
                                              THEN WithPoint(sp.NPOINTS, Height[b], Notarises[b])
                                              ELSE sp.NPOINTS
           /\ \E r \in KState :
                 /\ IF Reorganised(b, Mark(b)) THEN Rewinds(r, sp, Height[b]) ELSE r = sp
                 /\ AddsOf(r.events, sp'.events, b)
  <1>. DEFINE h == Height[b]
              r == IF Reorganised(b, Mark(b)) THEN Rewound(sp, b) ELSE sp
              start == komodo_currentheight_set(r, Height[tip])
              noted == IF Accepted(b) THEN Notarised(start, b, verified) ELSE start
              ev == [type |-> EVENT_KMDHEIGHT, height |-> h, block |-> b]
              nev == [type |-> EVENT_NOTARIZED, height |-> h, block |-> b]
  <1>1. /\ sp' = komodo_eventadd_kmdheight(noted, h, h, b)
        /\ b # Genesis /\ Parent[b] = tip
    BY DEF ConnectTip, Mark
  <1>2. /\ sp \in KState /\ tip \in Block /\ h \in Nat /\ Height[tip] \in Nat /\ h > 0
        /\ ev \in Event /\ nev \in Event
    BY SMT, <1>1, TypeAssumption, TreeAssumption DEF TypeOK, Event
  <1>3. /\ IF Reorganised(b, Mark(b)) THEN Rewinds(r, sp, h) ELSE r = sp
        /\ r \in KState /\ SameNotarised(r, sp)
    BY <1>1, <1>2, RewoundFacts DEF Rewinds, SameNotarised
  <1>. HIDE DEF r
  <1>4. start \in KState /\ SameNotarised(start, sp) /\ start.events = r.events
    BY <1>2, <1>3 DEF komodo_currentheight_set, KState, SameNotarised
  <1>. HIDE DEF start
  <1>5. AddsOf(r.events, start.events, b)
    <2>1. r.events \in Seq(Event)
      BY <1>3 DEF KState
    <2>. QED
      BY SMT, <1>4, <2>1 DEF AddsOf
  <1>6. /\ noted \in KState
        /\ noted.events \in {start.events, Append(start.events, nev)}
        /\ ~Accepted(b) => SameNotarised(noted, sp)
        /\ Accepted(b) => /\ noted.last = Notarises[b]
                          /\ noted.NPOINTS = IF verified
                                             THEN WithPoint(sp.NPOINTS, h, Notarises[b])
                                             ELSE sp.NPOINTS
    <2>1. CASE ~Accepted(b)
      BY <1>4, <2>1
    <2>2. CASE Accepted(b)
      <3>. DEFINE n == Notarises[b]
                  moved == [start EXCEPT !.last = n]
      <3>1. n \in Notarisation /\ n.hash \in Block /\ n.height < h
        BY <2>2, NotarisesAssumption, TypeAssumption DEF Accepted
      <3>2. ~(n.height >= h)
        BY SMT, <1>2, <3>1 DEF Notarisation
      <3>. HIDE DEF n
      <3>3. /\ moved \in KState /\ moved.events = start.events
            /\ moved.NPOINTS = sp.NPOINTS /\ moved.last = n
        BY <1>4, <3>1 DEF KState, SameNotarised
      <3>4. noted = IF verified THEN komodo_eventadd_notarized(moved, h, n, b) ELSE moved
        BY <2>2 DEF Notarised, n
      <3>. HIDE DEF moved, noted
      <3>5. CASE verified
        <4>. DEFINE q == komodo_eventadd_notarized(moved, h, n, b)
        <4>1. Notes(q, moved, h, n, b)
          BY <1>2, <3>1, <3>3, NotarizedFacts
        <4>. HIDE DEF q
        <4>2. noted = q
          BY <3>4, <3>5 DEF q
        <4>3. /\ q \in KState /\ q.last = n /\ q.NPOINTS = WithPoint(moved.NPOINTS, h, n)
              /\ q.events \in {moved.events, Append(moved.events, nev)}
          BY <3>1, <4>1 DEF Notes
        <4>. QED
          BY <2>2, <3>3, <3>5, <4>2, <4>3 DEF n
      <3>6. CASE ~verified
        BY <2>2, <3>3, <3>4, <3>6 DEF n
      <3>. QED
        BY <3>5, <3>6
    <2>. QED
      BY <2>1, <2>2
  <1>. HIDE DEF noted, ev, nev
  <1>7. sp' = komodo_setkmdheight(add_event(noted, ev), h)
    BY <1>1, <1>2 DEF komodo_eventadd_kmdheight, ev
  <1>. DEFINE last == add_event(noted, ev)
  <1>8. /\ last \in KState /\ SameNotarised(last, noted)
        /\ last.events \in {noted.events, Append(noted.events, ev)}
    BY <1>2, <1>6, AddEventFacts
  <1>. HIDE DEF last
  <1>9. sp' \in KState /\ SameNotarised(sp', last) /\ sp'.events = last.events /\ sp'.CURRENT_HEIGHT >= h
    BY <1>2, <1>7, <1>8, SetHeightFacts DEF last
  <1>10. AddsOf(r.events, sp'.events, b)
    <2>1. /\ r.events \in Seq(Event) /\ start.events \in Seq(Event)
          /\ noted.events \in Seq(Event) /\ last.events \in Seq(Event)
      BY <1>3, <1>4, <1>6, <1>8 DEF KState
    <2>2. ev.height = Height[b] /\ ev.block = b /\ nev.height = Height[b] /\ nev.block = b
      BY DEF ev, nev
    <2>3. AddsOf(r.events, noted.events, b)
      BY <1>2, <1>5, <1>6, <2>1, <2>2, AddsOne
    <2>4. AddsOf(r.events, last.events, b)
      BY <1>2, <1>8, <2>1, <2>2, <2>3, AddsOne
    <2>. QED
      BY <1>9, <2>4
  <1>. QED
    BY <1>3, <1>6, <1>8, <1>9, <1>10 DEF SameNotarised

\* ConnectTip only adds to the file, and nothing that a start could read.
LEMMA FileGrows ==
    ASSUME TypeOK, NEW b \in Block, NEW verified \in BOOLEAN, ConnectTip(b, verified)
    PROVE  /\ file' \in Seq(Record)
           /\ \A i \in DOMAIN file : i \in DOMAIN file' /\ file'[i] = file[i]
           /\ \A i \in DOMAIN file' \ DOMAIN file : file'[i] = Unknown
  <1>. DEFINE w == Written(b, Reorganised(b, Mark(b)))
  <1>1. w \in Seq({Unknown})
    <2>. DEFINE first == IF Reorganised(b, Mark(b)) THEN <<Unknown>> ELSE <<>>
                second == IF Accepted(b) THEN <<Unknown>> ELSE <<>>
    <2>1. w = first \o second \o <<Unknown>>
      BY DEF Written, write_event
    <2>2. <<>> \in Seq({Unknown}) /\ <<Unknown>> \in Seq({Unknown})
      BY SMT
    <2>3. first \in Seq({Unknown}) /\ second \in Seq({Unknown})
      BY <2>2
    <2>. HIDE DEF first, second, w
    <2>. QED
      BY SMT, <2>1, <2>2, <2>3
  <1>. HIDE DEF w
  <1>2. file' = file \o w /\ file \in Seq(Record)
    BY DEF ConnectTip, Mark, w, TypeOK
  <1>3. file' \in Seq(Record)
    BY SMT, <1>1, <1>2 DEF Record
  <1>. QED
    BY SMT, <1>1, <1>2, <1>3

\* A record that is read: bytes without a known letter change nothing, only a
\* notarisation adds a checkpoint, and then it is the last one.
LEMMA ParseFacts ==
    ASSUME TypeOK, komodo_faststateinit
    PROVE  /\ sp' \in KState
           /\ Head(unread) = Unknown => sp' = sp
           /\ Head(unread).func # "N" => SameNotarised(sp', sp)
           /\ (~notary /\ sp.last = NewestPoint(sp.NPOINTS)) => sp'.last = NewestPoint(sp'.NPOINTS)
  <1>. DEFINE r == Head(unread)
  <1>1. r \in Record /\ sp \in KState
    BY SMT DEF TypeOK, komodo_faststateinit
  <1>. HIDE DEF r
  <1>2. PICK verified \in Answers : sp' = komodo_parsestatefiledata(sp, r, verified)
    BY DEF komodo_faststateinit, r
  <1>3. verified \in BOOLEAN /\ (~notary => verified)
    BY DEF Answers, TypeOK
  <1>4. CASE r.func = "K"
    <2>1. r \in KRecord /\ r # Unknown
      BY SMT, <1>1, <1>4 DEF Record, NRecord, KRecord, Unknown
    <2>2. sp' = komodo_eventadd_kmdheight(sp, r.height, r.kheight, r.block)
      BY <1>2, <1>4 DEF komodo_parsestatefiledata
    <2>3. sp' \in KState /\ SameNotarised(sp', sp)
      BY <1>1, <2>1, <2>2, KmdHeightFacts DEF KRecord
    <2>. QED
      BY <2>1, <2>3 DEF SameNotarised, r
  <1>5. CASE r.func = "N" /\ verified
    <2>1. r \in NRecord /\ r # Unknown
      BY SMT, <1>1, <1>5 DEF Record, NRecord, KRecord, Unknown
    <2>. DEFINE p == r.point
                h == r.height
    <2>2. p \in Notarisation /\ p.hash \in Block /\ h \in Nat /\ r.block \in Block
      BY <2>1 DEF NRecord, Notarisation
    <2>3. sp' = komodo_eventadd_notarized(sp, h, p, r.block)
      BY <1>2, <1>5 DEF komodo_parsestatefiledata
    <2>. HIDE DEF p, h
    <2>4. Notes(sp', sp, h, p, r.block)
      BY <1>1, <2>2, <2>3, NotarizedFacts
    <2>5. p.height >= h \/ p.height < h
      BY SMT, <2>2 DEF Notarisation
    <2>6. sp.NPOINTS \in Seq(Point)
      BY <1>1 DEF KState
    <2>7. p.height < h => sp'.last = NewestPoint(sp'.NPOINTS)
      BY SMT, <2>2, <2>4, <2>6, NewestIsAdded DEF Notes
    <2>. QED
      BY <1>5, <2>1, <2>4, <2>5, <2>7 DEF Notes, SameNotarised, r
  <1>6. CASE r.func # "K" /\ ~(r.func = "N" /\ verified)
    <2>1. sp' = sp
      BY <1>2, <1>6 DEF komodo_parsestatefiledata
    <2>. QED
      BY <1>1, <2>1 DEF SameNotarised
  <1>. QED
    BY <1>4, <1>5, <1>6

\* What a header, a block that is only looked over, and the beginning of
\* ProcessNewBlock do not touch.
LEMMA LookFacts ==
    ASSUME TypeOK, NEW b \in Block, RefuseBlock(b) \/ ProcessNewBlock \/ CheckHeader
    PROVE  /\ sp' \in KState /\ sp'.events = sp.events /\ SameNotarised(sp', sp)
           /\ sp'.CURRENT_HEIGHT \in {sp.CURRENT_HEIGHT, Height[tip]}
           /\ RefuseBlock(b) \/ ProcessNewBlock => sp'.CURRENT_HEIGHT = Height[tip]
  <1>1. sp \in KState /\ Height[tip] \in Nat
    BY TypeAssumption DEF TypeOK
  <1>2. CASE RefuseBlock(b) \/ ProcessNewBlock
    <2>1. sp' = [sp EXCEPT !.CURRENT_HEIGHT = Height[tip]]
      BY <1>2 DEF RefuseBlock, ProcessNewBlock, komodo_currentheight_set
    <2>. QED
      BY <1>1, <2>1 DEF KState, SameNotarised
  <1>3. CASE CheckHeader /\ ~(RefuseBlock(b) \/ ProcessNewBlock)
    <2>. DEFINE li == Consulted.last_index
    <2>1. sp' = [sp EXCEPT !.NPOINTS_last_index = li]
      BY <1>3 DEF CheckHeader
    <2>2. Heights(Point)
      BY DEF Heights, Point
    <2>3. sp.NPOINTS \in Seq(Point) /\ sp.NPOINTS_last_index \in Nat
      BY <1>1 DEF KState
    <2>4. li \in Nat
      BY <1>1, <2>2, <2>3, CachedIndexType DEF Consulted
    <2>. HIDE DEF li
    <2>. QED
      BY <1>1, <1>3, <2>1, <2>4 DEF KState, SameNotarised
  <1>. QED
    BY <1>2, <1>3

----------------------------------------------------------------------------
(***************************************************************************)
(* The inductive invariant.                                                *)
(***************************************************************************)
\* The state that a start begins with.
LEMMA EmptyFacts ==
    /\ EmptyState \in KState /\ EmptyState.events = <<>> /\ EmptyState.NPOINTS = <<>>
    /\ EmptyState.last = NoNotarisation /\ NoNotarisation \in Notarisation
  BY SMT DEF EmptyState, KState, NoNotarisation, Notarisation

\* Nothing is wrong with an empty state before the file is read.
LEMMA FreshInv == TypeOK /\ sp = EmptyState /\ unread = file /\ hwmheight = 0 => StateInv
  <1>. SUFFICES ASSUME TypeOK, sp = EmptyState, unread = file, hwmheight = 0
                PROVE  StateInv
    OBVIOUS
  <1>1. sp.events = <<>> /\ sp.NPOINTS = <<>> /\ sp.last = NoNotarisation
    BY EmptyFacts
  <1>2. EventsInv /\ EventsOfActiveChain
    BY SMT, <1>1 DEF EventsInv, EventsOfActiveChain
  <1>3. CheckpointsNested /\ PointsInv
    BY SMT, <1>1 DEF PointsInv, CheckpointsNested
  <1>4. LastIsNewestPoint
    BY <1>1 DEF LastIsNewestPoint, NewestPoint
  <1>5. HeightsCoverTip
    BY SMT DEF HeightsCoverTip
  <1>. QED
    BY <1>2, <1>3, <1>4, <1>5 DEF StateInv

\* The state komodo_init leaves.
LEMMA InitInv == Init => StateInv
  <1>. SUFFICES ASSUME Init PROVE StateInv
    OBVIOUS
  <1>1. PICK i \in Inherited : tip = i.tip /\ file = i.file
    BY DEF Init
  <1>2. tip \in Block /\ file \in Seq(Record)
    BY SMT, <1>1, InheritedAssumption DEF Record
  <1>3. 1 \in 1 .. MaxRuns
    BY SMT, ParameterAssumption
  <1>4. TypeOK
    BY <1>2, <1>3, EmptyFacts DEF Init, TypeOK
  <1>. QED
    BY <1>4, FreshInv DEF Init

\* The types are preserved.
LEMMA TypeStep ==
    ASSUME TypeOK, Next
    PROVE  TypeOK'
  <1>1. CASE komodo_faststateinit
    <2>1. sp' \in KState
      BY <1>1, ParseFacts
    <2>2. unread' \in Seq(Record)
      BY SMT, <1>1 DEF komodo_faststateinit, TypeOK
    <2>3. stopped' \in Notarisation
      BY <1>1, EmptyFacts DEF komodo_faststateinit, TypeOK
    <2>. QED
      BY <1>1, <2>1, <2>2, <2>3 DEF komodo_faststateinit, TypeOK
  <1>2. ASSUME NEW b \in Block, NEW verified \in Answers, ConnectTip(b, verified)
        PROVE  TypeOK'
    <2>1. verified \in BOOLEAN
      BY DEF Answers
    <2>2. sp' \in KState /\ file' \in Seq(Record)
      BY <1>2, <2>1, ConnectFacts, FileGrows
    <2>3. tip' = b /\ hwmheight' = Height[b] /\ Height[b] \in Nat /\ UNCHANGED startVars
      BY <1>2, TypeAssumption DEF ConnectTip
    <2>. QED
      BY <2>2, <2>3 DEF TypeOK, startVars
  <1>3. ASSUME NEW b \in Block, RefuseBlock(b) PROVE TypeOK'
    <2>1. sp' \in KState /\ Height[b] \in Nat
      BY <1>3, LookFacts, TypeAssumption
    <2>. QED
      BY <1>3, <2>1 DEF RefuseBlock, TypeOK, startVars
  <1>4. CASE DisconnectTip
    BY <1>4, TypeAssumption DEF DisconnectTip, TypeOK, startVars
  <1>5. CASE ProcessNewBlock \/ CheckHeader
    <2>1. sp' \in KState
      BY <1>5, GenesisAssumption, LookFacts
    <2>. QED
      BY <1>5, <2>1 DEF ProcessNewBlock, CheckHeader, TypeOK, startVars
  <1>6. CASE Restart
    <2>1. stopped' \in Notarisation
      BY <1>6 DEF Restart, TypeOK, KState
    <2>2. runs' \in 1 .. MaxRuns
      BY SMT, <1>6, ParameterAssumption DEF Restart, TypeOK
    <2>. QED
      BY <1>6, <2>1, <2>2, EmptyFacts DEF Restart, TypeOK
  <1>. QED
    BY <1>1, <1>2, <1>3, <1>4, <1>5, <1>6 DEF Next

\* ConnectTip, after blocks of other chains were connected and looked over:
\* the rewind takes back what is not of the chain of b.
LEMMA ConnectEvents ==
    ASSUME TypeOK, EventsInv, EventsOfActiveChain, Unreadable,
           NEW b \in Block, NEW verified \in BOOLEAN, ConnectTip(b, verified)
    PROVE  EventsInv' /\ EventsOfActiveChain'
  <1>. DEFINE h == Height[b]
              f == sp'.events
              d == sp.events
  <1>1. /\ tip \in Block /\ sp \in KState /\ hwmheight \in Nat /\ sp' \in KState
        /\ b # Genesis /\ Parent[b] = tip /\ tip' = b /\ hwmheight' = h
    BY ConnectFacts DEF TypeOK, ConnectTip
  <1>2. h \in Nat /\ Height[tip] \in Nat /\ h = Height[tip] + 1 /\ PayAbove \in Nat
    BY <1>1, TypeAssumption, TreeAssumption, ParameterAssumption
  <1>3. PICK r \in KState : /\ IF Reorganised(b, Mark(b)) THEN Rewinds(r, sp, h) ELSE r = sp
                           /\ AddsOf(r.events, f, b)
    BY ConnectFacts
  <1>. DEFINE e == r.events
  <1>4. d \in Seq(Event) /\ e \in Seq(Event) /\ f \in Seq(Event)
    BY <1>1, <1>3 DEF KState
  <1>5. /\ \A i \in 1 .. Len(d) : d[i] \in Event /\ d[i].height = Height[d[i].block]
        /\ \A i \in 1 .. Len(d) : d[i].height > hwmheight => NotaryPay /\ hwmheight > PayAbove
        /\ \A i \in 1 .. Len(d) : d[i].height <= Height[tip] => d[i].block \in Path[tip]
        /\ \A i, j \in 1 .. Len(d) : i < j => d[i].height <= d[j].height
    BY SMT, <1>4 DEF EventsInv, EventsOfActiveChain
  <1>6. /\ Len(e) <= Len(f)
        /\ \A i \in 1 .. Len(f) : IF i <= Len(e) THEN f[i] = e[i] ELSE f[i].height = h /\ f[i].block = b
    BY <1>3 DEF AddsOf
  <1>7. \A i \in 1 .. Len(e) : i \in 1 .. Len(d) /\ e[i] = d[i] /\ e[i].height < h
    <2>1. CASE Reorganised(b, Mark(b))
      <3>1. /\ Len(e) <= Len(d) /\ \A i \in 1 .. Len(e) : e[i] = d[i]
            /\ Len(e) > 0 => e[Len(e)].height < h
        BY <1>3, <2>1 DEF Rewinds
      <3>. SUFFICES ASSUME NEW i \in 1 .. Len(e)
                    PROVE  i \in 1 .. Len(d) /\ e[i] = d[i] /\ e[i].height < h
        OBVIOUS
      <3>2. i \in 1 .. Len(d) /\ Len(e) \in 1 .. Len(d) /\ Len(e) > 0
        BY SMT, <1>4, <3>1
      <3>3. i < Len(e) => d[i].height <= d[Len(e)].height
        BY <1>5, <3>2
      <3>4. d[i].height \in Nat /\ d[Len(e)].height \in Nat
        BY <1>5, <3>2 DEF Event
      <3>5. e[i] = d[i] /\ e[Len(e)] = d[Len(e)] /\ e[Len(e)].height < h
        BY SMT, <3>1, <3>2
      <3>6. i < Len(e) \/ i = Len(e)
        BY SMT, <1>4
      <3>. QED
        BY SMTT(30), <1>2, <3>2, <3>3, <3>4, <3>5, <3>6
    <2>2. CASE ~Reorganised(b, Mark(b))
      <3>1. ~JustChecked(b) /\ hwmheight < h
        BY SMT, <1>1, <1>2, <2>2 DEF Reorganised, Mark
      <3>2. ~(NotaryPay /\ hwmheight > PayAbove)
        BY SMT, <1>1, <1>2, <3>1 DEF JustChecked
      <3>3. e = d
        BY <1>3, <2>2
      <3>. SUFFICES ASSUME NEW i \in 1 .. Len(d) PROVE d[i].height < h
        BY <3>3
      <3>4. d[i].height \in Nat
        BY <1>5 DEF Event
      <3>5. ~(d[i].height > hwmheight)
        BY <1>5, <3>2
      <3>. QED
        BY SMTT(30), <1>1, <1>2, <3>1, <3>4, <3>5
    <2>. QED
      BY <2>1, <2>2
  <1>. HIDE DEF h, e, d, f
  <1>8. \A i \in 1 .. Len(f) :
            /\ f[i].height \in Nat /\ f[i].height <= h
            /\ f[i].height = Height[f[i].block] /\ f[i].block \in Path[b]
    <2>. SUFFICES ASSUME NEW i \in 1 .. Len(f)
                  PROVE  /\ f[i].height \in Nat /\ f[i].height <= h
                         /\ f[i].height = Height[f[i].block] /\ f[i].block \in Path[b]
      OBVIOUS
    <2>1. CASE i <= Len(e)
      <3>1. i \in 1 .. Len(e) /\ f[i] = e[i]
        BY SMT, <1>4, <1>6, <2>1
      <3>2. i \in 1 .. Len(d) /\ f[i] = d[i] /\ f[i].height < h
        BY <1>7, <3>1
      <3>3. d[i] \in Event /\ d[i].height = Height[d[i].block]
        BY <1>5, <3>2
      <3>4. d[i].height \in Nat
        BY <3>3 DEF Event
      <3>5. d[i].height <= Height[tip]
        BY SMTT(30), <1>2, <3>2, <3>4
      <3>6. d[i].block \in Path[tip]
        BY <1>5, <3>2, <3>5
      <3>7. Path[tip] \subseteq Path[b]
        BY <1>1, PathParent
      <3>. QED
        BY SMTT(30), <1>2, <3>2, <3>3, <3>4, <3>6, <3>7
    <2>2. CASE ~(i <= Len(e))
      BY SMT, <1>2, <1>6, <2>2, PathParent DEF h
    <2>. QED
      BY <2>1, <2>2
  <1>9. ASSUME NEW i \in 1 .. Len(f), NEW j \in 1 .. Len(f), i < j
        PROVE  f[i].height <= f[j].height
    <2>1. CASE j <= Len(e)
      <3>1. i \in 1 .. Len(e) /\ j \in 1 .. Len(e) /\ i <= Len(e)
        BY SMT, <1>4, <1>9, <2>1
      <3>2. f[i] = d[i] /\ f[j] = d[j] /\ i \in 1 .. Len(d) /\ j \in 1 .. Len(d)
        BY <1>6, <1>7, <2>1, <3>1
      <3>. QED
        BY <1>5, <1>9, <3>2
    <2>2. CASE ~(j <= Len(e))
      <3>1. f[j].height = h
        BY <1>6, <2>2
      <3>. QED
        BY <1>8, <3>1
    <2>. QED
      BY <2>1, <2>2
  <1>10. DOMAIN f = 1 .. Len(f)
    BY SMT, <1>4
  <1>11. \A i \in 1 .. Len(f) : ~(f[i].height > h)
    BY SMT, <1>2, <1>8
  <1>. QED
    BY <1>1, <1>8, <1>9, <1>10, <1>11 DEF EventsInv, EventsOfActiveChain, f, h

\* ConnectTip: the notarisation that is accepted is on the chain of b, above the
\* last one, so the checkpoints stay nested.
LEMMA ConnectPoints ==
    ASSUME TypeOK, PointsInv,
           NEW b \in Block, NEW verified \in BOOLEAN, ConnectTip(b, verified)
    PROVE  PointsInv'
  <1>. DEFINE n == Notarises[b]
              old == sp.NPOINTS
              new == sp'.NPOINTS
  <1>1. tip \in Block /\ b # Genesis /\ Parent[b] = tip /\ tip' = b /\ sp \in KState
    BY DEF TypeOK, ConnectTip
  <1>2. Path[tip] \subseteq Path[b]
    BY <1>1, PathParent
  <1>3. old \in Seq(Point) /\ sp.last \in Notarisation
    BY <1>1 DEF KState
  <1>4. CASE ~Accepted(b)
    <2>1. new = old /\ sp'.last = sp.last
      BY <1>4, ConnectFacts DEF SameNotarised
    <2>. QED
      BY <1>1, <1>2, <2>1 DEF PointsInv, CheckpointsNested
  <1>5. CASE Accepted(b)
    <2>1. /\ sp'.last = n /\ new = IF verified THEN WithPoint(old, Height[b], n) ELSE old
          /\ sp' \in KState
      BY <1>5, ConnectFacts
    <2>2. n \in Notarisation /\ n # NoNotarisation /\ n.height > sp.last.height
      BY <1>5, NotarisesAssumption DEF Accepted
    <2>3. n.hash \in Path[b] /\ n.height = Height[n.hash]
      BY <2>2, NotarisesAssumption
    <2>4. n.hash \in Block
      BY <2>3, PathParent
    <2>. HIDE DEF n, new
    <2>5. ASSUME sp.last # NoNotarisation PROVE sp.last.hash \in Path[n.hash]
      <3>1. sp.last.hash \in Path[b] /\ sp.last.height = Height[sp.last.hash]
        BY <1>2, <2>5 DEF PointsInv
      <3>2. Height[sp.last.hash] <= Height[n.hash]
        BY SMT, <1>3, <2>2, <2>3, <3>1 DEF Notarisation
      <3>. QED
        BY <2>3, <3>1, <3>2, PathOrder
    <2>6. \A i \in DOMAIN old :
              /\ old[i].notarized_hash \in Path[n.hash]
              /\ old[i].notarized_height = Height[old[i].notarized_hash]
              /\ old[i].notarized_height < n.height
      <3>. SUFFICES ASSUME NEW i \in DOMAIN old
                    PROVE  /\ old[i].notarized_hash \in Path[n.hash]
                           /\ old[i].notarized_height = Height[old[i].notarized_hash]
                           /\ old[i].notarized_height < n.height
        OBVIOUS
      <3>. DEFINE a == old[i].notarized_hash
      <3>1. /\ sp.last # NoNotarisation /\ a \in Path[sp.last.hash]
            /\ old[i].notarized_height = Height[a]
        BY DEF PointsInv
      <3>. HIDE DEF a
      <3>2. sp.last.hash \in Path[n.hash] /\ sp.last.height = Height[sp.last.hash]
        BY <2>5, <3>1 DEF PointsInv
      <3>3. sp.last.hash \in Block
        BY <2>4, <3>2, PathParent
      <3>4. a \in Path[n.hash] /\ Height[a] <= Height[sp.last.hash]
        BY <2>4, <3>1, <3>2, <3>3, Ancestry
      <3>5. a \in Block
        BY <3>1, <3>3, PathParent
      <3>6. Height[a] \in Nat /\ Height[sp.last.hash] \in Nat /\ n.height \in Nat
        BY <2>2, <3>3, <3>5, TypeAssumption DEF Notarisation
      <3>7. Height[a] < n.height
        BY SMT, <2>2, <3>2, <3>4, <3>6
      <3>. QED
        BY <3>1, <3>4, <3>7 DEF a
    <2>7. n.hash \in Path[n.hash]
      BY <2>4, PathParent
    <2>8. CASE ~verified
      <3>1. new = old
        BY <2>1, <2>8
      <3>. QED
        BY <1>1, <2>1, <2>2, <2>3, <2>6, <3>1 DEF PointsInv, CheckpointsNested, new
    <2>9. CASE verified
      <3>. DEFINE c == Carried(Height[b], n)
                  m == Len(old)
      <3>1. c.notarized_hash = n.hash /\ c.notarized_height = n.height
        BY DEF Carried
      <3>. HIDE DEF c
      <3>2. new = Append(old, c)
        BY <2>1, <2>9 DEF c, WithPoint
      <3>3. /\ m \in Nat /\ DOMAIN old = 1 .. m /\ DOMAIN new = 1 .. m + 1 /\ new[m + 1] = c
            /\ \A i \in 1 .. m : new[i] = old[i]
        BY SMT, <1>3, <3>2
      <3>. HIDE DEF old, m
      <3>4. \A i \in DOMAIN new : /\ new[i].notarized_hash \in Path[n.hash]
                                 /\ new[i].notarized_height = Height[new[i].notarized_hash]
        <4>. SUFFICES ASSUME NEW i \in 1 .. m + 1
                      PROVE  /\ new[i].notarized_hash \in Path[n.hash]
                             /\ new[i].notarized_height = Height[new[i].notarized_hash]
          BY <3>3
        <4>1. CASE i \in 1 .. m
          BY <2>6, <3>3, <4>1
        <4>2. CASE i = m + 1
          BY <2>3, <2>7, <3>1, <3>3, <4>2
        <4>. QED
          BY SMT, <3>3, <4>1, <4>2
      <3>5. ASSUME NEW i \in DOMAIN new, NEW j \in DOMAIN new, i < j
            PROVE  /\ new[i].notarized_hash \in Path[new[j].notarized_hash]
                   /\ new[i].notarized_height < new[j].notarized_height
        <4>1. i \in 1 .. m
          BY SMT, <3>3, <3>5
        <4>2. CASE j \in 1 .. m
          BY <3>3, <3>5, <4>1, <4>2 DEF PointsInv, CheckpointsNested, old
        <4>3. CASE j = m + 1
          BY <2>6, <3>1, <3>3, <4>1, <4>3
        <4>. QED
          BY SMT, <3>3, <4>2, <4>3
      <3>. QED
        BY <1>1, <2>1, <2>2, <2>3, <3>4, <3>5 DEF PointsInv, CheckpointsNested, new
    <2>. QED
      BY <2>8, <2>9
  <1>. QED
    BY <1>4, <1>5

\* Connecting a block keeps the invariant.
LEMMA ConnectKeeps ==
    ASSUME StateInv, TypeOK', NEW b \in Block, NEW verified \in Answers, ConnectTip(b, verified)
    PROVE  StateInv'
  <1>1. TypeOK /\ verified \in BOOLEAN /\ (~notary => verified)
    BY DEF StateInv, Answers, TypeOK
  <1>2. /\ unread = <<>> /\ unread' = unread /\ notary' = notary
        /\ tip' = b /\ hwmheight' = Height[b]
    BY DEF ConnectTip, Started, startVars
  <1>3. Unreadable' => Unreadable
    BY <1>1, FileGrows DEF Unreadable
  <1>4. NoOldPoint' => NoOldPoint
    BY <1>1, FileGrows DEF NoOldPoint
  <1>5. Unreadable' => EventsInv' /\ EventsOfActiveChain'
    BY <1>1, <1>3, ConnectEvents DEF StateInv
  <1>6. EventsOfActiveChain'
    BY <1>5 DEF EventsOfActiveChain
  <1>7. HeightsCoverTip'
    <2>1. sp'.CURRENT_HEIGHT >= Height[b] /\ Height[b] \in Nat
      BY <1>1, ConnectFacts, TypeAssumption
    <2>. QED
      BY SMT, <1>2, <2>1 DEF HeightsCoverTip
  <1>8. LastIsNewestPoint'
    <2>. SUFFICES ASSUME ~notary PROVE sp'.last = NewestPoint(sp'.NPOINTS)
      BY <1>2 DEF LastIsNewestPoint
    <2>1. sp.last = NewestPoint(sp.NPOINTS)
      BY DEF StateInv, LastIsNewestPoint
    <2>2. CASE ~Accepted(b)
      BY <1>1, <2>1, <2>2, ConnectFacts DEF SameNotarised
    <2>3. CASE Accepted(b)
      <3>1. /\ sp'.last = Notarises[b]
            /\ sp'.NPOINTS = WithPoint(sp.NPOINTS, Height[b], Notarises[b])
        BY <1>1, <2>3, ConnectFacts
      <3>2. Notarises[b] \in Notarisation /\ Notarises[b].hash \in Block
        BY <2>3, NotarisesAssumption, TypeAssumption DEF Accepted
      <3>3. sp.NPOINTS \in Seq(Point) /\ Height[b] \in Nat
        BY <1>1, TypeAssumption DEF TypeOK, KState
      <3>. QED
        BY SMTT(30), <3>1, <3>2, <3>3, NewestIsAdded
    <2>. QED
      BY <2>2, <2>3
  <1>9. NoOldPoint' => PointsInv'
    BY <1>1, <1>4, ConnectPoints DEF StateInv
  <1>10. \A i \in DOMAIN unread' : \E j \in DOMAIN file' : unread'[i] = file'[j]
    BY SMT, <1>2
  <1>. QED
    BY <1>2, <1>5, <1>6, <1>7, <1>8, <1>9, <1>10 DEF StateInv

\* Disconnecting the tip, which is not the last notarised block, keeps the
\* invariant: nothing but the tip changes.
LEMMA DisconnectKeeps ==
    ASSUME StateInv, TypeOK', DisconnectTip
    PROVE  StateInv'
  <1>1. /\ tip \in Block /\ tip # Genesis /\ sp.last.hash # tip /\ tip' = Parent[tip]
        /\ sp' = sp /\ hwmheight' = hwmheight /\ file' = file /\ unread' = unread
        /\ notary' = notary
    BY DEF StateInv, TypeOK, DisconnectTip, startVars
  <1>2. /\ Height[tip] = Height[tip'] + 1 /\ Height[tip] \in Nat /\ Height[tip'] \in Nat
        /\ tip' \in Block
    BY <1>1, TypeAssumption, TreeAssumption
  <1>3. EventsOfActiveChain'
    <2>. SUFFICES ASSUME Unreadable, NEW i \in DOMAIN sp.events, sp.events[i].height <= Height[tip']
                  PROVE  sp.events[i].block \in Path[tip']
      BY <1>1 DEF EventsOfActiveChain, Unreadable, StateInv
    <2>1. sp.events[i].height = Height[sp.events[i].block]
      BY DEF StateInv, EventsInv
    <2>2. sp.events[i] \in Event
      <3>1. sp.events \in Seq(Event)
        BY DEF StateInv, TypeOK, KState
      <3>. QED
        BY SMT, <3>1
    <2>3. sp.events[i].height \in Nat
      BY <2>2 DEF Event
    <2>4. sp.events[i].height <= Height[tip]
      BY SMT, <1>2, <2>3
    <2>5. sp.events[i].block \in Path[tip]
      BY <2>4 DEF StateInv, EventsOfActiveChain
    <2>6. sp.events[i].block # tip
      BY SMT, <1>2, <2>1, <2>3
    <2>. QED
      BY <1>1, <2>5, <2>6, ProperAncestor
  <1>4. Unreadable' => EventsInv'
    BY <1>1 DEF StateInv, Unreadable, EventsInv
  <1>5. HeightsCoverTip'
    <2>1. sp.CURRENT_HEIGHT \in Nat /\ hwmheight \in Nat
      BY DEF StateInv, TypeOK, KState
    <2>. QED
      BY SMT, <1>1, <1>2, <2>1 DEF StateInv, HeightsCoverTip
  <1>6. NoOldPoint' => PointsInv'
    <2>. SUFFICES ASSUME NoOldPoint PROVE PointsInv'
      BY <1>1 DEF NoOldPoint
    <2>1. PointsInv
      BY DEF StateInv
    <2>2. sp.last # NoNotarisation => sp.last.hash \in Path[tip']
      BY <1>1, <2>1, ProperAncestor DEF PointsInv
    <2>. QED
      BY <1>1, <2>1, <2>2 DEF PointsInv, CheckpointsNested
  <1>. QED
    BY <1>1, <1>3, <1>4, <1>5, <1>6 DEF StateInv, LastIsNewestPoint

\* A turn of the loop of komodo_faststateinit keeps the invariant.
LEMMA ParseKeeps ==
    ASSUME StateInv, TypeOK', komodo_faststateinit
    PROVE  StateInv'
  <1>1. /\ TypeOK /\ unread # <<>> /\ unread \in Seq(Record) /\ unread' = Tail(unread)
        /\ tip' = tip /\ hwmheight' = hwmheight /\ file' = file /\ notary' = notary
    BY DEF StateInv, TypeOK, komodo_faststateinit
  <1>2. hwmheight = 0
    BY <1>1 DEF StateInv
  <1>3. \A i \in DOMAIN unread : \E j \in DOMAIN file : unread[i] = file[j]
    BY DEF StateInv
  <1>4. /\ 1 \in DOMAIN unread /\ Head(unread) = unread[1]
        /\ \A i \in DOMAIN unread' : i + 1 \in DOMAIN unread /\ unread'[i] = unread[i + 1]
    BY SMT, <1>1
  <1>5. \A i \in DOMAIN unread' : \E j \in DOMAIN file' : unread'[i] = file'[j]
    BY SMT, <1>1, <1>3, <1>4
  <1>6. Unreadable' => Unreadable /\ sp' = sp
    BY <1>1, <1>3, <1>4, ParseFacts DEF Unreadable
  <1>7. NoOldPoint' => NoOldPoint /\ SameNotarised(sp', sp)
    BY <1>1, <1>3, <1>4, ParseFacts DEF NoOldPoint
  <1>8. Unreadable' => EventsInv'
    BY <1>1, <1>6 DEF StateInv, EventsInv
  <1>9. EventsOfActiveChain'
    BY <1>1, <1>6 DEF StateInv, EventsOfActiveChain
  <1>10. NoOldPoint' => PointsInv'
    BY <1>1, <1>7 DEF StateInv, PointsInv, CheckpointsNested, SameNotarised
  <1>11. LastIsNewestPoint'
    BY <1>1, ParseFacts DEF StateInv, LastIsNewestPoint
  <1>12. HeightsCoverTip'
    BY SMT, <1>1, <1>2 DEF HeightsCoverTip
  <1>. QED
    BY <1>1, <1>2, <1>5, <1>8, <1>9, <1>10, <1>11, <1>12 DEF StateInv

\* A block that is only looked over, a new block and a header keep the invariant.
LEMMA LookKeeps ==
    ASSUME StateInv, TypeOK', NEW b \in Block, RefuseBlock(b) \/ ProcessNewBlock \/ CheckHeader
    PROVE  StateInv'
  <1>1. TypeOK
    BY DEF StateInv
  <1>2. /\ tip \in Block /\ hwmheight \in Nat /\ sp \in KState
        /\ tip' = tip /\ file' = file /\ unread' = unread /\ notary' = notary /\ unread = <<>>
        /\ RefuseBlock(b) \/ hwmheight' = hwmheight
    BY <1>1 DEF TypeOK, RefuseBlock, ProcessNewBlock, CheckHeader, startVars, Started
  <1>3. sp'.events = sp.events /\ SameNotarised(sp', sp)
    BY <1>1, LookFacts
  <1>4. Unreadable' => EventsInv'
    <2>1. CASE RefuseBlock(b)
      <3>1. hwmheight' = Height[b] /\ NotaryPay /\ Height[b] > PayAbove
        BY <2>1 DEF RefuseBlock, JustChecked
      <3>. QED
        BY <1>2, <1>3, <3>1 DEF StateInv, Unreadable, EventsInv
    <2>2. CASE hwmheight' = hwmheight
      BY <1>2, <1>3, <2>2 DEF StateInv, Unreadable, EventsInv
    <2>. QED
      BY <1>2, <2>1, <2>2
  <1>5. EventsOfActiveChain'
    BY <1>2, <1>3 DEF StateInv, Unreadable, EventsOfActiveChain
  <1>6. HeightsCoverTip'
    <2>1. Height[tip] \in Nat /\ Height[b] \in Nat /\ sp.CURRENT_HEIGHT \in Nat
      BY <1>2, TypeAssumption DEF KState
    <2>2. CASE RefuseBlock(b)
      <3>1. sp'.CURRENT_HEIGHT = Height[tip] /\ hwmheight' = Height[b]
        BY <1>1, <2>2, LookFacts DEF RefuseBlock
      <3>2. Height[b] = Height[tip] + 1
        BY <2>2, TreeAssumption DEF RefuseBlock
      <3>. QED
        BY SMTT(30), <1>2, <2>1, <3>1, <3>2 DEF HeightsCoverTip
    <2>3. CASE hwmheight' = hwmheight
      <3>1. sp'.CURRENT_HEIGHT \in {sp.CURRENT_HEIGHT, Height[tip]}
        BY <1>1, LookFacts
      <3>. QED
        BY SMTT(30), <1>2, <2>1, <2>3, <3>1 DEF StateInv, HeightsCoverTip
    <2>. QED
      BY <1>2, <2>2, <2>3
  <1>7. LastIsNewestPoint'
    BY <1>2, <1>3 DEF StateInv, LastIsNewestPoint, SameNotarised
  <1>8. NoOldPoint' => PointsInv'
    BY <1>2, <1>3 DEF StateInv, NoOldPoint, PointsInv, CheckpointsNested, SameNotarised
  <1>. QED
    BY <1>2, <1>4, <1>5, <1>6, <1>7, <1>8 DEF StateInv

\* Every step keeps the invariant.
LEMMA StepInv == StateInv /\ [Next]_vars => StateInv'
  <1>. SUFFICES ASSUME StateInv, [Next]_vars PROVE StateInv'
    OBVIOUS
  <1>1. CASE UNCHANGED vars
    BY <1>1 DEF vars, startVars, StateInv, TypeOK, Unreadable, NoOldPoint, EventsInv,
                EventsOfActiveChain, HeightsCoverTip, LastIsNewestPoint, PointsInv, CheckpointsNested
  <1>2. CASE Next
    <2>. USE <1>2
    <2>1. TypeOK'
      BY TypeStep DEF StateInv
    <2>2. CASE komodo_faststateinit
      BY <2>1, <2>2, ParseKeeps
    <2>3. CASE \E b \in Block, verified \in Answers : ConnectTip(b, verified)
      BY <2>1, <2>3, ConnectKeeps
    <2>4. CASE (\E b \in Block : RefuseBlock(b)) \/ ProcessNewBlock \/ CheckHeader
      BY <2>1, <2>4, LookKeeps, GenesisAssumption
    <2>5. CASE DisconnectTip
      BY <2>1, <2>5, DisconnectKeeps
    <2>6. CASE Restart
      <3>1. sp' = EmptyState /\ unread' = file' /\ hwmheight' = 0
        BY <2>6 DEF Restart
      <3>2. (TypeOK /\ sp = EmptyState /\ unread = file /\ hwmheight = 0)' => StateInv'
        BY FreshInv, PTL
      <3>. QED
        BY <2>1, <3>1, <3>2 DEF EmptyState, NoNotarisation
    <2>. QED
      BY <2>2, <2>3, <2>4, <2>5, <2>6 DEF Next
  <1>. QED
    BY <1>1, <1>2
----------------------------------------------------------------------------
(***************************************************************************)
(* The theorems.                                                           *)
(***************************************************************************)
\* The inductive invariant holds, for every tree, every placement of
\* notarisations and every file that an earlier release left.
THEOREM StateInvariant == Spec => []StateInv
  BY InitInv, StepInv, PTL DEF Spec

\* Once blocks are connected again, no event up to the height of the tip
\* belongs to a block that was disconnected, and the events are in the order
\* of the heights, whatever the order in which blocks are connected,
\* disconnected and looked over.
THEOREM EventsStayOfActiveChain == Spec => []EventsOfActiveChain
  <1>1. StateInv => EventsOfActiveChain
    BY DEF StateInv
  <1>. QED
    BY <1>1, StateInvariant, PTL

\* The reported height and the high water mark are never below the tip, once
\* a block was connected or looked over.
THEOREM HeightsStayAboveTip == Spec => []HeightsCoverTip
  <1>1. StateInv => HeightsCoverTip
    BY DEF StateInv
  <1>. QED
    BY <1>1, StateInvariant, PTL

\* The two memories of the last notarisation agree on a node that is not a
\* notary, at every moment of a start too.
THEOREM LastStaysNewestPoint == Spec => []LastIsNewestPoint
  <1>1. StateInv => LastIsNewestPoint
    BY DEF StateInv
  <1>. QED
    BY <1>1, StateInvariant, PTL

\* The search of NotarizedData with its cached index is exact in every state.
THEOREM SearchStaysExact == Spec => []SearchExact
  <1>1. StateInv => SearchExact
    BY SearchIsExact DEF StateInv
  <1>. QED
    BY <1>1, StateInvariant, PTL

\* The earlier release left no notarisation in the file.
NothingInherited == \A i \in Inherited : \A j \in DOMAIN i.file : i.file[j].func # "N"

\* Where the earlier release left no notarisation, the checkpoints are nested
\* forever, on a notary too.  (A notary that disputes an inherited one may reorganise
\* below it, and take it from the file when it is started again.)
THEOREM CheckpointsStayNested ==
    ASSUME NothingInherited
    PROVE  Spec => []CheckpointsNested
  <1>1. Init => NoOldPoint
    BY DEF Init, NoOldPoint, NothingInherited
  <1>2. StateInv /\ NoOldPoint /\ [Next]_vars => NoOldPoint'
    <2>. SUFFICES ASSUME StateInv, NoOldPoint, [Next]_vars PROVE NoOldPoint'
      OBVIOUS
    <2>1. ASSUME NEW b \in Block, NEW verified \in Answers, ConnectTip(b, verified)
          PROVE  NoOldPoint'
      <3>1. TypeOK /\ verified \in BOOLEAN
        BY DEF StateInv, Answers
      <3>. QED
        BY SMTT(30), <2>1, <3>1, FileGrows DEF NoOldPoint, Unknown
    <2>2. CASE file' = file
      BY <2>2 DEF NoOldPoint
    <2>. QED
      BY <2>1, <2>2 DEF Next, vars, komodo_faststateinit, RefuseBlock, DisconnectTip,
                        ProcessNewBlock, CheckHeader, Restart
  <1>3. StateInv /\ NoOldPoint => CheckpointsNested
    BY DEF StateInv, PointsInv
  <1>. QED
    BY <1>1, <1>2, <1>3, StateInvariant, PTL DEF Spec
=============================================================================
