---------------------------- MODULE KomodoState ----------------------------
(***************************************************************************)
(* komodo_state, the memory of delayed proof of work, over reorganisations *)
(* and restarts: the list of events, SAVEDHEIGHT and CURRENT_HEIGHT, the   *)
(* notarised checkpoints, the static hwmheight of komodo_connectblock and  *)
(* the file komodostate, which is read back, record by record, when the    *)
(* node starts.                                                            *)
(* The active chain moves as ActivateBestChain may move it: by one block   *)
(* at the tip, never below the last notarised block.  Every block of the   *)
(* tree is in the block index, and the node is past the initial download.  *)
(* The events of ratified notaries, prices and op_returns, which change    *)
(* nothing of the state modelled here, are left out.                       *)
(***************************************************************************)
EXTENDS Checkpoints, FiniteSetsExt

CONSTANTS
    Notarises,    \* the notarisation a block carries, or NoNotarisation
    AssetChain,   \* ASSETCHAINS_SYMBOL[0] # 0
    NotaryPay,    \* ASSETCHAINS_NOTARY_PAY[0] # 0
    PayAbove,     \* the height from which notary pay is checked (10)
    Inherited,    \* the tip and the komodostate that an earlier release left
    MaxFile,      \* bound: the records in the file
    MaxRuns       \* bound: how often the node is started

VARIABLES
    tip,          \* chainActive.Tip()
    sp,           \* the komodo_state
    hwmheight,    \* static in komodo_connectblock
    file,         \* the records of komodostate
    unread,       \* the records the start has still to read (from fpos on)
    notary,       \* IS_KOMODO_NOTARY, given at the start
    runs,         \* how often the node was started
    stopped       \* history: `last' at the stop, until the next start is over

startVars == <<unread, notary, runs, stopped>>
vars == <<tip, sp, hwmheight, file, startVars>>

Notarisation == [hash : Block \cup {NoBlock}, height : Nat]
NoNotarisation == [hash |-> NoBlock, height |-> 0]

\* enum komodo_event_type, and the characters komodo_event_undo compares an
\* event's type with.
EVENT_NOTARIZED == 1
EVENT_KMDHEIGHT == 3
EVENT_REWIND == 6
KOMODO_EVENT_KMDHEIGHT == 75    \* 'K'

\* An event; `block' is the block that was being connected, for the
\* properties only.
Event == [type : {EVENT_NOTARIZED, EVENT_KMDHEIGHT, EVENT_REWIND}, height : Nat, block : Block]

\* A record of the file: a height event (K, T), a notarisation (N, M), or
\* bytes that begin with none of the letters the parser knows.
Unknown == [func |-> "unknown"]
KRecord == [func : {"K"}, height : Nat, kheight : Int, block : Block]
NRecord == [func : {"N"}, height : Nat, point : [hash : Block, height : Nat], block : Block]
Record == KRecord \cup NRecord \cup {Unknown}

ASSUME ParameterAssumption ==
    /\ {AssetChain, NotaryPay} \subseteq BOOLEAN
    /\ {PayAbove, MaxFile} \subseteq Nat /\ MaxRuns \in Nat \ {0}

\* A notarisation names an earlier block of the chain that carries it.
ASSUME NotarisesAssumption ==
    /\ Notarises \in [Block -> Notarisation]
    /\ \A b \in Block :
          \/ Notarises[b] = NoNotarisation
          \/ /\ Notarises[b].hash \in Path[b] \ {Genesis}
             /\ Notarises[b].height = Height[Notarises[b].hash]

ASSUME InheritedAssumption ==
    \A i \in Inherited : i.tip \in Block /\ i.file \in Seq(KRecord \cup NRecord)
----------------------------------------------------------------------------
(***************************************************************************)
(* The operations of komodo_state, on a state s.                           *)
(***************************************************************************)
Point == [nHeight : Nat, notarized_height : Nat, notarized_hash : Block]

KState ==
    [events : Seq(Event), SAVEDHEIGHT : Nat, CURRENT_HEIGHT : Nat, NPOINTS : Seq(Point),
     NPOINTS_last_index : Nat, last : Notarisation]

EmptyState ==
    [events |-> <<>>, SAVEDHEIGHT |-> 0, CURRENT_HEIGHT |-> 0, NPOINTS |-> <<>>,
     NPOINTS_last_index |-> 0, last |-> NoNotarisation]

\* komodo_state::add_event: the main chain keeps no events.
add_event(s, e) == IF AssetChain THEN [s EXCEPT !.events = Append(@, e)] ELSE s

\* komodo_event_undo, for all the events e of a set: types are compared with
\* the characters.
komodo_event_undo(s, undone) ==
    [s EXCEPT !.SAVEDHEIGHT =
        Min({@} \cup {e.height : e \in {e \in undone : e.type = KOMODO_EVENT_KMDHEIGHT}})]

\* komodo_event_rewind: the events from the back of the list, as long as they
\* are not below the height.
komodo_event_rewind(s, height) ==
    LET kept == CHOOSE n \in 0 .. Len(s.events) :
                    /\ \A i \in n + 1 .. Len(s.events) : s.events[i].height >= height
                    /\ n > 0 => s.events[n].height < height
        undone == {s.events[i] : i \in kept + 1 .. Len(s.events)}
    IN  [komodo_event_undo(s, undone) EXCEPT !.events = SubSeq(@, 1, kept)]

\* A slip in komodo_setkmdheight: the current height is left alone.
SetSavedHeightOnly(s, kmdheight) == [s EXCEPT !.SAVEDHEIGHT = Max({@, kmdheight})]

komodo_setkmdheight(s, kmdheight) ==
    [s EXCEPT !.SAVEDHEIGHT = Max({@, kmdheight}), !.CURRENT_HEIGHT = Max({@, kmdheight})]

\* komodo_eventadd_kmdheight: forward, or a rewind, which undoes the event it
\* has just added.
komodo_eventadd_kmdheight(s, height, kheight, b) ==
    IF kheight > 0
    THEN komodo_setkmdheight(
             add_event(s, [type |-> EVENT_KMDHEIGHT, height |-> height, block |-> b]), kheight)
    ELSE komodo_event_rewind(
             add_event(s, [type |-> EVENT_REWIND, height |-> height, block |-> b]), height)

\* komodo_notarized_update and AddCheckpoint.
komodo_notarized_update(s, height, point) ==
    IF point.height >= height THEN s
    ELSE [s EXCEPT !.NPOINTS = Append(@, [nHeight |-> height,
                                          notarized_height |-> point.height,
                                          notarized_hash |-> point.hash]),
                   !.last = point]

\* komodo_eventadd_notarized, when komodo_verifynotarization does not object.
komodo_eventadd_notarized(s, height, point, b) ==
    komodo_notarized_update(
        add_event(s, [type |-> EVENT_NOTARIZED, height |-> height, block |-> b]), height, point)

\* A slip in komodo_currentheight_set: one block too low.
SetHeightBelow(s, height) == [s EXCEPT !.CURRENT_HEIGHT = height - 1]

\* komodo_currentheight_set
komodo_currentheight_set(s, height) == [s EXCEPT !.CURRENT_HEIGHT = height]
----------------------------------------------------------------------------
(***************************************************************************)
(* The file.                                                               *)
(***************************************************************************)
\* write_event: the stream operator that takes the shared pointer writes the
\* address it holds ("0x..."), of which no character is a known letter.
write_event(r) == Unknown

\* komodo_parsestatefiledata for one record: unknown letters are skipped.  A
\* notary node does not take a notarisation that the other chain disputes.
komodo_parsestatefiledata(s, r, verified) ==
    CASE r.func = "K" -> komodo_eventadd_kmdheight(s, r.height, r.kheight, r.block)
      [] r.func = "N" /\ verified -> komodo_eventadd_notarized(s, r.height, r.point, r.block)
      [] OTHER -> s

\* The answers komodo_verifynotarization may give; only a notary asks.
Answers == IF notary THEN BOOLEAN ELSE {TRUE}

\* komodo_faststateinit: one turn of its loop, for the next record.
komodo_faststateinit ==
    /\ unread # <<>>
    /\ \E verified \in Answers : sp' = komodo_parsestatefiledata(sp, Head(unread), verified)
    /\ unread' = Tail(unread)
    /\ stopped' = IF unread' = <<>> THEN NoNotarisation ELSE stopped
    /\ UNCHANGED <<tip, hwmheight, file, notary, runs>>

\* komodo_init is done: blocks and headers are processed.
Started == unread = <<>>
----------------------------------------------------------------------------
(***************************************************************************)
(* Connecting and disconnecting blocks.                                    *)
(***************************************************************************)
\* komodo_connectblock(true): on a chain that pays its notaries ConnectBlock
\* first looks the block over; only the heights change.
JustChecked(b) == NotaryPay /\ Height[b] > PayAbove

\* A slip in komodo_connectblock: a block at the high water mark itself is not
\* taken for a reorganisation.
RewindBelowMark(b, mark) == Height[b] < mark

\* komodo_connectblock finds that the chain was reorganised: the block is not
\* above the high water mark (which a preceding look at the block has set).
Reorganised(b, mark) == Height[b] <= mark

\* The state after the rewind and its record.
Rewound(s, b) ==
    komodo_eventadd_kmdheight(komodo_event_rewind(s, Height[b]), Height[b], -Height[b], b)

\* A slip in komodo_voutupdate: any notarisation of an earlier block is taken.
AcceptOlder(b) == Notarises[b] # NoNotarisation /\ Notarises[b].height < Height[b]

\* komodo_voutupdate: the notarisation of b is above the last one, and of a
\* block below b.
Accepted(b) ==
    /\ Notarises[b] # NoNotarisation
    /\ Notarises[b].height > sp.last.height
    /\ Notarises[b].height < Height[b]

\* A slip in komodo_connectblock: the checkpoint is added, `last' is forgotten.
NotarisedPointOnly(s, b, verified) ==
    [komodo_eventadd_notarized(s, Height[b], Notarises[b], b) EXCEPT !.last = s.last]

\* komodo_voutupdate moves `last' first; komodo_stateupdate then writes the
\* event and adds it.
Notarised(s, b, verified) ==
    LET moved == [s EXCEPT !.last = Notarises[b]]
    IN  IF verified
        THEN komodo_eventadd_notarized(moved, Height[b], Notarises[b], b)
        ELSE moved

\* komodo_stateupdate: what the connection of b writes.
Written(b, reorg) ==
    LET K(h) == write_event([func |-> "K", height |-> Height[b], kheight |-> h, block |-> b])
        N    == write_event([func |-> "N", height |-> Height[b], point |-> Notarises[b], block |-> b])
    IN  (IF reorg THEN <<K(-Height[b])>> ELSE <<>>)
            \o (IF Accepted(b) THEN <<N>> ELSE <<>>)
            \o <<K(Height[b])>>

\* ConnectTip: ConnectBlock, which ends with komodo_connectblock(false).
ConnectTip(b, verified) ==
    LET mark  == IF JustChecked(b) THEN Height[b] ELSE hwmheight
        reorg == Reorganised(b, mark)
        start == komodo_currentheight_set(IF reorg THEN Rewound(sp, b) ELSE sp, Height[tip])
        noted == IF Accepted(b) THEN Notarised(start, b, verified) ELSE start
    IN  /\ Started
        /\ b # Genesis
        /\ Parent[b] = tip
        /\ Len(file) < MaxFile
        /\ tip' = b
        /\ hwmheight' = Height[b]
        /\ sp' = komodo_eventadd_kmdheight(noted, Height[b], Height[b], b)
        /\ file' = file \o Written(b, reorg)
        /\ UNCHANGED startVars

\* ConnectBlock refuses b after komodo_connectblock(true), or was asked for a
\* check only (TestBlockValidity).
RefuseBlock(b) ==
    /\ Started
    /\ b # Genesis
    /\ Parent[b] = tip
    /\ JustChecked(b)
    /\ hwmheight' = Height[b]
    /\ sp' = komodo_currentheight_set(sp, Height[tip])
    /\ UNCHANGED <<tip, file, startVars>>

\* DisconnectTip: refused for the last notarised block; komodo_disconnect
\* changes nothing.
DisconnectTip ==
    /\ Started
    /\ tip # Genesis
    /\ sp.last.hash # tip
    /\ tip' = Parent[tip]
    /\ UNCHANGED <<sp, hwmheight, file, startVars>>

\* ProcessNewBlock begins by setting the current height.
ProcessNewBlock ==
    /\ Started
    /\ sp' = komodo_currentheight_set(sp, Height[tip])
    /\ UNCHANGED <<tip, hwmheight, file, startVars>>

\* What komodo_checkpoint consults for a header.
Consulted == NotarizedData(sp.NPOINTS, sp.NPOINTS_last_index, Height[tip])

\* komodo_checkpoint, for any header: the search leaves its place behind.
CheckHeader ==
    /\ Started
    /\ sp' = [sp EXCEPT !.NPOINTS_last_index = Consulted.last_index]
    /\ UNCHANGED <<tip, hwmheight, file, startVars>>

\* The node stops, at any time, and starts: the statics and the state are new,
\* and komodo_init begins to read the file.
Restart ==
    /\ runs < MaxRuns
    /\ notary' \in BOOLEAN
    /\ sp' = EmptyState
    /\ unread' = file
    /\ stopped' = IF Started THEN sp.last ELSE stopped
    /\ hwmheight' = 0
    /\ runs' = runs + 1
    /\ UNCHANGED <<tip, file>>

Init ==
    /\ \E i \in Inherited : tip = i.tip /\ file = i.file
    /\ notary \in BOOLEAN
    /\ sp = EmptyState
    /\ unread = file
    /\ stopped = NoNotarisation
    /\ hwmheight = 0
    /\ runs = 1

Next ==
    \/ komodo_faststateinit
    \/ \E b \in Block, verified \in Answers : ConnectTip(b, verified)
    \/ \E b \in Block : RefuseBlock(b)
    \/ DisconnectTip
    \/ ProcessNewBlock
    \/ CheckHeader
    \/ Restart

Spec == Init /\ [][Next]_vars
----------------------------------------------------------------------------
TypeOK ==
    /\ tip \in Block
    /\ sp \in KState
    /\ hwmheight \in Nat
    /\ file \in Seq(Record) /\ unread \in Seq(Record)
    /\ notary \in BOOLEAN
    /\ runs \in 1 .. MaxRuns
    /\ stopped \in Notarisation

\* No start gives an event back.
Unreadable == \A i \in DOMAIN file : file[i] = Unknown

\* No start gives a notarisation back.
NoOldPoint == \A i \in DOMAIN file : file[i].func # "N"

\* Once blocks are connected again, no event up to the height of the tip
\* belongs to a block that was disconnected, and the events are in the order
\* of the heights (the rewind of komodo_connectblock, whose high water mark
\* moves up and down with the blocks that are connected or looked over).  This
\* needs that a start gives no event back, after which the mark is 0.
EventsOfActiveChain ==
    Unreadable =>
    /\ \A i \in DOMAIN sp.events :
           sp.events[i].height <= Height[tip] => sp.events[i].block \in Path[tip]
    /\ \A i, j \in DOMAIN sp.events : i < j => sp.events[i].height <= sp.events[j].height

\* A node that has connected or looked over a block since it was started
\* never reports a height below that of its tip (komodo_currentheight, with
\* the settings of it in ProcessNewBlock, komodo_connectblock and
\* komodo_setkmdheight), and the high water mark is not below it.
HeightsCoverTip ==
    hwmheight > 0 => sp.CURRENT_HEIGHT >= Height[tip] /\ hwmheight >= Height[tip]

\* Each checkpoint notarises a descendant of what the checkpoints before it
\* notarise, although carriers of checkpoints are disconnected
\* (komodo_voutupdate against DisconnectTip).  Where an inherited notarisation
\* is of a fork this needs that no notary disputes it.
CheckpointsNested ==
    \A i, j \in DOMAIN sp.NPOINTS : i < j =>
        /\ sp.NPOINTS[i].notarized_hash \in Path[sp.NPOINTS[j].notarized_hash]
        /\ sp.NPOINTS[i].notarized_height < sp.NPOINTS[j].notarized_height

\* The notarisation of the newest checkpoint.
NewestPoint(pts) ==
    IF pts = <<>> THEN NoNotarisation
    ELSE [hash |-> pts[Len(pts)].notarized_hash, height |-> pts[Len(pts)].notarized_height]

\* On a node that is not a notary, the last notarised block, which guards
\* DisconnectTip, is that of the newest checkpoint, which guards the headers:
\* the two memories agree, also after a start.
LastIsNewestPoint == ~notary => sp.last = NewestPoint(sp.NPOINTS)

\* As long as no reorganisation has put the carriers out of order, the search
\* gives the newest checkpoint below any height, wherever the last search
\* stopped (NotarizedData and its cached index).
SearchExact ==
    CarriersInOrder(sp.NPOINTS) =>
        \A b \in Block :
            NotarizedData(sp.NPOINTS, sp.NPOINTS_last_index, Height[b]).np =
                NewestBelow(sp.NPOINTS, Height[b])

\* What the events are while no start gives one back: each has the height of its
\* block, and one above the high water mark is met by a mark above PayAbove,
\* where every block that is connected is looked over first.
EventsInv ==
    /\ \A i \in DOMAIN sp.events : sp.events[i].height = Height[sp.events[i].block]
    /\ \A i \in DOMAIN sp.events :
           sp.events[i].height > hwmheight => NotaryPay /\ hwmheight > PayAbove

\* What `last' and the checkpoints are while no start gives a notarisation back:
\* `last' is on the active chain, and above what each checkpoint notarises.
PointsInv ==
    /\ sp.last # NoNotarisation =>
           sp.last.hash \in Path[tip] /\ sp.last.height = Height[sp.last.hash]
    /\ \A i \in DOMAIN sp.NPOINTS :
           /\ sp.last # NoNotarisation
           /\ sp.NPOINTS[i].notarized_hash \in Path[sp.last.hash]
           /\ sp.NPOINTS[i].notarized_height = Height[sp.NPOINTS[i].notarized_hash]
    /\ CheckpointsNested

\* The inductive invariant: the types, what a start in progress has left to
\* read, and why the events, the heights, `last' and the checkpoints are right
\* (komodo_connectblock, komodo_faststateinit).
StateInv ==
    /\ TypeOK
    /\ unread # <<>> => hwmheight = 0
    /\ \A i \in DOMAIN unread : \E j \in DOMAIN file : unread[i] = file[j]
    /\ Unreadable => EventsInv
    /\ EventsOfActiveChain
    /\ HeightsCoverTip
    /\ LastIsNewestPoint
    /\ NoOldPoint => PointsInv
----------------------------------------------------------------------------
(***************************************************************************)
(* What a comment promises and the code does not keep.                     *)
(***************************************************************************)
\* What was notarised before a stop is known after the start, unless a notary
\* disputes it (write_event: "persist event to file stream").
NotarisationPersisted ==
    [][runs > 1 /\ ~notary /\ ~Started /\ Started' => sp'.last = stopped]_vars
=============================================================================
