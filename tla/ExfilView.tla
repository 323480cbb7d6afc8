----------------------------- MODULE ExfilView -----------------------------
(***************************************************************************)
(* The Exfiltration view (internal/tui/egressmodel.go): the tree of apps,  *)
(* their processes and their connections, and the dashboard of one app     *)
(* that zooms in on it.  Both are computed from the groups of the latest   *)
(* sample each time they are drawn and each time a key is handled; cursors *)
(* are positions in them, apps are remembered by their display name and    *)
(* processes by their pid.  The key `i` picks the flow to inspect.         *)
(*                                                                         *)
(* The filter is not modelled: no key sets it.  Neither are the keys that  *)
(* only change what is plotted or copy a path.                             *)
(***************************************************************************)
EXTENDS Egress, Inspect, Functions

CONSTANTS NoZoom,
          AppName,      \* the display name of an app: a rank, and not unique
          LsofOrder     \* the place of a socket in what lsof lists

\* An endpoint is ordered as the string it is.
ASSUME ViewAssumption == /\ Pids \cup IPs \subseteq Nat
                         /\ AppName \in [Pids \cup Paths -> Nat]
                         /\ LsofOrder \in Injection(Sockets, Nat)
                         /\ NoFlow \notin Sockets

VARIABLES groups,       \* em.Groups: the sample on show
          sortBy,       \* em.Sort
          selected,     \* em.Selected: the cursor in the tree, from 1
          expanded,     \* em.expanded: display names
          expandedPID,  \* em.expandedPID
          zoom          \* em.Zoom, or NoZoom

treeVars == <<sortBy, selected, expanded, expandedPID>>
exfilVars == <<groups, treeVars, zoom>>

Sorts == <<"rate", "concern", "exfil", "app">>

ViewTypeOK == /\ sortBy \in DOMAIN Sorts
              /\ selected \in Nat \ {0}
              /\ expanded \subseteq Range(AppName) /\ expandedPID \subseteq Pids
              /\ zoom # NoZoom => /\ zoom.sel \in Nat \ {0} /\ zoom.selDest \in Nat \ {0}
                                  /\ zoom.app \in Range(AppName) /\ zoom.byDest \in BOOLEAN

ViewInit == groups = None /\ sortBy = 1 /\ selected = 1 /\ expanded = {} /\ expandedPID = {}
            /\ zoom = NoZoom

\* clamp
Clamped(i, n) == IF n = 0 \/ i < 1 THEN 1 ELSE Min({i, n})

-----------------------------------------------------------------------------
(* The tree. *)

\* Lexicographic: by the first rank that differs.
Before(a, b) == \E i \in DOMAIN a : a[i] < b[i] /\ \A j \in 1 .. i - 1 : a[j] = b[j]

\* The i-th of the things that E pairs with a rank each.
Nth(E, i) == (CHOOSE e \in E : Cardinality({d \in E : Before(d[1], e[1])}) = i - 1)[2]

SortKey(g, a) == CASE Sorts[sortBy] = "rate" -> -g.rate
                   [] Sorts[sortBy] = "concern" -> -Concern(g)
                   [] Sorts[sortBy] = "exfil" -> -Exfil(g)
                   [] Sorts[sortBy] = "app" -> AppName[a]

\* The sort is stable, and Sample lists the groups by their smallest pid.
GroupRank(g, a) == <<SortKey(g, a), Min(DOMAIN g.members)>>

FlowsOf(g, p) == {s \in DOMAIN g.conns : s.pid = p}

\* visibleRows: <<app>>, <<app, pid>> and <<app, pid, flow>>.
PidRows(gs) == UNION {{a} \X DOMAIN gs[a].members : a \in {b \in DOMAIN gs : AppName[b] \in expanded}}
FlowRows(gs) == UNION {{<<r[1], r[2], s>> : s \in FlowsOf(gs[r[1]], r[2])} :
                          r \in {q \in PidRows(gs) : q[2] \in expandedPID}}
Rows(gs) == {<<a>> : a \in DOMAIN gs} \cup PidRows(gs) \cup FlowRows(gs)

\* What is unfolded comes below what it belongs to.
RowRank(g, row) == <<SortKey(g, row[1]), Min(DOMAIN g.members),
                     IF Len(row) = 1 THEN -1 ELSE row[2],
                     IF Len(row) < 3 THEN -1 ELSE LsofOrder[row[3]]>>

OnScreen == 1 .. Cardinality(Rows(groups))
SelectedRow == Nth({<<RowRank(groups[row[1]], row), row>> : row \in Rows(groups)}, selected)

\* withGroups
WithGroups(gs) == /\ groups' = gs
                  /\ selected' = IF selected > Cardinality(Rows(gs)) THEN 1 ELSE selected
                  /\ UNCHANGED <<sortBy, expanded, expandedPID, zoom>>

\* busiestConn: of those with the highest rate the first, by their processes and as lsof lists
\* the flows of each.
Busiest(g, flows) ==
    IF flows = {} THEN NoFlow
    ELSE Nth({<< <<-g.conns[s], s.pid, LsofOrder[s]>>, s>> : s \in flows}, 1)

\* `i` with a flow starts an inspection; without one it is only answered with a hint.
Inspecting(a, flow) == IF flow = NoFlow THEN UNCHANGED inspectVars ELSE Request(AppName[a], flow)

RowFlow(row) == CASE Len(row) = 1 -> NoFlow
                  [] Len(row) = 2 -> Busiest(groups[row[1]], FlowsOf(groups[row[1]], row[2]))
                  [] Len(row) = 3 -> row[3]

MoveInTree(by) == /\ selected' = Clamped(selected + by, Cardinality(Rows(groups)))
                  /\ UNCHANGED <<groups, sortBy, expanded, expandedPID, zoom, inspectVars>>

SortTree == /\ sortBy' = (sortBy % 4) + 1
            /\ UNCHANGED <<groups, selected, expanded, expandedPID, zoom, inspectVars>>

\* expandSelected, collapseSelected: the cursor stays where it is, if need be below the
\* last row.
Unfold(open, row) ==
    /\ IF Len(row) = 1
       THEN /\ expanded' = IF open THEN expanded \cup {AppName[row[1]]}
                           ELSE expanded \ {AppName[row[1]]}
            /\ UNCHANGED expandedPID
       ELSE /\ expandedPID' = IF ~open THEN expandedPID \ {row[2]}
                              ELSE IF Len(row) = 2 THEN expandedPID \cup {row[2]} ELSE expandedPID
            /\ UNCHANGED expanded
    /\ UNCHANGED <<groups, sortBy, selected, zoom, inspectVars>>

\* The keys that act on the selected row.
OnRow(k) ==
    /\ selected \in OnScreen
    /\ LET row == SelectedRow
       IN  \/ k \in {"open", "close"} /\ Unfold(k = "open", row)
           \/ k = "inspect" /\ Inspecting(row[1], RowFlow(row)) /\ UNCHANGED exfilVars
           \/ /\ k = "zoom"
              /\ zoom' = [app |-> AppName[row[1]], sel |-> 1, selDest |-> 1, byDest |-> FALSE]
              /\ UNCHANGED <<groups, treeVars, inspectVars>>

\* egressUpdate with neither overlay open; pausing is the console's.
InTree(k) ==
    \/ k \in {"up", "down"} /\ MoveInTree(IF k = "up" THEN -1 ELSE 1)
    \/ k = "sort" /\ SortTree
    \/ OnRow(k)
    \/ /\ \/ k \in {"escape", "focus", "pause"}
          \/ k \in {"open", "close", "inspect", "zoom"} /\ selected \notin OnScreen
       /\ UNCHANGED <<exfilVars, inspectVars>>

-----------------------------------------------------------------------------
(* The dashboard. *)

\* zoomGroup: the first app on show with that name; none when it has gone.
Namesakes == {a \in DOMAIN groups : AppName[a] = zoom.app}
Vanished == Namesakes = {}
Zoomed == Nth({<<GroupRank(groups[a], a), a>> : a \in Namesakes}, 1)

\* zoomedMembers, zoomDests: the loudest first.
ZoomedMember(g, i) == Nth({<< <<-g.members[p], p>>, p>> : p \in DOMAIN g.members}, i)
ZoomDest(g, i) ==
    LET Volume(ip) == MapThenSumSet(LAMBDA s : g.conns[s], {s \in DOMAIN g.conns : s.ip = ip})
    IN  Nth({<< <<-Volume(d), d>>, d>> : d \in DOMAIN g.dests}, i)

\* Mutant of Reclamped: the cursors are looked after only when they move.
ReclampedNever(g) == zoom

\* Both cursors, against what the latest sample has left of the two boxes.
MemberCount(g) == Cardinality(DOMAIN g.members)
DestCount(g) == Cardinality(DOMAIN g.dests)
Reclamped(g) == [zoom EXCEPT !.sel = Clamped(@, MemberCount(g)), !.selDest = Clamped(@, DestCount(g))]

\* zoomInspectTarget: the busiest flow of the process, or to the destination.
ZoomFlow(g, z) ==
    IF z.byDest
    THEN IF z.selDest > DestCount(g) THEN NoFlow
         ELSE Busiest(g, {s \in DOMAIN g.conns : s.ip = ZoomDest(g, z.selDest)})
    ELSE IF z.sel > MemberCount(g) THEN NoFlow ELSE Busiest(g, FlowsOf(g, ZoomedMember(g, z.sel)))

Moved(g, z, by) == IF z.byDest THEN [z EXCEPT !.selDest = Clamped(@ + by, DestCount(g))]
                   ELSE [z EXCEPT !.sel = Clamped(@ + by, MemberCount(g))]

\* egressUpdate with the dashboard open: it owns every key.
InDashboard(k) ==
    /\ \/ /\ Vanished \/ k \in {"escape", "zoom"}
          /\ zoom' = NoZoom /\ UNCHANGED inspectVars
       \/ /\ ~Vanished /\ k \notin {"escape", "zoom"}
          /\ LET a == Zoomed
                 g == groups[a]
                 z == Reclamped(g)
             IN  /\ zoom' = CASE k = "up" -> Moved(g, z, -1)
                              [] k = "down" -> Moved(g, z, 1)
                              [] k = "focus" -> [z EXCEPT !.byDest = ~@]
                              [] OTHER -> z
                 /\ IF k = "inspect" THEN Inspecting(a, ZoomFlow(g, z)) ELSE UNCHANGED inspectVars
    /\ UNCHANGED <<groups, treeVars>>

-----------------------------------------------------------------------------
(* What is on the screen (drawEgressZoom, egressView). *)

\* The flows of the row the cursor is drawn on; the dashboard clamps its cursors as it
\* draws them, a tree whose cursor is below its last row shows none.
Highlighted ==
    IF zoom # NoZoom
    THEN IF Vanished THEN {}
         ELSE LET g == groups[Zoomed]
              IN  {s \in DOMAIN g.conns :
                      IF zoom.byDest THEN s.ip = ZoomDest(g, Clamped(zoom.selDest, DestCount(g)))
                      ELSE s.pid = ZoomedMember(g, Clamped(zoom.sel, MemberCount(g)))}
    ELSE IF selected \notin OnScreen THEN {}
         ELSE LET row == SelectedRow
              IN  CASE Len(row) = 1 -> {}
                    [] Len(row) = 2 -> {s \in DOMAIN groups[row[1]].conns : s.pid = row[2]}
                    [] Len(row) = 3 -> {row[3]}
=============================================================================
