------------------------------ MODULE MCPanels ------------------------------
(***************************************************************************)
(* The panels and dialogs: files and transfers, tunnels, connections and   *)
(* their groups, the command library, backups, updates, themes, the        *)
(* window's look, session logs and their replay, the questions before tabs *)
(* close and the shortcuts.  The parts share no state the properties are   *)
(* about, so a behaviour is one of a single part, chosen at the start; the *)
(* variables s1 to s25 hold that part's state.                             *)
(*                                                                         *)
(* The parts the theorems are about take their constants from here; the    *)
(* replay has the values TLC checks it with.  Each part has a section with *)
(* its instance and the lemmas about its steps; the behaviours, their      *)
(* properties and the theorems come after them.                            *)
(***************************************************************************)
EXTENDS Integers, Sequences, TLAPS

CONSTANTS
    TransferRuns, TransferBegins, TransferItems, TransferInbox, TransferRetries,  \* of TransferList
    UpdateChannels, MaxReleases, UpdaterActs,               \* of Updater
    Folders, Home, Link, DotNames, Names,
    HistoryLimit, MaxLoads, BrowserActs,                    \* of SftpBrowser
    Rules, MaxSaves, TunnelActs,                            \* of Tunnels
    Hops, MaxJumps, FormEdits, MaxSubmits,                  \* of ConnectionDialog
    Paths, Hosts, MaxPreviews, ImportActs,                  \* of SshImport
    LibraryIds, Texts, RecentLimit, MaxFetches, MaxVersions, LibraryActs,  \* of CommandLibrary
    BackupNames, BackupFiles, MaxCalls, BackupActs,         \* of Backups
    OldLogs, MaxLogs, Matching, LogActs, MaxLists,          \* of LogsPanel
    ThemeIds, ThemeActs, ThemeEvents,                       \* of Themes
    SliderLevels, LookActs, LookFaults,                     \* of Appearance
    Connections, ConnectionGroups, Sought,
    GroupCommands, GroupListings, GroupTouches,             \* of ProfileGroups
    TerminalTabs, EditorTabs,                               \* of Closing
    KeymapActs                                              \* of Keymap

\* An address, a channel, an id and a group are never the word that stands for having none.
ASSUME HopsAssumption == "blank" \notin Hops /\ MaxSubmits \in Nat
ASSUME TransfersAssumption ==
    TransferRuns \in Nat /\ TransferItems \in Nat /\ TransferRetries \in Nat
ASSUME ChannelsAssumption == "none" \notin UpdateChannels
ASSUME RulesAssumption == "none" \notin Rules /\ MaxSaves \in Nat \ {0}
ASSUME GroupsAssumption == "top" \notin ConnectionGroups /\ "gone" \notin ConnectionGroups
ASSUME HistoryAssumption == HistoryLimit \in Nat \ {0}

VARIABLES part, s1, s2, s3, s4, s5, s6, s7, s8, s9, s10, s11, s12, s13, s14, s15, s16, s17, s18,
          s19, s20, s21, s22, s23, s24, s25

slots == <<s1, s2, s3, s4, s5, s6, s7, s8, s9, s10, s11, s12, s13, s14, s15, s16, s17, s18, s19,
           s20, s21, s22, s23, s24, s25>>
vars == <<part, slots>>

Out(at, big) == [at |-> at, kind |-> "out", big |-> big, size |-> 0]
Resize(at, size) == [at |-> at, kind |-> "size", big |-> FALSE, size |-> size]

\* A recording with two resizes, a pause and a frame written in pieces.
Session == <<Out(0, FALSE), Resize(0, 1), Out(1, TRUE), Out(3, FALSE), Resize(3, 2),
             Out(4, FALSE)>>

-----------------------------------------------------------------------------
(* The list of transfers: what is active has work under way.               *)
List == INSTANCE TransferList WITH MaxRuns <- TransferRuns, MaxBegins <- TransferBegins,
    Items <- TransferItems, MaxInbox <- TransferInbox, MaxRetries <- TransferRetries, list <- s1,
    ref <- s2, kids <- s3, kind <- s4, backend <- s5, owner <- s6, alone <- s7, cancelMap <- s8,
    signalled <- s9, inbox <- s10, asks <- s11, retries <- s12

LEMMA IdParts ==
    ASSUME NEW id \in List!Ids
    PROVE  id = <<id[1], id[2]>> /\ id[1] \in List!Runs /\ id[2] \in 0..TransferItems
BY DEF List!Ids

LEMMA EventParts ==
    ASSUME NEW e \in List!Events
    PROVE  e.id \in List!Ids /\ e.id[1] \in List!Runs /\ e.id[2] \in 0..TransferItems
<1>1. e.id \in List!Ids
  BY DEF List!Events
<1> QED BY <1>1, IdParts

LEMMA PartsId ==
    ASSUME NEW r \in List!Runs, NEW k \in 0..TransferItems
    PROVE  <<r, k>> \in List!Ids /\ <<r, k>>[1] = r /\ <<r, k>>[2] = k
BY DEF List!Ids

\* What the backend adds to the reports on their way.
LEMMA BackendKeeps ==
    ASSUME List!SettleInv, NEW es \in Seq(List!Events), s10' = s10 \o es, List!TypeOK', List!RunsOK',
           UNCHANGED <<s1, s2, s3, s4, s6, s11>>,
           \A id \in List!Ids : List!Working(id) =>
               List!Working(id)' \/ \E j \in 1..Len(es) : List!EndOf(es[j], id),
           \A q \in List!Runs : List!Running(q) =>
               List!Running(q)' \/ \E j \in 1..Len(es) : List!BatchEndOf(es[j], q),
           \A j \in 1..Len(es) : List!ReportOK(es[j]),
           \A j \in 1..Len(es), id \in List!Ids :
               es[j].t \in {"batchStart", "itemStart", "progress"} /\ es[j].id = id => List!Working(id)',
           \A j \in 1..Len(es), id \in List!Ids : es[j].t = "itemStart" /\ es[j].id = id =>
               Len(es) = 1 /\ ~List!Begun(id) /\ List!Begun(id)',
           \A j \in 1..Len(es), id \in List!Ids, q \in List!Runs :
               es[j].t = "itemStart" /\ es[j].id = id /\ s4[id[1]] # "files" /\ s6[id[1]] = q => List!Running(q)',
           \A id \in List!Ids : List!Begun(id) => List!Begun(id)'
    PROVE  List!SettleInv'
<1> DEFINE n == Len(s10)
<1>0. /\ n \in Nat /\ Len(es) \in Nat /\ s10' \in Seq(List!Events) /\ Len(s10') = n + Len(es)
      /\ \A i \in 1..n : s10'[i] = s10[i] /\ s10[i] \in List!Events
      /\ \A j \in 1..Len(es) : s10'[n + j] = es[j] /\ es[j] \in List!Events
      /\ \A i \in 1..Len(s10') : i \in 1..n \/ (i - n \in 1..Len(es) /\ s10'[i] = es[i - n])
      /\ s4' = s4 /\ s6' = s6 /\ s11' = s11 /\ s1' = s1 /\ s2' = s2 /\ s3' = s3
  BY DEF List!SettleInv, List!ReportsOK
<1>1. ASSUME NEW id \in List!Ids, NEW i \in 0..n, List!Ending(id, i) PROVE List!Ending(id, i)'
  <2>1. ASSUME NEW j \in (i + 1)..n, List!EndOf(s10[j], id) PROVE List!Ending(id, i)'
    <3>1. j \in (i + 1)..Len(s10') /\ s10'[j] = s10[j]
      BY <1>0
    <3> QED BY <2>1, <3>1 DEF List!Ending, List!EndOf
  <2>2. ASSUME NEW j \in 1..Len(es), List!EndOf(es[j], id) PROVE List!Ending(id, i)'
    <3>1. n + j \in (i + 1)..Len(s10') /\ s10'[n + j] = es[j]
      BY <1>0
    <3> QED BY <2>2, <3>1 DEF List!Ending, List!EndOf
  <2> QED BY <1>1, <2>1, <2>2 DEF List!Ending
<1>2. ASSUME NEW q \in List!Runs, NEW i \in 0..n, List!BatchEnding(q, i) PROVE List!BatchEnding(q, i)'
  <2>1. ASSUME NEW j \in (i + 1)..n, List!BatchEndOf(s10[j], q) PROVE List!BatchEnding(q, i)'
    <3>1. j \in (i + 1)..Len(s10') /\ s10'[j] = s10[j]
      BY <1>0
    <3> QED BY <2>1, <3>1 DEF List!BatchEnding, List!BatchEndOf
  <2>2. ASSUME NEW j \in 1..Len(es), List!BatchEndOf(es[j], q) PROVE List!BatchEnding(q, i)'
    <3>1. n + j \in (i + 1)..Len(s10') /\ s10'[n + j] = es[j]
      BY <1>0
    <3> QED BY <2>2, <3>1 DEF List!BatchEnding, List!BatchEndOf
  <2> QED BY <1>2, <2>1, <2>2 DEF List!BatchEnding
<1>3. List!ReportsOK'
  <2>1. \A i \in 1..n : List!ReportOK(s10[i])
    BY DEF List!SettleInv, List!ReportsOK
  <2>2. \A i \in 1..Len(s10') : s10'[i] \in List!Events /\ List!ReportOK(s10'[i])
    BY <1>0, <2>1
  <2> QED BY <1>0, <2>2 DEF List!ReportsOK, List!ReportOK
<1>4. List!ActiveEnd' /\ List!KidsEnd'
  BY <1>0, <1>1, <1>2 DEF List!SettleInv, List!ActiveEnd, List!KidsEnd
<1>5. List!ReportsEnd'
  <2>1. ASSUME NEW i \in 1..Len(s10'), NEW id \in List!Ids, s10'[i].id = id,
               s10'[i].t \in {"batchStart", "itemStart", "progress"}
        PROVE  List!Ending(id, i)'
    <3>1. CASE i \in 1..n
      <4>1. List!Ending(id, i)
        BY <2>1, <3>1, <1>0 DEF List!SettleInv, List!ReportsEnd
      <4> QED BY <4>1, <3>1, <1>1
    <3>2. CASE i - n \in 1..Len(es) /\ s10'[i] = es[i - n]
      BY <2>1, <3>2 DEF List!Ending
    <3> QED BY <1>0, <3>1, <3>2
  <2>2. ASSUME NEW i \in 1..Len(s10'), NEW id \in List!Ids, NEW q \in List!Runs, s10'[i].id = id,
               s10'[i].t = "itemStart", s4[id[1]] # "files", s6[id[1]] = q
        PROVE  List!BatchEnding(q, i)'
    <3>1. CASE i \in 1..n
      <4>1. List!BatchEnding(q, i)
        BY <2>2, <3>1, <1>0 DEF List!SettleInv, List!ReportsEnd
      <4> QED BY <4>1, <3>1, <1>2
    <3>2. CASE i - n \in 1..Len(es) /\ s10'[i] = es[i - n]
      BY <2>2, <3>2 DEF List!BatchEnding
    <3> QED BY <1>0, <3>1, <3>2
  <2>3. \A i \in 1..Len(s10') : s10'[i].id \in List!Ids
    BY <1>0 DEF List!Events
  <2>4. \A i \in 1..Len(s10'), q \in List!Runs :
            s10'[i].t = "itemStart" /\ s4[s10'[i].id[1]] # "files" /\ s6[s10'[i].id[1]] = q
            => List!BatchEnding(q, i)'
    BY <2>2, <2>3
  <2> QED BY <2>1, <2>4, <1>0 DEF List!ReportsEnd
<1>6. List!FirstStart'
  <2>1. \A id \in List!Ids : List!NotListed(id)' <=> List!NotListed(id)
    BY DEF List!NotListed
  <2>2. ASSUME NEW i \in 1..Len(s10'), NEW id \in List!Ids, s10'[i].t = "itemStart", s10'[i].id = id
        PROVE  /\ List!Begun(id)' /\ List!NotListed(id)'
               /\ \A j \in 1..Len(s10') : s10'[j].t = "itemStart" /\ s10'[j].id = id => j = i
    <3>0. \A l \in 1..n : s10[l].t = "itemStart" /\ s10[l].id = id => List!Begun(id)
      BY DEF List!SettleInv, List!FirstStart
    <3>1. CASE i \in 1..n
      <4>1. List!Begun(id) /\ List!NotListed(id)
        BY <2>2, <3>1, <1>0 DEF List!SettleInv, List!FirstStart
      <4>2. \A j \in 1..Len(es) : ~(es[j].t = "itemStart" /\ es[j].id = id)
        BY <4>1
      <4>3. \A j \in 1..n : s10[j].t = "itemStart" /\ s10[j].id = id => j = i
        BY <2>2, <3>1, <1>0 DEF List!SettleInv, List!FirstStart
      <4> QED BY <4>1, <4>2, <4>3, <2>1, <1>0
    <3>2. CASE i - n \in 1..Len(es) /\ s10'[i] = es[i - n]
      <4>1. Len(es) = 1 /\ ~List!Begun(id) /\ List!Begun(id)'
        BY <2>2, <3>2
      <4>2. id[2] > 0
        BY <2>2, <3>2 DEF List!ReportOK
      <4>3. List!NotListed(id)
        BY <4>1, <4>2 DEF List!SettleInv, List!FirstStart
      <4>4. \A j \in 1..n : ~(s10[j].t = "itemStart" /\ s10[j].id = id)
        BY <4>1, <3>0
      <4>5. i = n + 1 /\ \A j \in 1..Len(s10') : j \in 1..n \/ j = n + 1
        BY <4>1, <3>2, <1>0
      <4>6. \A j \in 1..Len(s10') : s10'[j].t = "itemStart" /\ s10'[j].id = id => j = i
        BY <4>4, <4>5, <1>0
      <4> QED BY <4>1, <4>3, <4>6, <2>1
    <3> QED BY <1>0, <3>1, <3>2
  <2>3. \A id \in List!Ids : id[2] > 0 /\ ~List!Begun(id)' => List!NotListed(id)'
    BY <2>1 DEF List!SettleInv, List!FirstStart
  <2>4. \A r \in List!Runs : s4[r] = "none" \/ s11[r] # "none" => List!NotListed(<<r, 0>>)'
    BY DEF List!SettleInv, List!FirstStart, List!NotListed
  <2> QED BY <2>2, <2>3, <2>4 DEF List!FirstStart
<1>7. List!CancelledStays'
  BY DEF List!SettleInv, List!CancelledStays
<1> QED BY <1>3, <1>4, <1>5, <1>6, <1>7 DEF List!SettleInv

\* What the user does: nothing is reported, and what becomes active is worked on.
LEMMA UserKeeps ==
    ASSUME List!SettleInv, UNCHANGED <<s3, s10>>, List!TypeOK', List!RunsOK',
           \A id \in List!Ids : List!Working(id) => List!Working(id)',
           \A q \in List!Runs : List!Running(q) => List!Running(q)',
           \A id \in List!Ids : s1'[id] \in List!Active => s1[id] \in List!Active \/ List!Working(id)',
           \A r \in List!Runs : s4[r] # "none" =>
               s4'[r] = s4[r] /\ s6'[r] = s6[r] /\ (s11[r] = "none" => s11'[r] = "none"),
           \A id \in List!Ids : List!Begun(id)' <=> List!Begun(id),
           \A id \in List!Ids : id[2] > 0 /\ List!NotListed(id) => List!NotListed(id)',
           \A r \in List!Runs : s4'[r] = "none" \/ s11'[r] # "none" => List!NotListed(<<r, 0>>)',
           List!CancelledStays'
    PROVE  List!SettleInv'
<1>0. /\ s10' = s10 /\ s3' = s3 /\ \A i \in 1..Len(s10) : s10[i] \in List!Events /\ s10[i].id \in List!Ids
         /\ s10[i].id[1] \in List!Runs
  BY EventParts DEF List!SettleInv, List!ReportsOK
<1>1. ASSUME NEW id \in List!Ids, NEW i, List!Ending(id, i) PROVE List!Ending(id, i)'
  BY <1>0, <1>1 DEF List!Ending, List!EndOf
<1>2. ASSUME NEW q \in List!Runs, NEW i, List!BatchEnding(q, i) PROVE List!BatchEnding(q, i)'
  BY <1>0, <1>2 DEF List!BatchEnding, List!BatchEndOf
<1>3. List!ReportsOK'
  BY <1>0 DEF List!SettleInv, List!ReportsOK, List!ReportOK
<1>4. List!ActiveEnd' /\ List!KidsEnd'
  <2>1. \A id \in List!Ids : List!Working(id)' => List!Ending(id, 0)'
    BY DEF List!Ending
  <2> QED BY <1>0, <1>1, <1>2, <2>1 DEF List!SettleInv, List!ActiveEnd, List!KidsEnd
<1>5. List!ReportsEnd'
  <2>1. \A i \in 1..Len(s10) : s4'[s10[i].id[1]] = s4[s10[i].id[1]] /\ s6'[s10[i].id[1]] = s6[s10[i].id[1]]
    BY <1>0 DEF List!SettleInv, List!ReportsOK, List!ReportOK
  <2> QED BY <1>0, <1>1, <1>2, <2>1 DEF List!SettleInv, List!ReportsEnd
<1>6. List!FirstStart'
  <2>1. \A i \in 1..Len(s10) : s10[i].t = "itemStart" => s10[i].id[2] > 0
    BY DEF List!SettleInv, List!ReportsOK, List!ReportOK
  <2>2. ASSUME NEW i \in 1..Len(s10), NEW id \in List!Ids, s10[i].t = "itemStart", s10[i].id = id
        PROVE  /\ List!Begun(id)' /\ List!NotListed(id)'
               /\ \A j \in 1..Len(s10) : s10[j].t = "itemStart" /\ s10[j].id = id => j = i
    BY <2>1, <2>2 DEF List!SettleInv, List!FirstStart
  <2>3. \A id \in List!Ids : id[2] > 0 /\ ~List!Begun(id)' => List!NotListed(id)'
    BY DEF List!SettleInv, List!FirstStart
  <2> QED BY <1>0, <2>2, <2>3 DEF List!FirstStart
<1> QED BY <1>3, <1>4, <1>5, <1>6 DEF List!SettleInv

\* A report is handled: what it leaves active ends later.
LEMMA ReportKeeps ==
    ASSUME List!SettleInv, s10 # <<>>, List!Handled, List!TypeOK', List!RunsOK',
           \A id \in List!Ids : s1'[id] \in List!Active =>
               (s1[id] \in List!Active /\ ~List!EndOf(Head(s10), id)) \/ List!Ending(id, 1),
           \A q \in List!Runs : s3'[q] # <<>> =>
               (s3[q] # <<>> /\ ~List!BatchEndOf(Head(s10), q)) \/ List!BatchEnding(q, 1),
           \A id \in List!Ids : s1[id] = "absent" =>
               s1'[id] = "absent" \/ (id = Head(s10).id /\ Head(s10).t \in {"batchStart", "itemStart"}),
           List!CancelledStays'
    PROVE  List!SettleInv'
<1> DEFINE n == Len(s10)
<1>0. /\ n \in Nat \ {0} /\ s10' \in Seq(List!Events) /\ Len(s10') = n - 1
      /\ \A i \in 1..n : s10[i] \in List!Events /\ s10[i].id \in List!Ids /\ s10[i].id[1] \in List!Runs
      /\ \A i \in 1..Len(s10') : i + 1 \in 1..n /\ s10'[i] = s10[i + 1]
      /\ Head(s10) = s10[1]
      /\ s4' = s4 /\ s6' = s6 /\ s11' = s11 /\ s2' = s2
  <2>1. s10 \in Seq(List!Events) /\ s10' = Tail(s10)
    BY DEF List!SettleInv, List!ReportsOK, List!Handled
  <2>2. \A i \in 1..n : s10[i] \in List!Events /\ s10[i].id \in List!Ids /\ s10[i].id[1] \in List!Runs
    BY <2>1, EventParts
  <2> QED BY <2>1, <2>2 DEF List!Handled
<1>1. ASSUME NEW id \in List!Ids, NEW i \in Nat, List!Ending(id, i + 1) PROVE List!Ending(id, i)'
  <2>1. List!Working(id) => List!Working(id)'
    BY DEF List!Working, List!Running, List!Handled
  <2>2. ASSUME NEW j \in (i + 2)..n, List!EndOf(s10[j], id) PROVE List!Ending(id, i)'
    <3>1. j - 1 \in (i + 1)..Len(s10') /\ s10'[j - 1] = s10[j]
      BY <1>0
    <3> QED BY <2>2, <3>1 DEF List!Ending, List!EndOf
  <2> QED BY <1>1, <2>1, <2>2, <1>0 DEF List!Ending
<1>2. ASSUME NEW q \in List!Runs, NEW i \in Nat, List!BatchEnding(q, i + 1) PROVE List!BatchEnding(q, i)'
  <2>1. List!Running(q) => List!Running(q)'
    BY DEF List!Running, List!Handled
  <2>2. ASSUME NEW j \in (i + 2)..n, List!BatchEndOf(s10[j], q) PROVE List!BatchEnding(q, i)'
    <3>1. j - 1 \in (i + 1)..Len(s10') /\ s10'[j - 1] = s10[j]
      BY <1>0
    <3> QED BY <2>2, <3>1 DEF List!BatchEnding, List!BatchEndOf
  <2> QED BY <1>2, <2>1, <2>2, <1>0 DEF List!BatchEnding
<1>3. List!ReportsOK'
  BY <1>0 DEF List!SettleInv, List!ReportsOK, List!ReportOK
<1>4. List!ActiveEnd'
  <2> SUFFICES ASSUME NEW id \in List!Ids, s1'[id] \in List!Active PROVE List!Ending(id, 0)'
    BY DEF List!ActiveEnd
  <2>1. List!Ending(id, 1)
    <3>1. CASE s1[id] \in List!Active /\ ~List!EndOf(Head(s10), id)
      <4>1. List!Ending(id, 0)
        BY <3>1 DEF List!SettleInv, List!ActiveEnd
      <4>2. ASSUME NEW j \in 1..n, List!EndOf(s10[j], id) PROVE j \in 2..n
        BY <4>2, <3>1, <1>0
      <4> QED BY <4>1, <4>2 DEF List!Ending
    <3> QED BY <3>1
  <2> QED BY <2>1, <1>1
<1>5. List!KidsEnd'
  <2> SUFFICES ASSUME NEW q \in List!Runs, s3'[q] # <<>> PROVE List!BatchEnding(q, 0)'
    BY DEF List!KidsEnd
  <2>1. List!BatchEnding(q, 1)
    <3>1. CASE s3[q] # <<>> /\ ~List!BatchEndOf(Head(s10), q)
      <4>1. List!BatchEnding(q, 0)
        BY <3>1 DEF List!SettleInv, List!KidsEnd
      <4>2. ASSUME NEW j \in 1..n, List!BatchEndOf(s10[j], q) PROVE j \in 2..n
        BY <4>2, <3>1, <1>0
      <4> QED BY <4>1, <4>2 DEF List!BatchEnding
    <3> QED BY <3>1
  <2> QED BY <2>1, <1>2
<1>6. List!ReportsEnd'
  <2>1. ASSUME NEW i \in 1..Len(s10'), NEW id \in List!Ids, s10'[i].id = id,
               s10'[i].t \in {"batchStart", "itemStart", "progress"}
        PROVE  List!Ending(id, i)'
    <3>1. List!Ending(id, i + 1)
      BY <2>1, <1>0 DEF List!SettleInv, List!ReportsEnd
    <3> QED BY <3>1, <1>1
  <2>2. ASSUME NEW i \in 1..Len(s10'), NEW q \in List!Runs, s10'[i].t = "itemStart",
               s4[s10'[i].id[1]] # "files", s6[s10'[i].id[1]] = q
        PROVE  List!BatchEnding(q, i)'
    <3>1. List!BatchEnding(q, i + 1)
      BY <2>2, <1>0 DEF List!SettleInv, List!ReportsEnd
    <3> QED BY <3>1, <1>2
  <2> QED BY <2>1, <2>2, <1>0 DEF List!ReportsEnd
<1>7. List!FirstStart'
  <2>1. ASSUME NEW id \in List!Ids, List!NotListed(id), id # Head(s10).id
            \/ Head(s10).t \notin {"batchStart", "itemStart"}
        PROVE  List!NotListed(id)'
    BY <2>1, <1>0 DEF List!NotListed
  <2>2. \A id \in List!Ids : List!Begun(id)' <=> List!Begun(id)
    BY DEF List!Begun, List!Handled
  <2>3. ASSUME NEW i \in 1..Len(s10'), NEW id \in List!Ids, s10'[i].t = "itemStart", s10'[i].id = id
        PROVE  /\ List!Begun(id)' /\ List!NotListed(id)'
               /\ \A j \in 1..Len(s10') : s10'[j].t = "itemStart" /\ s10'[j].id = id => j = i
    <3>1. s10[i + 1].t = "itemStart" /\ s10[i + 1].id = id /\ i + 1 \in 1..n /\ i + 1 # 1 /\ 1 \in 1..n
      BY <2>3, <1>0
    <3>2. /\ List!Begun(id) /\ List!NotListed(id)
          /\ \A j \in 1..n : s10[j].t = "itemStart" /\ s10[j].id = id => j = i + 1
      BY <3>1 DEF List!SettleInv, List!FirstStart
    <3>3. id[2] > 0
      BY <3>1 DEF List!SettleInv, List!ReportsOK, List!ReportOK
    <3>4. Head(s10).id # id \/ Head(s10).t \notin {"batchStart", "itemStart"}
      <4>1. s10[1].t = "batchStart" => s10[1].id[2] = 0
        BY <3>1 DEF List!SettleInv, List!ReportsOK, List!ReportOK
      <4> QED BY <4>1, <3>1, <3>2, <3>3, <1>0
    <3>5. \A j \in 1..Len(s10') : s10'[j].t = "itemStart" /\ s10'[j].id = id => j = i
      BY <3>2, <1>0
    <3> QED BY <3>2, <3>4, <3>5, <2>1, <2>2
  <2>4. ASSUME NEW id \in List!Ids, id[2] > 0, ~List!Begun(id) PROVE List!NotListed(id)'
    <3>1. List!NotListed(id)
      BY <2>4 DEF List!SettleInv, List!FirstStart
    <3>2. Head(s10).id # id \/ Head(s10).t \notin {"batchStart", "itemStart"}
      <4>0. 1 \in 1..n
        BY <1>0
      <4>1. s10[1].t = "batchStart" => s10[1].id[2] = 0
        BY <4>0 DEF List!SettleInv, List!ReportsOK, List!ReportOK
      <4>2. s10[1].t = "itemStart" => s10[1].id # id
        BY <4>0, <2>4 DEF List!SettleInv, List!FirstStart
      <4> QED BY <4>1, <4>2, <2>4, <1>0
    <3> QED BY <3>1, <3>2, <2>1
  <2>5. ASSUME NEW r \in List!Runs, s4[r] = "none" \/ s11[r] # "none" PROVE List!NotListed(<<r, 0>>)'
    <3>0. <<r, 0>> \in List!Ids /\ <<r, 0>>[1] = r /\ <<r, 0>>[2] = 0
      BY PartsId, TransfersAssumption
    <3>1. List!NotListed(<<r, 0>>)
      BY <2>5 DEF List!SettleInv, List!FirstStart
    <3>2. Head(s10).id # <<r, 0>> \/ Head(s10).t \notin {"batchStart", "itemStart"}
      <4>0. 1 \in 1..n
        BY <1>0
      <4>1. /\ s10[1].t = "itemStart" => s10[1].id[2] > 0
            /\ s10[1].t = "batchStart" => s11[s10[1].id[1]] = "none"
            /\ s4[s10[1].id[1]] # "none"
        BY <4>0 DEF List!SettleInv, List!ReportsOK, List!ReportOK
      <4> QED BY <4>1, <2>5, <3>0, <1>0
    <3> QED BY <3>0, <3>1, <3>2, <2>1
  <2> QED BY <2>2, <2>3, <2>4, <2>5, <1>0 DEF List!FirstStart
<1> QED BY <1>3, <1>4, <1>5, <1>6, <1>7 DEF List!SettleInv

LEMMA Updated ==
    ASSUME NEW l \in List!Lists, NEW id \in List!Ids, NEW s \in List!Statuses
    PROVE  /\ List!UpdateTransfer(l, id, s) \in List!Lists /\ List!AddTransfer(l, id) \in List!Lists
           /\ \A x \in List!Ids : List!UpdateTransfer(l, id, s)[x] = (IF x = id /\ l[x] # "absent" THEN s ELSE l[x])
           /\ \A x \in List!Ids : List!AddTransfer(l, id)[x] = (IF x = id /\ l[x] = "absent" THEN "pending" ELSE l[x])
BY DEF List!UpdateTransfer, List!AddTransfer, List!Statuses, List!Active, List!Ends, List!Lists

LEMMA BatchIsEntry ==
    ASSUME NEW q \in List!Runs, NEW n, List!BatchEnding(q, n)
    PROVE  List!Ending(<<q, 0>>, n) /\ <<q, 0>> \in List!Ids
<1>0. <<q, 0>> \in List!Ids /\ <<q, 0>>[1] = q /\ <<q, 0>>[2] = 0
  BY PartsId, TransfersAssumption
<1> QED BY <1>0 DEF List!BatchEnding, List!Ending, List!Working, List!BatchEndOf, List!EndOf

LEMMA HeadFacts ==
    ASSUME List!SettleInv, s10 # <<>>
    PROVE  /\ Head(s10) \in List!Events /\ List!ReportOK(Head(s10))
           /\ Head(s10).id \in List!Ids /\ Head(s10).id[1] \in List!Runs /\ Head(s10).id[2] \in 0..TransferItems
           /\ Head(s10).t \in {"batchStart", "itemStart", "progress"} => List!Ending(Head(s10).id, 1)
           /\ \A q \in List!Runs : Head(s10).t = "itemStart" /\ s4[Head(s10).id[1]] # "files"
              /\ s6[Head(s10).id[1]] = q
                  => List!BatchEnding(q, 1)
           /\ Head(s10).t = "itemStart" => List!NotListed(Head(s10).id)
<1>1. s10 \in Seq(List!Events) /\ 1 \in 1..Len(s10) /\ Head(s10) = s10[1] /\ s10[1] \in List!Events
  BY DEF List!SettleInv, List!ReportsOK
<1>2. s10[1].id \in List!Ids /\ s10[1].id[1] \in List!Runs /\ s10[1].id[2] \in 0..TransferItems
  BY <1>1, EventParts
<1>3. List!ReportOK(s10[1])
  BY <1>1 DEF List!SettleInv, List!ReportsOK
<1>4. s10[1].t \in {"batchStart", "itemStart", "progress"} => List!Ending(s10[1].id, 1)
  BY <1>1, <1>2 DEF List!SettleInv, List!ReportsEnd
<1>5. \A q \in List!Runs : s10[1].t = "itemStart" /\ s4[s10[1].id[1]] # "files" /\ s6[s10[1].id[1]] = q
                  => List!BatchEnding(q, 1)
  BY <1>1, <1>2 DEF List!SettleInv, List!ReportsEnd
<1>6. s10[1].t = "itemStart" => List!NotListed(s10[1].id)
  BY <1>1, <1>2 DEF List!SettleInv, List!FirstStart
<1> QED BY <1>1, <1>2, <1>3, <1>4, <1>5, <1>6

\* A batch with files ends after the report at hand, unless that is its end.
LEMMA KidsLater ==
    ASSUME List!SettleInv, s10 # <<>>, NEW q \in List!Runs, s3[q] # <<>>, Head(s10).t # "batchEnd"
    PROVE  List!BatchEnding(q, 1) /\ List!Ending(<<q, 0>>, 1)
<1>0. List!BatchEnding(q, 0)
  BY DEF List!SettleInv, List!KidsEnd
<1>1. s10 \in Seq(List!Events) /\ Head(s10) = s10[1]
  BY DEF List!SettleInv, List!ReportsOK
<1>2. ASSUME NEW j \in 1..Len(s10), List!BatchEndOf(s10[j], q) PROVE j \in 2..Len(s10)
  BY <1>1, <1>2 DEF List!BatchEndOf
<1>3. List!BatchEnding(q, 1)
  BY <1>0, <1>2 DEF List!BatchEnding
<1> QED BY <1>3, BatchIsEntry

LEMMA HandlerKeeps ==
    ASSUME List!SettleInv, s10 # <<>>, List!Handled, s1' \in List!Lists, DOMAIN s3' = List!Runs,
           \A r \in List!Runs : DOMAIN s3'[r] \subseteq List!Ids
               /\ (s3'[r] # <<>> => s4[r] \in {"upload", "download"}),
           \A id \in List!Ids : s1'[id] \in List!Active =>
               (s1[id] \in List!Active /\ ~List!EndOf(Head(s10), id)) \/ List!Ending(id, 1),
           \A q \in List!Runs : s3'[q] # <<>> =>
               (s3[q] # <<>> /\ ~List!BatchEndOf(Head(s10), q)) \/ List!BatchEnding(q, 1),
           \A id \in List!Ids : s1[id] = "absent" =>
               s1'[id] = "absent" \/ (id = Head(s10).id /\ Head(s10).t \in {"batchStart", "itemStart"}),
           \A id \in List!Ids : s4[id[1]] \in {"download", "file"} /\ s2[id] = "cancelled"
               /\ s1[id] \notin List!Active
               => s1'[id] \notin List!Active
    PROVE  List!SettleInv'
<1>1. List!TypeOK'
  BY DEF List!SettleInv, List!TypeOK, List!Handled, List!Statuses, List!Lists
<1>2. List!RunsOK'
  <2>1. s4' = s4 /\ s6' = s6 /\ s5' = s5 /\ s11' = s11 /\ s7' = s7
    BY DEF List!Handled
  <2> QED BY <2>1 DEF List!SettleInv, List!RunsOK, List!RunOK
<1>3. List!CancelledStays'
  BY DEF List!SettleInv, List!CancelledStays, List!Handled
<1> QED BY <1>1, <1>2, <1>3, ReportKeeps

LEMMA HandlerTypes ==
    ASSUME List!SettleInv
    PROVE  /\ s1 \in List!Lists /\ s2 \in List!Lists /\ DOMAIN s3 = List!Runs
           /\ \A r \in List!Runs : DOMAIN s3[r] \subseteq List!Ids
              /\ (s3[r] # <<>> => s4[r] \in {"upload", "download"})
           /\ DOMAIN <<>> = {}
BY DEF List!SettleInv, List!TypeOK, List!RunsOK, List!RunOK, List!Statuses, List!Lists

\* Handlers that ignore a report.
LEMMA IgnoredKeeps ==
    ASSUME List!SettleInv, s10 # <<>>, List!Handled, UNCHANGED <<s1, s3>>, Head(s10).t # "batchEnd",
           Head(s10).t \in {"itemEnd", "alone"} => s1[Head(s10).id] \notin List!Active
    PROVE  List!SettleInv'
<1>1. /\ s1' \in List!Lists /\ DOMAIN s3' = List!Runs /\ s1' = s1 /\ s3' = s3
      /\ \A r \in List!Runs : DOMAIN s3'[r] \subseteq List!Ids
         /\ (s3'[r] # <<>> => s4[r] \in {"upload", "download"})
  BY HandlerTypes
<1>2. \A id \in List!Ids : s1[id] \in List!Active => ~List!EndOf(Head(s10), id)
  BY DEF List!EndOf
<1>3. \A q \in List!Runs : ~List!BatchEndOf(Head(s10), q)
  BY DEF List!BatchEndOf
<1> QED BY <1>1, <1>2, <1>3, HandlerKeeps

\* Handlers that only write how a transfer ended, or that it is on its way.
LEMMA WrittenKeeps ==
    ASSUME List!SettleInv, s10 # <<>>, List!Handled, UNCHANGED s3, NEW s \in List!Statuses, s # "absent",
           NEW id \in List!Ids, id = Head(s10).id, s1' = List!UpdateTransfer(s1, id, s),
           Head(s10).t = "batchEnd" => s3[id[1]] = <<>>,
           s \in List!Active => List!Ending(id, 1),
           s \in List!Active /\ s4[id[1]] \in {"download", "file"} => s2[id] # "cancelled"
    PROVE  List!SettleInv'
<1>0. s1 \in List!Lists
  BY HandlerTypes
<1>1. s1' \in List!Lists /\ \A x \in List!Ids : s1'[x] = (IF x = id /\ s1[x] # "absent" THEN s ELSE s1[x])
  <2>1. /\ List!UpdateTransfer(s1, id, s) \in List!Lists
        /\ \A x \in List!Ids : List!UpdateTransfer(s1, id, s)[x] = (IF x = id /\ s1[x] # "absent" THEN s ELSE s1[x])
    BY <1>0, Updated
  <2> QED BY <2>1
<1>2. "absent" \notin List!Active
  BY DEF List!Active
<1>3. ASSUME NEW x \in List!Ids, s1'[x] \in List!Active
      PROVE  (s1[x] \in List!Active /\ ~List!EndOf(Head(s10), x)) \/ List!Ending(x, 1)
  <2>1. CASE x = id
    BY <1>1, <1>2, <1>3, <2>1
  <2>2. CASE x # id
    BY <1>1, <1>3, <2>2 DEF List!EndOf
  <2> QED BY <2>1, <2>2
<1>4. ASSUME NEW q \in List!Runs, s3[q] # <<>> PROVE ~List!BatchEndOf(Head(s10), q)
  <2>1. <<q, 0>>[1] = q
    OBVIOUS
  <2> QED BY <1>4, <2>1 DEF List!BatchEndOf
<1>5. \A x \in List!Ids : s4[x[1]] \in {"download", "file"} /\ s2[x] = "cancelled" /\ s1[x] \notin List!Active =>
          s1'[x] \notin List!Active
  BY <1>1
<1>6. \A x \in List!Ids : s1[x] = "absent" => s1'[x] = "absent"
  BY <1>1
<1>7. /\ DOMAIN s3' = List!Runs /\ s3' = s3
      /\ \A r \in List!Runs : DOMAIN s3'[r] \subseteq List!Ids
         /\ (s3'[r] # <<>> => s4[r] \in {"upload", "download"})
  BY HandlerTypes
<1> QED BY <1>1, <1>3, <1>4, <1>5, <1>6, <1>7, HandlerKeeps

LEMMA EndsAreStatuses == \A s \in List!Ends : s \in List!Statuses /\ s # "absent" /\ s \notin List!Active
BY DEF List!Ends, List!Statuses, List!Active

LEMMA HowEnds ==
    ASSUME List!SettleInv, s10 # <<>>, Head(s10).t \in {"itemEnd", "batchEnd", "answer", "alone"}
    PROVE  Head(s10).how \in List!Ends
BY HeadFacts DEF List!ReportOK

\* What an upload's batch is called.
LEMMA OwnBatch ==
    ASSUME List!SettleInv, NEW r \in List!Runs, s4[r] # "download"
    PROVE  s6[r] = r /\ List!Batch(r) = <<r, 0>>
BY DEF List!SettleInv, List!RunsOK, List!RunOK, List!Batch

LEMMA Written ==
    ASSUME List!SettleInv,
           \/ List!DownloadProgress \/ List!DeleteProgress \/ List!DownloadItemComplete \/ List!DeleteBatchComplete
           \/ List!DownloadAnswered \/ List!UploadFileAnswered \/ List!DownloadFileAnswered \/ List!ArchiveAnswered
    PROVE  List!SettleInv'
<1>0. /\ s10 # <<>> /\ List!Handled /\ UNCHANGED s3
  BY DEF List!DownloadProgress, List!DeleteProgress, List!DownloadItemComplete, List!DeleteBatchComplete,
     List!DownloadAnswered,
         List!UploadFileAnswered, List!DownloadFileAnswered, List!ArchiveAnswered, List!Receives
<1> DEFINE how == Head(s10).how
<1>a. PICK id \in List!Ids : id = Head(s10).id
  BY <1>0, HeadFacts
<1>b. "transferring" \in List!Statuses /\ "transferring" # "absent"
  BY DEF List!Statuses, List!Active
<1>1. CASE List!DownloadProgress
  <2>1. CASE s2[id] = "cancelled"
    BY <1>0, <1>1, <1>a, <2>1, IgnoredKeeps DEF List!DownloadProgress, List!Receives
  <2>2. CASE s2[id] # "cancelled"
    <3>1. s1' = List!UpdateTransfer(s1, id, "transferring") /\ Head(s10).t = "progress"
      BY <1>1, <1>a, <2>2 DEF List!DownloadProgress, List!Receives
    <3> QED BY <1>0, <1>a, <1>b, <2>2, <3>1, HeadFacts, WrittenKeeps
  <2> QED BY <2>1, <2>2
<1>2. CASE List!DeleteProgress
  <2>1. s1' = List!UpdateTransfer(s1, id, "transferring") /\ Head(s10).t = "progress" /\ s4[id[1]] = "delete"
    BY <1>2, <1>a DEF List!DeleteProgress, List!Receives
  <2> QED BY <1>0, <1>a, <1>b, <2>1, HeadFacts, WrittenKeeps
<1>3. CASE \/ List!DownloadItemComplete \/ List!UploadFileAnswered \/ List!ArchiveAnswered
  <2>1. s1' = List!UpdateTransfer(s1, id, how) /\ Head(s10).t \in {"itemEnd", "alone"}
    BY <1>3, <1>a DEF List!DownloadItemComplete, List!UploadFileAnswered, List!ArchiveAnswered, List!Receives
  <2>2. how \in List!Statuses /\ how # "absent" /\ how \notin List!Active
    BY <1>0, <2>1, HowEnds, EndsAreStatuses
  <2> QED BY <1>0, <1>a, <2>1, <2>2, WrittenKeeps
<1>4. CASE List!DeleteBatchComplete
  <2>1. s1' = List!UpdateTransfer(s1, id, how) /\ Head(s10).t = "batchEnd" /\ s4[id[1]] = "delete"
    BY <1>4, <1>a DEF List!DeleteBatchComplete, List!Receives
  <2>2. how \in List!Statuses /\ how # "absent" /\ how \notin List!Active
    BY <1>0, <2>1, HowEnds, EndsAreStatuses
  <2>3. s3[id[1]] = <<>>
    BY <2>1, IdParts, HandlerTypes
  <2> QED BY <1>0, <1>a, <2>1, <2>2, <2>3, WrittenKeeps
<1>5. CASE List!DownloadAnswered
  <2>0. Head(s10).t = "answer"
    BY <1>5 DEF List!DownloadAnswered, List!Receives
  <2>1. CASE how = "completed"
    BY <1>0, <1>5, <2>0, <2>1, IgnoredKeeps DEF List!DownloadAnswered
  <2>2. CASE how # "completed"
    <3>1. s1' = List!UpdateTransfer(s1, id, how)
      BY <1>5, <1>a, <2>2 DEF List!DownloadAnswered
    <3>2. how \in List!Statuses /\ how # "absent" /\ how \notin List!Active
      BY <1>0, <2>0, HowEnds, EndsAreStatuses
    <3> QED BY <1>0, <1>a, <2>0, <3>1, <3>2, WrittenKeeps
  <2> QED BY <2>1, <2>2
<1>6. CASE List!DownloadFileAnswered
  <2>0. Head(s10).t = "alone" /\ s4[id[1]] \in {"download", "file"}
    BY <1>6, <1>a DEF List!DownloadFileAnswered, List!Receives
  <2>1. CASE how = "completed" /\ s2[id] = "cancelled"
    <3>1. s1[id] \notin List!Active
      BY <2>0, <2>1 DEF List!SettleInv, List!CancelledStays
    <3> QED BY <1>0, <1>6, <1>a, <2>0, <2>1, <3>1, IgnoredKeeps DEF List!DownloadFileAnswered
  <2>2. CASE ~(how = "completed" /\ s2[id] = "cancelled")
    <3>1. s1' = List!UpdateTransfer(s1, id, how)
      BY <1>6, <1>a, <2>2 DEF List!DownloadFileAnswered
    <3>2. how \in List!Statuses /\ how # "absent" /\ how \notin List!Active
      BY <1>0, <2>0, HowEnds, EndsAreStatuses
    <3> QED BY <1>0, <1>a, <2>0, <3>1, <3>2, WrittenKeeps
  <2> QED BY <2>1, <2>2
<1> QED BY <1>1, <1>2, <1>3, <1>4, <1>5, <1>6

LEMMA BatchesStart ==
    ASSUME List!SettleInv, List!UploadBatchStart \/ List!DeleteBatchStart PROVE List!SettleInv'
<1>0. s10 # <<>> /\ List!Handled /\ Head(s10).t = "batchStart" /\ s4[Head(s10).id[1]] \in {"upload", "delete"}
  BY DEF List!UploadBatchStart, List!DeleteBatchStart, List!Receives
<1>a. PICK id \in List!Ids : id = Head(s10).id
  BY <1>0, HeadFacts
<1>b. PICK s \in {"pending", "transferring"} : s1' = [s1 EXCEPT ![id] = s]
  BY <1>a DEF List!UploadBatchStart, List!DeleteBatchStart
<1>1. s1' \in List!Lists /\ \A x \in List!Ids : s1'[x] = (IF x = id THEN s ELSE s1[x])
  BY <1>b, HandlerTypes DEF List!Lists, List!Statuses, List!Active
<1>2. List!Ending(id, 1)
  BY <1>0, <1>a, HeadFacts
<1>3. s3' = s3 \/ s3' = [s3 EXCEPT ![id[1]] = <<>>]
  BY <1>a DEF List!UploadBatchStart, List!DeleteBatchStart
<1>4. /\ DOMAIN s3' = List!Runs /\ \A r \in List!Runs : s3'[r] = s3[r] \/ s3'[r] = <<>>
  BY <1>3, HandlerTypes
<1>5. \A r \in List!Runs : DOMAIN s3'[r] \subseteq List!Ids /\ (s3'[r] # <<>> => s4[r] \in {"upload", "download"})
  <2> SUFFICES ASSUME NEW r \in List!Runs
               PROVE  DOMAIN s3'[r] \subseteq List!Ids /\ (s3'[r] # <<>> => s4[r] \in {"upload", "download"})
    OBVIOUS
  <2>1. CASE s3'[r] = s3[r]
    BY <2>1, HandlerTypes
  <2>2. CASE s3'[r] = <<>>
    BY <2>2, HandlerTypes
  <2> QED BY <1>4, <2>1, <2>2
<1>6. \A x \in List!Ids : s1'[x] \in List!Active =>
          (s1[x] \in List!Active /\ ~List!EndOf(Head(s10), x)) \/ List!Ending(x, 1)
  BY <1>0, <1>1, <1>2 DEF List!EndOf
<1>7. \A q \in List!Runs : s3'[q] # <<>> => s3[q] # <<>> /\ ~List!BatchEndOf(Head(s10), q)
  BY <1>0, <1>4 DEF List!BatchEndOf
<1>8. \A x \in List!Ids : s1[x] = "absent" => s1'[x] = "absent" \/ x = id
  BY <1>1
<1>9. \A x \in List!Ids : s4[x[1]] \in {"download", "file"} /\ s2[x] = "cancelled" /\ s1[x] \notin List!Active
               => s1'[x] \notin List!Active
  BY <1>0, <1>1, <1>a
<1> QED BY <1>0, <1>a, <1>1, <1>4, <1>5, <1>6, <1>7, <1>8, <1>9, HandlerKeeps

LEMMA ProgressUp == ASSUME List!SettleInv, List!UploadProgress PROVE List!SettleInv'
<1>0. s10 # <<>> /\ List!Handled /\ Head(s10).t = "progress" /\ UNCHANGED s3 /\ s4[Head(s10).id[1]] \in List!Uploads
  BY DEF List!UploadProgress, List!Receives
<1>a. PICK id \in List!Ids : id = Head(s10).id
  BY <1>0, HeadFacts
<1>1. CASE s1' = s1
  BY <1>0, <1>1, IgnoredKeeps
<1>2. CASE /\ s1' = List!UpdateTransfer(s1, List!Batch(id[1]), "transferring") /\ s4[id[1]] = "upload"
              /\ id \in DOMAIN s3[id[1]]
  <2>1. id[1] \in List!Runs
    BY IdParts
  <2>2. s3[id[1]] # <<>>
    BY <1>2, HandlerTypes
  <2>3. PICK b \in List!Ids : b = <<id[1], 0>> /\ b = List!Batch(id[1]) /\ b[1] = id[1]
    BY <1>2, <2>1, OwnBatch, PartsId, TransfersAssumption
  <2>4. List!Ending(b, 1)
    BY <1>0, <2>1, <2>2, <2>3, KidsLater
  <2>5. "transferring" \in List!Statuses /\ s1 \in List!Lists
    BY HandlerTypes DEF List!Statuses, List!Active
  <2>6. s1' \in List!Lists /\ \A x \in List!Ids : s1'[x] = (IF x = b /\ s1[x] # "absent" THEN "transferring" ELSE s1[x])
    <3>1. /\ List!UpdateTransfer(s1, b, "transferring") \in List!Lists
          /\ \A x \in List!Ids : List!UpdateTransfer(s1, b, "transferring")[x] = (IF x = b /\ s1[x] # "absent" THEN "transferring" ELSE s1[x])
      BY <2>5, Updated
    <3> QED BY <1>2, <2>3, <3>1
  <2>7. \A x \in List!Ids : s1'[x] \in List!Active =>
            (s1[x] \in List!Active /\ ~List!EndOf(Head(s10), x)) \/ List!Ending(x, 1)
    BY <1>0, <2>4, <2>6 DEF List!EndOf
  <2>8. \A x \in List!Ids : s4[x[1]] \in {"download", "file"} /\ s2[x] = "cancelled" /\ s1[x] \notin List!Active
               => s1'[x] \notin List!Active
    BY <1>2, <2>3, <2>6
  <2>9. /\ \A x \in List!Ids : s1[x] = "absent" => s1'[x] = "absent"
        /\ \A q \in List!Runs : ~List!BatchEndOf(Head(s10), q)
        /\ s3' = s3
    BY <1>0, <2>6 DEF List!BatchEndOf
  <2> QED BY <1>0, <2>6, <2>7, <2>8, <2>9, HandlerTypes, HandlerKeeps
<1> QED BY <1>1, <1>2, <1>a DEF List!UploadProgress

LEMMA ItemsStart == ASSUME List!SettleInv, List!UploadItemStart \/ List!DownloadItemStart PROVE List!SettleInv'
<1>0. s10 # <<>> /\ List!Handled /\ Head(s10).t = "itemStart"
          /\ s4[Head(s10).id[1]] \in {"upload", "files", "download"}
  BY DEF List!UploadItemStart, List!DownloadItemStart, List!Receives, List!Uploads
<1>a. PICK id \in List!Ids : id = Head(s10).id
  BY <1>0, HeadFacts
<1> DEFINE r == id[1]
           q == s6[r]
<1>1. r \in List!Runs /\ q \in List!Runs /\ s4[q] = s4[r] /\ (s4[r] # "download" => q = r)
          /\ List!Batch(r) = <<q, 0>>
  BY IdParts DEF List!SettleInv, List!TypeOK, List!RunsOK, List!RunOK, List!Batch
<1>2. List!Ending(id, 1) /\ List!NotListed(id) /\ (s4[r] # "files" => List!BatchEnding(q, 1))
  BY <1>0, <1>a, <1>1, HeadFacts
<1>3. PICK b \in List!Ids : b = <<q, 0>> /\ b[1] = q
  BY <1>1, PartsId, TransfersAssumption
<1>4. s4[r] # "files" => List!Ending(b, 1)
  BY <1>1, <1>2, <1>3, BatchIsEntry
<1>5. PICK l \in List!Lists :
          /\ l = s1 \/ (l = List!UpdateTransfer(s1, b, "transferring") /\ s4[r] = "upload")
          /\ s1' = [List!AddTransfer(l, id) EXCEPT ![id] = "transferring"]
  <2>1. s1 \in List!Lists /\ "transferring" \in List!Statuses
    BY HandlerTypes DEF List!Statuses, List!Active
  <2>2. List!UpdateTransfer(s1, b, "transferring") \in List!Lists
    BY <2>1, Updated
  <2> QED BY <2>1, <2>2, <1>a, <1>1, <1>3 DEF List!UploadItemStart, List!DownloadItemStart
<1>6. /\ s1' \in List!Lists
      /\ \A x \in List!Ids : s1'[x] = IF x = id THEN "transferring" ELSE l[x]
  BY <1>5, Updated DEF List!Lists, List!Statuses, List!Active
<1>7. \A x \in List!Ids : l[x] = s1[x] \/ (x = b /\ s4[r] = "upload" /\ s1[x] # "absent")
  <2>1. s1 \in List!Lists /\ "transferring" \in List!Statuses
    BY HandlerTypes DEF List!Statuses, List!Active
  <2>2. \A x \in List!Ids : List!UpdateTransfer(s1, b, "transferring")[x] = (IF x = b /\ s1[x] # "absent" THEN "transferring" ELSE s1[x])
    BY <2>1, Updated
  <2> QED BY <1>5, <2>2
<1>8. \A x \in List!Ids : s1'[x] \in List!Active =>
          (s1[x] \in List!Active /\ ~List!EndOf(Head(s10), x)) \/ List!Ending(x, 1)
  BY <1>0, <1>2, <1>4, <1>6, <1>7 DEF List!EndOf
<1>9. \A x \in List!Ids : s1[x] = "absent" => s1'[x] = "absent" \/ x = id
  BY <1>6, <1>7
<1>10. \A x \in List!Ids : s4[x[1]] \in {"download", "file"} /\ s2[x] = "cancelled" /\ s1[x] \notin List!Active
               => s1'[x] \notin List!Active
  BY <1>1, <1>2, <1>3, <1>6, <1>7 DEF List!NotListed
<1>11. s3' = s3 \/ (s3' = [s3 EXCEPT ![q] = List!Joined(s3[q], id, "transferring")] /\ s4[r] # "files")
  BY <1>0, <1>a, <1>1 DEF List!UploadItemStart, List!DownloadItemStart, List!Receives
<1>12. DOMAIN s3' = List!Runs /\ \A p \in List!Runs : s3'[p] = s3[p]
           \/ (p = q /\ s4[r] # "files" /\ s3'[p] = List!Joined(s3[p], id, "transferring"))
  BY <1>1, <1>11, HandlerTypes
<1>13. ASSUME NEW p \in List!Runs
       PROVE  DOMAIN s3'[p] \subseteq List!Ids /\ (s3'[p] # <<>> => s4[p] \in {"upload", "download"})
  <2>1. CASE s3'[p] = s3[p]
    BY <2>1, HandlerTypes
  <2>2. CASE p = q /\ s4[r] # "files" /\ s3'[p] = List!Joined(s3[p], id, "transferring")
    <3>1. DOMAIN s3[p] \subseteq List!Ids
      BY HandlerTypes
    <3>2. DOMAIN s3'[p] = DOMAIN s3[p] \cup {id}
      <4>1. DOMAIN List!Joined(s3[p], id, "transferring") = DOMAIN s3[p] \cup {id}
        BY DEF List!Joined
      <4> QED BY <2>2, <4>1
    <3>3. s4[p] \in {"upload", "download"}
      BY <1>0, <1>a, <1>1, <2>2
    <3> QED BY <3>1, <3>2, <3>3
  <2> QED BY <1>12, <2>1, <2>2
<1>14. \A p \in List!Runs : s3'[p] # <<>> =>
           (s3[p] # <<>> /\ ~List!BatchEndOf(Head(s10), p)) \/ List!BatchEnding(p, 1)
  BY <1>0, <1>2, <1>12 DEF List!BatchEndOf
<1> QED BY <1>0, <1>a, <1>6, <1>8, <1>9, <1>10, <1>12, <1>13, <1>14, HandlerKeeps

LEMMA ItemsEndUp == ASSUME List!SettleInv, List!UploadItemComplete PROVE List!SettleInv'
<1>0. s10 # <<>> /\ List!Handled /\ Head(s10).t = "itemEnd" /\ s4[Head(s10).id[1]] \in {"upload", "files"}
  BY DEF List!UploadItemComplete, List!Receives, List!Uploads
<1>a. PICK id \in List!Ids : id = Head(s10).id
  BY <1>0, HeadFacts
<1>b. PICK how \in List!Ends : how = Head(s10).how
  BY <1>0, HowEnds
<1> DEFINE r == id[1]
           known == s2[id] # "absent" /\ id \in DOMAIN s3[r]
           ks == List!Joined(s3[r], id, how)
<1>1. r \in List!Runs /\ s1 \in List!Lists
  BY IdParts, HandlerTypes
<1>2. how \in List!Statuses /\ how # "absent" /\ how \notin List!Active
  BY EndsAreStatuses
<1>3. PICK b \in List!Ids : b = <<r, 0>> /\ b[1] = r
  <2>1. 0 \in 0..TransferItems
    BY TransfersAssumption
  <2> QED BY <1>1, <2>1, PartsId
<1>4. known => List!BatchEnding(r, 1) /\ List!Ending(b, 1) /\ s3[r] # <<>>
  <2>1. known => s3[r] # <<>>
    BY HandlerTypes
  <2> QED BY <1>0, <1>1, <1>3, <2>1, KidsLater
<1>5. /\ s1' = List!UpdateTransfer(IF known THEN List!SyncBatchTransfer(s1, r, ks) ELSE s1, id, how)
      /\ s3' = IF known THEN [s3 EXCEPT ![r] = ks] ELSE s3
  BY <1>a, <1>b DEF List!UploadItemComplete
<1>6. PICK s \in List!Statuses : List!SyncBatchTransfer(s1, r, ks) = List!UpdateTransfer(s1, b, s)
  BY <1>3 DEF List!SyncBatchTransfer, List!Statuses, List!Active, List!Ends
<1>7. PICK l \in List!Lists : /\ l = s1 \/ (known /\ l = List!UpdateTransfer(s1, b, s))
                              /\ s1' = List!UpdateTransfer(l, id, how)
  <2>1. List!UpdateTransfer(s1, b, s) \in List!Lists
    BY <1>1, Updated
  <2> QED BY <1>1, <1>5, <1>6, <2>1
<1>8. \A x \in List!Ids : l[x] = s1[x] \/ (x = b /\ known /\ s1[x] # "absent")
  <2>1. \A x \in List!Ids : List!UpdateTransfer(s1, b, s)[x] = (IF x = b /\ s1[x] # "absent" THEN s ELSE s1[x])
    BY <1>1, Updated
  <2> QED BY <1>7, <2>1
<1>9. s1' \in List!Lists /\ \A x \in List!Ids : s1'[x] = IF x = id /\ l[x] # "absent" THEN how ELSE l[x]
  <2>1. /\ List!UpdateTransfer(l, id, how) \in List!Lists
        /\ \A x \in List!Ids : List!UpdateTransfer(l, id, how)[x] = (IF x = id /\ l[x] # "absent" THEN how ELSE l[x])
    BY <1>2, Updated
  <2> QED BY <1>7, <2>1
<1>10. "absent" \notin List!Active
  BY DEF List!Active
<1>11. \A x \in List!Ids : s1'[x] \in List!Active =>
           (s1[x] \in List!Active /\ ~List!EndOf(Head(s10), x)) \/ List!Ending(x, 1)
  <2> SUFFICES ASSUME NEW x \in List!Ids, s1'[x] \in List!Active
               PROVE  (s1[x] \in List!Active /\ ~List!EndOf(Head(s10), x)) \/ List!Ending(x, 1)
    OBVIOUS
  <2>1. CASE x = b /\ known
    BY <1>4, <2>1
  <2>2. CASE ~(x = b /\ known)
    <3>1. s1'[x] = IF x = id /\ s1[x] # "absent" THEN how ELSE s1[x]
      BY <1>8, <1>9, <2>2
    <3>2. x # id
      BY <1>2, <1>10, <3>1
    <3> QED BY <1>a, <3>1, <3>2 DEF List!EndOf
  <2> QED BY <2>1, <2>2
<1>12. \A x \in List!Ids : s1[x] = "absent" => s1'[x] = "absent"
  BY <1>8, <1>9
<1>13. \A x \in List!Ids : s4[x[1]] \in {"download", "file"} /\ s2[x] = "cancelled" /\ s1[x] \notin List!Active
               => s1'[x] \notin List!Active
  BY <1>0, <1>2, <1>3, <1>8, <1>9, <1>a
<1>14. DOMAIN s3' = List!Runs /\ \A p \in List!Runs : s3'[p] = s3[p] \/ (p = r /\ known /\ s3'[p] = ks)
  BY <1>1, <1>5, HandlerTypes
<1>15. ASSUME NEW p \in List!Runs
       PROVE  DOMAIN s3'[p] \subseteq List!Ids /\ (s3'[p] # <<>> => s4[p] \in {"upload", "download"})
  <2>1. CASE s3'[p] = s3[p]
    BY <2>1, HandlerTypes
  <2>2. CASE p = r /\ known /\ s3'[p] = ks
    <3>1. DOMAIN ks = DOMAIN s3[r] \cup {id}
      BY DEF List!Joined
    <3>2. DOMAIN s3[r] \subseteq List!Ids /\ s4[r] \in {"upload", "download"}
      BY <1>1, <1>4, <2>2, HandlerTypes
    <3>3. DOMAIN s3'[p] = DOMAIN ks
      BY <2>2
    <3> QED BY <2>2, <3>1, <3>2, <3>3
  <2> QED BY <1>14, <2>1, <2>2
<1>16. \A p \in List!Runs : s3'[p] # <<>> =>
           (s3[p] # <<>> /\ ~List!BatchEndOf(Head(s10), p)) \/ List!BatchEnding(p, 1)
  BY <1>0, <1>4, <1>14 DEF List!BatchEndOf
<1> QED BY <1>0, <1>9, <1>11, <1>12, <1>13, <1>14, <1>15, <1>16, HandlerKeeps

LEMMA BatchesEnd ==
    ASSUME List!SettleInv, List!UploadBatchComplete \/ List!DownloadBatchComplete
    PROVE  List!SettleInv'
<1>0. s10 # <<>> /\ List!Handled /\ Head(s10).t = "batchEnd"
  BY DEF List!UploadBatchComplete, List!DownloadBatchComplete, List!Receives
<1>a. PICK id \in List!Ids : id = Head(s10).id /\ id[2] = 0 /\ id[1] \in List!Runs
  BY <1>0, HeadFacts DEF List!ReportOK
<1>b. PICK how \in List!Ends : how = Head(s10).how
  BY <1>0, HowEnds
<1>1. s1 \in List!Lists /\ "failed" \in List!Ends
  BY HandlerTypes DEF List!Ends
<1>2. PICK l, s : /\ l \in List!Lists /\ \A x \in List!Ids : l[x] = s1[x] \/ (l[x] = how /\ s1[x] # "absent")
                  /\ s \in List!Ends /\ s1' = List!UpdateTransfer(l, id, s)
  <2>1. PICK mine : \/ s1' = List!UpdateTransfer(IF how = "cancelled" THEN [i \in List!Ids |-> IF i \in mine /\ s1[i] # "absent" THEN how ELSE s1[i]] ELSE s1,
                                         id, IF how = "completed"
                                             /\ \E i \in mine : s2[i] = "failed" THEN "failed" ELSE how)
                    \/ s1' = List!UpdateTransfer([i \in List!Ids |-> IF how = "cancelled" /\ i \in mine /\ s2[i] = "transferring"
                                      /\ s1[i] # "absent" THEN how ELSE s1[i]], id, how)
    BY <1>a, <1>b DEF List!UploadBatchComplete, List!DownloadBatchComplete
  <2> DEFINE up == [i \in List!Ids |-> IF i \in mine /\ s1[i] # "absent" THEN how ELSE s1[i]]
             down == [i \in List!Ids |-> IF how = "cancelled" /\ i \in mine /\ s2[i] = "transferring"
                                      /\ s1[i] # "absent" THEN how ELSE s1[i]]
  <2>2. how \in List!Statuses
    BY EndsAreStatuses
  <2>3. /\ up \in List!Lists /\ \A x \in List!Ids : up[x] = s1[x] \/ (up[x] = how /\ s1[x] # "absent")
        /\ down \in List!Lists /\ \A x \in List!Ids : down[x] = s1[x] \/ (down[x] = how /\ s1[x] # "absent")
    BY <1>1, <2>2 DEF List!Lists
  <2>4. \E l \in {up, down, s1}, s \in {"failed", how} : s1' = List!UpdateTransfer(l, id, s)
    BY <2>1
  <2> HIDE DEF up, down
  <2> QED BY <1>1, <2>3, <2>4
<1>3. s \in List!Statuses /\ s # "absent" /\ s \notin List!Active /\ how # "absent" /\ how \notin List!Active
  BY <1>2, EndsAreStatuses
<1>4. s1' \in List!Lists /\ \A x \in List!Ids : s1'[x] = IF x = id /\ l[x] # "absent" THEN s ELSE l[x]
  <2>1. /\ List!UpdateTransfer(l, id, s) \in List!Lists
        /\ \A x \in List!Ids : List!UpdateTransfer(l, id, s)[x] = (IF x = id /\ l[x] # "absent" THEN s ELSE l[x])
    BY <1>2, <1>3, Updated
  <2> QED BY <1>2, <2>1
<1>5. "absent" \notin List!Active
  BY DEF List!Active
<1>6. \A x \in List!Ids : s1'[x] \in List!Active => s1[x] \in List!Active /\ ~List!EndOf(Head(s10), x)
  BY <1>a, <1>2, <1>3, <1>4, <1>5 DEF List!EndOf
<1>7. \A x \in List!Ids : s1[x] = "absent" => s1'[x] = "absent"
  BY <1>2, <1>4
<1>8. \A x \in List!Ids : s1[x] \notin List!Active => s1'[x] \notin List!Active
  BY <1>6
<1>9. s3' = [s3 EXCEPT ![id[1]] = <<>>]
  BY <1>a DEF List!UploadBatchComplete, List!DownloadBatchComplete
<1>10. /\ DOMAIN s3' = List!Runs /\ s3'[id[1]] = <<>> /\ \A r \in List!Runs : r # id[1] => s3'[r] = s3[r]
  BY <1>9, <1>a, HandlerTypes
<1>11. ASSUME NEW r \in List!Runs
       PROVE  DOMAIN s3'[r] \subseteq List!Ids /\ (s3'[r] # <<>> => s4[r] \in {"upload", "download"})
  <2>1. CASE s3'[r] = s3[r]
    BY <2>1, HandlerTypes
  <2>2. CASE s3'[r] = <<>>
    BY <2>2, HandlerTypes
  <2> QED BY <1>10, <2>1, <2>2
<1>12. \A q \in List!Runs : s3'[q] # <<>> => s3[q] # <<>> /\ ~List!BatchEndOf(Head(s10), q)
  <2> SUFFICES ASSUME NEW q \in List!Runs, s3'[q] # <<>> PROVE s3[q] # <<>> /\ ~List!BatchEndOf(Head(s10), q)
    OBVIOUS
  <2>1. q # id[1] /\ <<q, 0>>[1] = q
    BY <1>10
  <2> QED BY <1>10, <1>a, <2>1 DEF List!BatchEndOf
<1> QED BY <1>0, <1>4, <1>6, <1>7, <1>8, <1>10, <1>11, <1>12, HandlerKeeps

LEMMA Received == ASSUME List!SettleInv, List!Receive PROVE List!SettleInv'
BY Written, BatchesStart, ProgressUp, ItemsStart, ItemsEndUp, BatchesEnd DEF List!Receive

-----------------------------------------------------------------------------
LEMMA WorkOfOthers ==
    ASSUME UNCHANGED <<s4, s6, s5>>, s7 \subseteq s7'
    PROVE  /\ \A id \in List!Ids : List!Working(id) => List!Working(id)'
           /\ \A q \in List!Runs : List!Running(q) => List!Running(q)'
           /\ \A id \in List!Ids : List!Begun(id)' <=> List!Begun(id)
BY DEF List!Working, List!Running, List!Begun

LEMMA CommitKeeps == ASSUME List!SettleInv, List!Commit PROVE List!SettleInv'
<1>0. s2' = s1 /\ UNCHANGED <<s1, s3, s4, s6, s5, s7, s10, s11, s12>>
  BY DEF List!Commit
<1>1. List!TypeOK' /\ List!RunsOK' /\ List!CancelledStays'
  BY <1>0 DEF List!SettleInv, List!TypeOK, List!RunsOK, List!RunOK, List!CancelledStays, List!Active
<1>2. /\ \A id \in List!Ids : List!NotListed(id) => List!NotListed(id)'
      /\ \A r \in List!Runs : s4'[r] = "none" \/ s11'[r] # "none" => List!NotListed(<<r, 0>>)'
  <2>1. \A id \in List!Ids : List!NotListed(id) => List!NotListed(id)'
    BY <1>0 DEF List!NotListed
  <2>2. \A r \in List!Runs : s4'[r] = "none" \/ s11'[r] # "none" => List!NotListed(<<r, 0>>)
    BY <1>0 DEF List!SettleInv, List!FirstStart
  <2> QED BY <1>0, <2>1, <2>2 DEF List!NotListed
<1> QED BY <1>0, <1>1, <1>2, WorkOfOthers, UserKeeps

\* A click that only ends entries or takes them off the list.
LEMMA ClickKeeps ==
    ASSUME List!SettleInv, List!Clicked, UNCHANGED <<s4, s6, s5, s7, s12>>, s1' \in List!Lists,
           \A id \in List!Ids : (s1'[id] = s1[id] \/ s1'[id] \notin List!Active)
               /\ (s1[id] = "absent" => s1'[id] = "absent")
    PROVE  List!SettleInv'
<1>0. s2' = s1' /\ UNCHANGED <<s3, s10, s11>>
  BY DEF List!Clicked
<1>1. List!TypeOK' /\ List!RunsOK' /\ List!CancelledStays'
  BY <1>0 DEF List!SettleInv, List!TypeOK, List!RunsOK, List!RunOK, List!CancelledStays, List!Active,
     List!Lists, List!Statuses
<1>2. \A id \in List!Ids : List!NotListed(id) => List!NotListed(id)'
  BY <1>0 DEF List!NotListed
<1>3. ASSUME NEW r \in List!Runs, s4'[r] = "none" \/ s11'[r] # "none" PROVE List!NotListed(<<r, 0>>)'
  <2>1. List!NotListed(<<r, 0>>) /\ <<r, 0>> \in List!Ids
    BY <1>0, <1>3, PartsId, TransfersAssumption DEF List!SettleInv, List!FirstStart
  <2> QED BY <1>2, <2>1
<1> QED BY <1>0, <1>1, <1>2, <1>3, WorkOfOthers, UserKeeps

LEMMA ClicksKeep ==
    ASSUME List!SettleInv, List!CancelTransfer \/ List!RemoveTransfer \/ List!ClearCompletedTransfers
    PROVE  List!SettleInv'
<1>0. List!Clicked /\ UNCHANGED <<s4, s6, s5, s7, s12>>
  BY DEF List!CancelTransfer, List!RemoveTransfer, List!ClearCompletedTransfers
<1>1. s1 \in List!Lists /\ "cancelled" \in List!Statuses /\ "absent" \in List!Statuses
          /\ "absent" \notin List!Active /\ "cancelled" \notin List!Active
  BY HandlerTypes DEF List!Statuses, List!Ends, List!Active
<1>2. CASE List!CancelTransfer
  <2>1. PICK id \in List!Ids : s1' = List!UpdateTransfer(s1, id, "cancelled")
    BY <1>2 DEF List!CancelTransfer
  <2>2. /\ List!UpdateTransfer(s1, id, "cancelled") \in List!Lists
        /\ \A x \in List!Ids : List!UpdateTransfer(s1, id, "cancelled")[x] = (IF x = id /\ s1[x] # "absent" THEN "cancelled" ELSE s1[x])
    BY <1>1, Updated
  <2>3. \A x \in List!Ids : (s1'[x] = s1[x] \/ s1'[x] \notin List!Active) /\ (s1[x] = "absent" => s1'[x] = "absent")
    BY <1>1, <2>1, <2>2
  <2> QED BY <1>0, <2>1, <2>2, <2>3, ClickKeeps
<1>3. CASE List!RemoveTransfer
  <2>1. PICK id \in List!Ids : s1' = [s1 EXCEPT ![id] = "absent"]
    BY <1>3 DEF List!RemoveTransfer
  <2>2. s1' \in List!Lists /\ \A x \in List!Ids : (s1'[x] = s1[x] \/ s1'[x] \notin List!Active)
            /\ (s1[x] = "absent" => s1'[x] = "absent")
    BY <1>1, <2>1 DEF List!Lists
  <2> QED BY <1>0, <2>2, ClickKeeps
<1>4. CASE List!ClearCompletedTransfers
  <2>1. s1' = [id \in List!Ids |-> IF s1[id] \in List!Active THEN s1[id] ELSE "absent"]
    BY <1>4 DEF List!ClearCompletedTransfers
  <2>2. s1' \in List!Lists /\ \A x \in List!Ids : (s1'[x] = s1[x] \/ s1'[x] \notin List!Active)
            /\ (s1[x] = "absent" => s1'[x] = "absent")
    BY <1>1, <2>1 DEF List!Lists
  <2> QED BY <1>0, <2>2, ClickKeeps
<1> QED BY <1>2, <1>3, <1>4

-----------------------------------------------------------------------------
LEMMA Positioned ==
    ASSUME NEW s \in List!RunStates, NEW r \in List!Runs, NEW to \in List!Positions
    PROVE  /\ [s EXCEPT ![r] = to] \in List!RunStates
           /\ s[r] \in List!Positions /\ s[r].k \in 0..TransferItems /\ s[r] = List!At(s[r].at, s[r].k)
           /\ \A p \in List!Runs : [s EXCEPT ![r] = to][p] = IF p = r THEN to ELSE s[p]
BY DEF List!RunStates, List!Positions, List!At

LEMMA AtIsPosition ==
    ASSUME NEW at \in List!Stages, NEW k \in 0..TransferItems
    PROVE  List!At(at, k) \in List!Positions /\ List!At(at, k).at = at /\ List!At(at, k).k = k
BY DEF List!At, List!Positions

LEMMA AtTheStart == List!At("starting", 0) \in List!Positions /\ List!At("starting", 0).at = "starting"
<1>1. "starting" \in List!Stages /\ 0 \in 0..TransferItems
  BY TransfersAssumption DEF List!Stages
<1> QED BY <1>1, AtIsPosition

\* A run that has not begun.
LEMMA FreshRun ==
    ASSUME List!SettleInv, NEW r \in List!Runs, s4[r] = "none"
    PROVE  /\ s6[r] = r /\ s11[r] = "none" /\ s5[r].at = "none" /\ s3[r] = <<>>
           /\ \A p \in List!Runs : s6[p] = r => p = r
           /\ \A id \in List!Ids : id[1] = r => List!NotListed(id)
<1>1. s6[r] = r /\ s11[r] = "none" /\ s5[r].at = "none" /\ s3[r] = <<>>
  BY DEF List!SettleInv, List!RunsOK, List!RunOK
<1>2. ASSUME NEW p \in List!Runs, s6[p] = r PROVE p = r
  BY <1>2 DEF List!SettleInv, List!RunsOK, List!RunOK
<1>3. ASSUME NEW id \in List!Ids, id[1] = r PROVE List!NotListed(id)
  <2>1. CASE id[2] = 0
    <3>1. List!NotListed(<<r, 0>>)
      BY DEF List!SettleInv, List!FirstStart
    <3>2. id = <<r, 0>>
      BY <1>3, <2>1, IdParts
    <3> QED BY <3>1, <3>2
  <2>2. CASE id[2] > 0
    <3>1. ~List!Begun(id)
      BY <1>1, <1>3 DEF List!Begun
    <3> QED BY <2>2, <3>1 DEF List!SettleInv, List!FirstStart
  <2> QED BY <2>1, <2>2, IdParts
<1> QED BY <1>1, <1>2, <1>3

\* A run begins: nobody else's work ends.
LEMMA StartKeepsWork ==
    ASSUME List!SettleInv, NEW r \in List!Runs, s4[r] = "none", s7 \subseteq s7',
           \A p \in List!Runs \ {r} : s4'[p] = s4[p] /\ s6'[p] = s6[p] /\ s5'[p] = s5[p],
           s5'[r].at \in {"none", "starting"}
    PROVE  /\ \A id \in List!Ids : List!Working(id) => List!Working(id)'
           /\ \A q \in List!Runs : List!Running(q) => List!Running(q)'
           /\ \A id \in List!Ids : List!Begun(id)' <=> List!Begun(id)
<1>0. s5[r].at = "none"
  BY FreshRun
<1>1. ASSUME NEW q \in List!Runs, List!Running(q) PROVE List!Running(q)'
  <2>1. PICK p \in List!Runs : s6[p] = q /\ s4[p] # "files" /\ s5[p].at \notin {"none", "done"}
    BY <1>1 DEF List!Running
  <2>2. p # r
    BY <1>0, <2>1
  <2> QED BY <2>1, <2>2 DEF List!Running
<1>2. ASSUME NEW id \in List!Ids, List!Working(id) PROVE List!Working(id)'
  <2>0. id[1] \in List!Runs
    BY IdParts
  <2>1. CASE \E a \in s7 : a[1] = id
    BY <2>1 DEF List!Working
  <2>2. CASE id[2] > 0 /\ s5[id[1]] = List!At("item", id[2])
    <3>1. id[1] # r
      BY <1>0, <2>2 DEF List!At
    <3> QED BY <2>0, <2>2, <3>1 DEF List!Working
  <2>3. CASE id[2] = 0 /\ List!Running(id[1])
    BY <1>1, <2>0, <2>3 DEF List!Working
  <2> QED BY <1>2, <2>1, <2>2, <2>3 DEF List!Working
<1>3. ASSUME NEW id \in List!Ids PROVE List!Begun(id)' <=> List!Begun(id)
  <2>0. id[1] \in List!Runs
    BY IdParts
  <2>1. CASE id[1] = r
    BY <1>0, <2>1 DEF List!Begun
  <2>2. CASE id[1] # r
    BY <2>0, <2>2 DEF List!Begun
  <2> QED BY <2>1, <2>2
<1> QED BY <1>1, <1>2, <1>3

LEMMA BeginsAsking == ASSUME List!SettleInv, List!BeginUpload \/ List!BeginDownloads PROVE List!SettleInv'
<1>1. PICK r \in List!Runs, k \in {"upload", "files", "download"} :
          s4[r] = "none" /\ s4' = [s4 EXCEPT ![r] = k] /\ s11' = [s11 EXCEPT ![r] = "checking"]
  BY DEF List!BeginUpload, List!BeginDownloads, List!Starting, List!NextRun
<1>2. UNCHANGED <<s1, s2, s3, s6, s5, s7, s10, s12>>
  BY DEF List!BeginUpload, List!BeginDownloads, List!BeginUnchanged
<1>3. s4 \in [List!Runs -> {"none"} \cup List!Kinds] /\ s11 \in [List!Runs -> {"none", "checking", "asking"}]
  BY DEF List!SettleInv, List!TypeOK
<1>4. List!TypeOK'
  BY <1>1, <1>2, <1>3 DEF List!SettleInv, List!TypeOK, List!Kinds
<1>5. List!RunsOK'
  <2>1. \A p \in List!Runs : s4'[p] = (IF p = r THEN k ELSE s4[p])
            /\ s11'[p] = (IF p = r THEN "checking" ELSE s11[p])
    BY <1>1, <1>3
  <2>2. \A a \in s7 : a[1][1] \in List!Runs
    BY IdParts DEF List!SettleInv, List!TypeOK
  <2> QED BY <1>1, <1>2, <2>1, <2>2, FreshRun DEF List!SettleInv, List!TypeOK, List!RunsOK, List!RunOK
<1>6. /\ \A id \in List!Ids : List!Working(id) => List!Working(id)'
      /\ \A q \in List!Runs : List!Running(q) => List!Running(q)'
      /\ \A id \in List!Ids : List!Begun(id)' <=> List!Begun(id)
  BY <1>1, <1>2, <1>3, FreshRun, StartKeepsWork
<1>7. \A p \in List!Runs : s4[p] # "none" =>
               s4'[p] = s4[p] /\ s6'[p] = s6[p] /\ (s11[p] = "none" => s11'[p] = "none")
  BY <1>1, <1>2, <1>3
<1>8. \A id \in List!Ids : List!NotListed(id) => List!NotListed(id)'
  BY <1>2 DEF List!NotListed
<1>9. ASSUME NEW p \in List!Runs, s4'[p] = "none" \/ s11'[p] # "none" PROVE List!NotListed(<<p, 0>>)'
  <2>1. s4[p] = "none" \/ s11[p] # "none"
    BY <1>1, <1>3, <1>9
  <2> QED BY <1>2, <2>1 DEF List!SettleInv, List!FirstStart, List!NotListed
<1>10. List!CancelledStays'
  <2> SUFFICES ASSUME NEW id \in List!Ids, s4'[id[1]] \in {"download", "file"}, s2[id] = "cancelled"
               PROVE  s1[id] \notin List!Active
    BY <1>2 DEF List!CancelledStays
  <2>1. id[1] # r
    BY <1>1, FreshRun DEF List!NotListed
  <2>2. s4[id[1]] = s4'[id[1]]
    BY <1>1, <1>3, <2>1, IdParts
  <2> QED BY <2>2 DEF List!SettleInv, List!CancelledStays
<1> QED BY <1>2, <1>4, <1>5, <1>6, <1>7, <1>8, <1>9, <1>10, UserKeeps

LEMMA BeginsAlone == ASSUME List!SettleInv, List!BeginDownloadFile \/ List!BeginArchive PROVE List!SettleInv'
<1>1. PICK r \in List!Runs, k \in {"file", "archive"} :
          /\ s4[r] = "none" /\ s4' = [s4 EXCEPT ![r] = k]
          /\ s1' = [s1 EXCEPT ![<<r, 0>>] = "transferring"]
          /\ s7' = s7 \cup {<<<<r, 0>>, 0>>}
  BY DEF List!BeginDownloadFile, List!BeginArchive, List!CallAlone, List!Starting, List!NextRun
<1>2. UNCHANGED <<s2, s3, s6, s5, s10, s11, s12>>
  BY DEF List!BeginDownloadFile, List!BeginArchive, List!BeginUnchanged
<1>3. s4 \in [List!Runs -> {"none"} \cup List!Kinds] /\ s1 \in List!Lists
  BY HandlerTypes DEF List!SettleInv, List!TypeOK
<1>0. <<r, 0>> \in List!Ids /\ <<r, 0>>[1] = r /\ <<r, 0>>[2] = 0 /\ 0 \in 0..TransferRetries
  BY PartsId, TransfersAssumption
<1>4. List!TypeOK'
  <2>1. s1' \in List!Lists /\ s4' \in [List!Runs -> {"none"} \cup List!Kinds]
            /\ s7' \subseteq List!Ids \X (0..TransferRetries)
    BY <1>0, <1>1, <1>3 DEF List!Lists, List!Statuses, List!Active, List!Kinds, List!SettleInv, List!TypeOK
  <2> QED BY <1>2, <2>1 DEF List!SettleInv, List!TypeOK, List!Lists, List!Statuses
<1>5. List!RunsOK'
  <2>1. \A p \in List!Runs : s4'[p] = (IF p = r THEN k ELSE s4[p])
    BY <1>1, <1>3
  <2>2. \A a \in s7 : a[1][1] \in List!Runs
    BY IdParts DEF List!SettleInv, List!TypeOK
  <2>3. \A a \in s7' : a \in s7 \/ a[1][1] = r
    BY <1>1
  <2> QED BY <1>1, <1>2, <2>1, <2>2, <2>3, FreshRun DEF List!SettleInv, List!TypeOK, List!RunsOK, List!RunOK
<1>6. /\ \A id \in List!Ids : List!Working(id) => List!Working(id)'
      /\ \A q \in List!Runs : List!Running(q) => List!Running(q)'
      /\ \A id \in List!Ids : List!Begun(id)' <=> List!Begun(id)
  BY <1>1, <1>2, <1>3, FreshRun, StartKeepsWork
<1>7. \A p \in List!Runs : s4[p] # "none" =>
               s4'[p] = s4[p] /\ s6'[p] = s6[p] /\ (s11[p] = "none" => s11'[p] = "none")
  BY <1>1, <1>2, <1>3
<1>a. \A id \in List!Ids : s1'[id] = (IF id = <<r, 0>> THEN "transferring" ELSE s1[id])
  BY <1>0, <1>1, <1>3 DEF List!Lists
<1>b. \A id \in List!Ids : s1'[id] \in List!Active => s1[id] \in List!Active \/ List!Working(id)'
  <2> SUFFICES ASSUME NEW id \in List!Ids, id = <<r, 0>> PROVE List!Working(id)'
    BY <1>a
  <2>1. <<<<r, 0>>, 0>> \in s7' /\ <<<<r, 0>>, 0>>[1] = id
    BY <1>1
  <2> QED BY <2>1 DEF List!Working
<1>8. \A id \in List!Ids : id[2] > 0 /\ List!NotListed(id) => List!NotListed(id)'
  BY <1>0, <1>2, <1>a DEF List!NotListed
<1>9. ASSUME NEW p \in List!Runs, s4'[p] = "none" \/ s11'[p] # "none" PROVE List!NotListed(<<p, 0>>)'
  <2>1. List!NotListed(<<p, 0>>) /\ <<p, 0>> \in List!Ids /\ <<p, 0>>[1] = p
    BY <1>1, <1>2, <1>3, <1>9, PartsId, TransfersAssumption DEF List!SettleInv, List!FirstStart
  <2>2. p # r
    BY <1>1, <1>2, <1>3, <1>9, FreshRun
  <2>3. <<p, 0>> # <<r, 0>>
    BY <2>2
  <2> QED BY <1>2, <1>a, <2>1, <2>3 DEF List!NotListed
<1>10. List!CancelledStays'
  <2> SUFFICES ASSUME NEW id \in List!Ids, s4'[id[1]] \in {"download", "file"}, s2[id] = "cancelled"
               PROVE  s1'[id] \notin List!Active
    BY <1>2 DEF List!CancelledStays
  <2>1. id[1] # r
    BY <1>1, FreshRun DEF List!NotListed
  <2>2. s4[id[1]] = s4'[id[1]] /\ s1'[id] = s1[id]
    BY <1>0, <1>1, <1>3, <1>a, <2>1, IdParts
  <2> QED BY <2>2 DEF List!SettleInv, List!CancelledStays
<1> QED BY <1>2, <1>4, <1>5, <1>6, <1>7, <1>8, <1>9, <1>10, <1>b, UserKeeps

LEMMA BeginsDelete == ASSUME List!SettleInv, List!BeginDelete PROVE List!SettleInv'
<1>1. PICK r \in List!Runs :
          /\ s4[r] = "none" /\ s4' = [s4 EXCEPT ![r] = "delete"] /\ s5' = [s5 EXCEPT ![r] = List!At("starting", 0)]
  BY DEF List!BeginDelete, List!Starting, List!NextRun
<1>2. UNCHANGED <<s1, s2, s3, s6, s7, s10, s11, s12>>
  BY DEF List!BeginDelete, List!BeginUnchanged
<1>3. s4 \in [List!Runs -> {"none"} \cup List!Kinds] /\ s5 \in List!RunStates
  BY DEF List!SettleInv, List!TypeOK, List!RunsOK, List!RunOK
<1>a. s5' \in List!RunStates /\ \A p \in List!Runs : s5'[p] = IF p = r THEN List!At("starting", 0) ELSE s5[p]
  <2>1. /\ [s5 EXCEPT ![r] = List!At("starting", 0)] \in List!RunStates
        /\ \A p \in List!Runs : [s5 EXCEPT ![r] = List!At("starting", 0)][p] = IF p = r THEN List!At("starting", 0) ELSE s5[p]
    BY <1>3, AtTheStart, Positioned
  <2> QED BY <1>1, <2>1
<1>4. List!TypeOK'
  BY <1>1, <1>2, <1>3 DEF List!SettleInv, List!TypeOK, List!Kinds
<1>5. List!RunsOK'
  <2>1. \A p \in List!Runs : s4'[p] = (IF p = r THEN "delete" ELSE s4[p])
            /\ s5'[p] = (IF p = r THEN List!At("starting", 0) ELSE s5[p])
    BY <1>1, <1>3, <1>a
  <2>2. \A a \in s7 : a[1][1] \in List!Runs
    BY IdParts DEF List!SettleInv, List!TypeOK
  <2> QED BY <1>1, <1>2, <1>a, <2>1, <2>2, FreshRun, AtTheStart DEF List!SettleInv, List!TypeOK, List!RunsOK,
             List!RunOK
<1>6. /\ \A id \in List!Ids : List!Working(id) => List!Working(id)'
      /\ \A q \in List!Runs : List!Running(q) => List!Running(q)'
      /\ \A id \in List!Ids : List!Begun(id)' <=> List!Begun(id)
  <2>1. s5'[r].at = "starting"
    BY <1>a, AtTheStart
  <2> QED BY <1>1, <1>2, <1>3, <1>a, <2>1, StartKeepsWork
<1>7. \A p \in List!Runs : s4[p] # "none" =>
               s4'[p] = s4[p] /\ s6'[p] = s6[p] /\ (s11[p] = "none" => s11'[p] = "none")
  BY <1>1, <1>2, <1>3
<1>8. \A id \in List!Ids : List!NotListed(id) => List!NotListed(id)'
  BY <1>2 DEF List!NotListed
<1>9. ASSUME NEW p \in List!Runs, s4'[p] = "none" \/ s11'[p] # "none" PROVE List!NotListed(<<p, 0>>)'
  <2>1. s4[p] = "none" \/ s11[p] # "none"
    BY <1>1, <1>2, <1>3, <1>9
  <2> QED BY <1>2, <2>1 DEF List!SettleInv, List!FirstStart, List!NotListed
<1>10. List!CancelledStays'
  <2> SUFFICES ASSUME NEW id \in List!Ids, s4'[id[1]] \in {"download", "file"}, s2[id] = "cancelled"
               PROVE  s1[id] \notin List!Active
    BY <1>2 DEF List!CancelledStays
  <2>1. id[1] # r
    BY <1>1, FreshRun DEF List!NotListed
  <2>2. s4[id[1]] = s4'[id[1]]
    BY <1>1, <1>3, <2>1, IdParts
  <2> QED BY <2>2 DEF List!SettleInv, List!CancelledStays
<1> QED BY <1>2, <1>4, <1>5, <1>6, <1>7, <1>8, <1>9, <1>10, UserKeeps

LEMMA RetryKeeps == ASSUME List!SettleInv, List!RetryTransfer PROVE List!SettleInv'
<1>0. s2' = s1' /\ UNCHANGED <<s3, s10, s11>> /\ s12 < TransferRetries /\ s12' = s12 + 1
  BY DEF List!RetryTransfer, List!Clicked
<1>1. PICK id \in List!Ids :
          /\ s2[id] \in {"failed", "cancelled"} /\ (id[2] > 0 \/ s4[id[1]] \in {"upload", "download", "file"})
          /\ \/ /\ s1' = List!UpdateTransfer(s1, id, "transferring")
                /\ s7' = s7 \cup {<<id, s12 + 1>>}
                /\ UNCHANGED <<s4, s6, s5>>
             \/ /\ id[2] = 0 /\ s4[id[1]] # "file"
                /\ \E r \in List!Runs :
                      /\ List!NextRun(r) /\ s4' = [s4 EXCEPT ![r] = s4[id[1]]]
                      /\ s6' = IF s4[id[1]] = "upload" THEN s6 ELSE [s6 EXCEPT ![r] = id[1]]
                      /\ s5' = [s5 EXCEPT ![r] = List!At("starting", 0)]
                /\ s1' = IF s4[id[1]] = "upload" THEN s1 ELSE List!UpdateTransfer(s1, id, "transferring")
                /\ UNCHANGED s7
  BY DEF List!RetryTransfer, List!CanRetry
<1>2. /\ s4 \in [List!Runs -> {"none"} \cup List!Kinds] /\ s1 \in List!Lists /\ s6 \in [List!Runs -> List!Runs]
         /\ s12 \in Nat
      /\ s5 \in List!RunStates
      /\ s7 \subseteq List!Ids \X (0..TransferRetries) /\ "transferring" \in List!Statuses
  BY HandlerTypes, TransfersAssumption DEF List!SettleInv, List!TypeOK, List!RunsOK, List!RunOK, List!Statuses,
     List!Active
<1>a. id[1] \in List!Runs /\ id[2] \in 0..TransferItems
  BY IdParts
<1>3. s4[id[1]] # "none"
  <2>1. CASE id[2] > 0
    <3>1. ~List!NotListed(id)
      BY <1>1 DEF List!NotListed
    <3>2. List!Begun(id)
      BY <2>1, <3>1 DEF List!SettleInv, List!FirstStart
    <3> QED BY <1>a, <3>2 DEF List!Begun, List!SettleInv, List!RunsOK, List!RunOK
  <2>2. CASE id[2] = 0
    BY <1>1, <2>2
  <2> QED BY <1>a, <2>1, <2>2
<1>4. /\ List!UpdateTransfer(s1, id, "transferring") \in List!Lists
      /\ \A x \in List!Ids : List!UpdateTransfer(s1, id, "transferring")[x] = (IF x = id /\ s1[x] # "absent" THEN "transferring" ELSE s1[x])
  BY <1>2, Updated
<1>5. s1' \in List!Lists /\ \A x \in List!Ids : s1'[x] = s1[x] \/ (x = id /\ s1[x] # "absent" /\ s1' # s1)
  BY <1>1, <1>2, <1>4
<1>6. \A x \in List!Ids : List!NotListed(x) => List!NotListed(x)'
  BY <1>0, <1>5 DEF List!NotListed
<1>7. List!CancelledStays'
  BY <1>0 DEF List!CancelledStays, List!Active
<1>8. CASE s7' = s7 \cup {<<id, s12 + 1>>} /\ UNCHANGED <<s4, s6, s5>>
  <2>1. List!TypeOK'
    <3>1. s7' \subseteq List!Ids \X (0..TransferRetries) /\ s12' \in 0..TransferRetries
      BY <1>0, <1>2, <1>8, TransfersAssumption
    <3> QED BY <1>0, <1>5, <1>8, <3>1 DEF List!SettleInv, List!TypeOK, List!Lists, List!Statuses
  <2>2. List!RunsOK'
    <3>1. \A a \in s7' : a \in s7 \/ a[1] = id
      BY <1>8
    <3> QED BY <1>0, <1>3, <1>8, <3>1 DEF List!SettleInv, List!RunsOK, List!RunOK
  <2>3. List!Working(id)'
    <3>1. <<id, s12 + 1>> \in s7' /\ <<id, s12 + 1>>[1] = id
      BY <1>8
    <3> QED BY <3>1 DEF List!Working
  <2>4. \A x \in List!Ids : s1'[x] \in List!Active => s1[x] \in List!Active \/ List!Working(x)'
    BY <1>5, <2>3
  <2>5. ASSUME NEW p \in List!Runs, s4'[p] = "none" \/ s11'[p] # "none" PROVE List!NotListed(<<p, 0>>)'
    <3>1. List!NotListed(<<p, 0>>) /\ <<p, 0>> \in List!Ids
      BY <1>0, <1>8, <2>5, PartsId, TransfersAssumption DEF List!SettleInv, List!FirstStart
    <3> QED BY <1>6, <3>1
  <2> QED BY <1>0, <1>6, <1>7, <1>8, <2>1, <2>2, <2>4, <2>5, WorkOfOthers, UserKeeps
<1>9. ASSUME NEW r \in List!Runs, s4[r] = "none", s4' = [s4 EXCEPT ![r] = s4[id[1]]], id[2] = 0,
             s4[id[1]] \in {"upload", "download"}, UNCHANGED s7,
             s6' = IF s4[id[1]] = "upload" THEN s6 ELSE [s6 EXCEPT ![r] = id[1]],
             s5' = [s5 EXCEPT ![r] = List!At("starting", 0)],
             s4[id[1]] = "upload" => s1' = s1
      PROVE  List!SettleInv'
  <2>0. /\ \A p \in List!Runs : /\ s4'[p] = (IF p = r THEN s4[id[1]] ELSE s4[p])
                                /\ s5'[p] = (IF p = r THEN List!At("starting", 0) ELSE s5[p])
                                /\ s6'[p] = (IF p = r /\ s4[id[1]] # "upload" THEN id[1] ELSE s6[p])
        /\ s4' \in [List!Runs -> {"none"} \cup List!Kinds] /\ s6' \in [List!Runs -> List!Runs]
        /\ s5' \in List!RunStates
    <3>1. /\ [s5 EXCEPT ![r] = List!At("starting", 0)] \in List!RunStates
          /\ \A p \in List!Runs : [s5 EXCEPT ![r] = List!At("starting", 0)][p] = IF p = r THEN List!At("starting", 0) ELSE s5[p]
      BY <1>2, AtTheStart, Positioned
    <3> QED BY <1>2, <1>9, <1>a, <3>1
  <2>1. List!TypeOK'
    <3>1. s12' \in 0..TransferRetries
      BY <1>0, <1>2, TransfersAssumption
    <3> QED BY <1>0, <1>5, <1>9, <2>0, <3>1 DEF List!SettleInv, List!TypeOK, List!Lists, List!Statuses
  <2>a. /\ s6[r] = r /\ s11[r] = "none" /\ s5[r].at = "none" /\ s3[r] = <<>>
        /\ \A p \in List!Runs : s6[p] = r => p = r
    BY <1>9, FreshRun
  <2>2. List!RunsOK'
    <3>1. \A a \in s7 : a[1][1] \in List!Runs
      BY <1>2, IdParts
    <3>2. \A p \in List!Runs : s6[p] \in List!Runs
      BY <1>2
    <3>3. \A p \in List!Runs : s4'[s6'[p]] = s4'[p] /\ (s6'[p] # p => s4'[p] = "download")
      BY <1>9, <1>a, <2>0, <2>a, <3>2 DEF List!SettleInv, List!RunsOK, List!RunOK
    <3>4. \A p \in List!Runs : /\ s4'[p] = "none" => s5'[p].at = "none" /\ s11[p] = "none"
                               /\ s11[p] # "none" => s5'[p].at = "none" /\ s6'[p] = p
                               /\ s3[p] # <<>> => s4'[p] \in {"upload", "download"}
                               /\ s5'[p].at = "item" => s5'[p].k > 0
      BY <1>9, <2>0, <2>a, AtTheStart DEF List!SettleInv, List!RunsOK, List!RunOK
    <3> QED BY <1>0, <1>9, <2>0, <3>1, <3>3, <3>4 DEF List!SettleInv, List!RunsOK, List!RunOK
  <2>3. /\ \A x \in List!Ids : List!Working(x) => List!Working(x)'
        /\ \A q \in List!Runs : List!Running(q) => List!Running(q)'
        /\ \A x \in List!Ids : List!Begun(x)' <=> List!Begun(x)
    <3>1. s5'[r].at = "starting"
      BY <2>0, AtTheStart
    <3> QED BY <1>9, <2>0, <3>1, StartKeepsWork
  <2>4. \A x \in List!Ids : s1'[x] \in List!Active => s1[x] \in List!Active \/ List!Working(x)'
    <3>1. ASSUME s1' # s1 PROVE List!Working(id)'
      <4>1. s6'[r] = id[1] /\ s4'[r] # "files" /\ s5'[r].at = "starting"
        BY <1>9, <2>0, <3>1, AtTheStart
      <4>2. List!Running(id[1])'
        BY <4>1 DEF List!Running
      <4> QED BY <1>9, <4>2 DEF List!Working
    <3> QED BY <1>5, <3>1
  <2>5. ASSUME NEW p \in List!Runs, s4'[p] = "none" \/ s11'[p] # "none" PROVE List!NotListed(<<p, 0>>)'
    <3>1. s4[p] = "none" \/ s11[p] # "none"
      BY <1>0, <1>9, <2>0, <2>5
    <3>2. List!NotListed(<<p, 0>>) /\ <<p, 0>> \in List!Ids
      BY <3>1, PartsId, TransfersAssumption DEF List!SettleInv, List!FirstStart
    <3> QED BY <1>6, <3>2
  <2>6. \A p \in List!Runs : s4[p] # "none" =>
               s4'[p] = s4[p] /\ s6'[p] = s6[p] /\ (s11[p] = "none" => s11'[p] = "none")
    BY <1>0, <1>9, <2>0
  <2> QED BY <1>0, <1>6, <1>7, <2>1, <2>2, <2>3, <2>4, <2>5, <2>6, UserKeeps
<1>10. \/ s7' = s7 \cup {<<id, s12 + 1>>} /\ UNCHANGED <<s4, s6, s5>>
       \/ \E r \in List!Runs :
             /\ s4[r] = "none" /\ s4' = [s4 EXCEPT ![r] = s4[id[1]]] /\ id[2] = 0
             /\ s4[id[1]] \in {"upload", "download"} /\ UNCHANGED s7
             /\ s6' = IF s4[id[1]] = "upload" THEN s6 ELSE [s6 EXCEPT ![r] = id[1]]
             /\ s5' = [s5 EXCEPT ![r] = List!At("starting", 0)]
             /\ s4[id[1]] = "upload" => s1' = s1
  BY <1>1 DEF List!NextRun
<1> QED BY <1>8, <1>9, <1>10

\* The questions about conflicts: the batch is taken over, called off, or asked about.
LEMMA AskingKeeps ==
    ASSUME List!SettleInv, List!ConflictsChecked \/ List!ConflictDialogCloses
    PROVE  List!SettleInv'
<1>0. UNCHANGED <<s2, s3, s4, s6, s7, s10, s12>>
  BY DEF List!ConflictsChecked, List!ConflictDialogCloses, List!AsksUnchanged
<1>1. /\ s4 \in [List!Runs -> {"none"} \cup List!Kinds] /\ s1 \in List!Lists
         /\ s11 \in [List!Runs -> {"none", "checking", "asking"}]
      /\ s5 \in List!RunStates
      /\ "transferring" \in List!Statuses /\ "failed" \in List!Statuses /\ "failed" \notin List!Active
  BY HandlerTypes DEF List!SettleInv, List!TypeOK, List!RunsOK, List!RunOK, List!Statuses, List!Active,
     List!Ends
<1>2. PICK r \in List!Runs :
          /\ s11[r] # "none"
          /\ \/ s11' = [s11 EXCEPT ![r] = "none"]
             \/ /\ s11' = [q \in List!Runs |-> IF q = r THEN "asking" ELSE IF s11[q] = "asking" THEN "none" ELSE s11[q]]
                /\ UNCHANGED <<s1, s5>>
          /\ \/ List!Go(r) /\ s11' = [s11 EXCEPT ![r] = "none"]
             \/ UNCHANGED s5 /\ s1' = s1
             \/ UNCHANGED s5 /\ s1' = [s1 EXCEPT ![<<r, 0>>] = "failed"] /\ s11' = [s11 EXCEPT ![r] = "none"]
  BY DEF List!ConflictsChecked, List!ConflictDialogCloses
<1>3. s11' \in [List!Runs -> {"none", "checking", "asking"}] /\ \A p \in List!Runs : s11'[p] # "none" =>
          s11[p] # "none"
  BY <1>1, <1>2
<1>4. s4[r] # "none" /\ s5[r].at = "none" /\ s6[r] = r /\ List!NotListed(<<r, 0>>)
  BY <1>2 DEF List!SettleInv, List!RunsOK, List!RunOK, List!FirstStart
<1>a. <<r, 0>> \in List!Ids /\ <<r, 0>>[1] = r /\ <<r, 0>>[2] = 0
  BY PartsId, TransfersAssumption
<1>5. \/ s5' = s5
      \/ s5' = [s5 EXCEPT ![r] = List!At("starting", 0)] /\ s11'[r] = "none"
  BY <1>1, <1>2 DEF List!Go
<1>6. /\ s5' \in List!RunStates
      /\ \A p \in List!Runs : s5'[p] = s5[p] \/ (p = r /\ s5'[p] = List!At("starting", 0) /\ s11'[p] = "none")
      /\ s5' = [s5 EXCEPT ![r] = List!At("starting", 0)] => s5'[r].at = "starting"
  <2>1. /\ [s5 EXCEPT ![r] = List!At("starting", 0)] \in List!RunStates
        /\ \A p \in List!Runs : [s5 EXCEPT ![r] = List!At("starting", 0)][p] = IF p = r THEN List!At("starting", 0) ELSE s5[p]
    BY <1>1, AtTheStart, Positioned
  <2> QED BY <1>1, <1>5, <2>1, AtTheStart
<1>7. \/ s1' = s1
      \/ /\ s1' = [s1 EXCEPT ![<<r, 0>>] = "transferring"] /\ s4[r] = "download"
            /\ s5' = [s5 EXCEPT ![r] = List!At("starting", 0)]
         /\ s11'[r] = "none"
      \/ s1' = [s1 EXCEPT ![<<r, 0>>] = "failed"] /\ s11'[r] = "none"
  BY <1>1, <1>2 DEF List!Go
<1>8. /\ s1' \in List!Lists
      /\ \A x \in List!Ids : x # <<r, 0>> => s1'[x] = s1[x]
      /\ s1'[<<r, 0>>] \in List!Active =>
         s1[<<r, 0>>] \in List!Active \/ (s4[r] = "download" /\ s5' = [s5 EXCEPT ![r] = List!At("starting", 0)])
  BY <1>1, <1>7, <1>a DEF List!Lists
<1>9. List!TypeOK'
  BY <1>0, <1>3, <1>8 DEF List!SettleInv, List!TypeOK, List!Lists, List!Statuses
<1>10. List!RunsOK'
  <2>1. \A p \in List!Runs : /\ s4[p] = "none" => s5'[p].at = "none" /\ s11'[p] = "none"
                             /\ s11'[p] # "none" => s5'[p].at = "none" /\ s6[p] = p
                             /\ s5'[p].at = "item" => s5'[p].k > 0
    BY <1>3, <1>4, <1>6, AtTheStart DEF List!SettleInv, List!RunsOK, List!RunOK
  <2>2. s4' = s4 /\ s6' = s6 /\ s3' = s3 /\ s7' = s7
    BY <1>0
  <2>3. /\ DOMAIN s3 = List!Runs /\ \A a \in s7 : s4[a[1][1]] # "none"
        /\ \A p \in List!Runs : /\ s4[s6[p]] = s4[p] /\ (s6[p] # p => s4[p] = "download")
                                /\ s3[p] # <<>> => s4[p] \in {"upload", "download"}
    BY DEF List!SettleInv, List!RunsOK, List!RunOK
  <2>4. DOMAIN s3' = List!Runs /\ \A a \in s7' : s4'[a[1][1]] # "none"
    BY <2>2, <2>3
  <2>5. ASSUME NEW p \in List!Runs PROVE List!RunOK(p)'
    BY <2>2, <2>1, <2>3 DEF List!RunOK
  <2> QED BY <1>6, <2>4, <2>5 DEF List!RunsOK
<1>11. ASSUME NEW q \in List!Runs, List!Running(q) PROVE List!Running(q)'
  BY <1>0, <1>4, <1>6, <1>11 DEF List!Running
<1>12. ASSUME NEW id \in List!Ids, List!Working(id) PROVE List!Working(id)'
  <2>0. id[1] \in List!Runs
    BY IdParts
  <2>1. CASE \E a \in s7 : a[1] = id
    BY <1>0, <2>1 DEF List!Working
  <2>2. CASE id[2] > 0 /\ s5[id[1]] = List!At("item", id[2])
    <3>1. id[1] # r
      BY <1>4, <2>2 DEF List!At
    <3> QED BY <1>6, <2>0, <2>2, <3>1 DEF List!Working
  <2>3. CASE id[2] = 0 /\ List!Running(id[1])
    BY <1>11, <2>0, <2>3 DEF List!Working
  <2> QED BY <1>12, <2>1, <2>2, <2>3 DEF List!Working
<1>13. ASSUME NEW id \in List!Ids PROVE List!Begun(id)' <=> List!Begun(id)
  <2>0. id[1] \in List!Runs
    BY IdParts
  <2>1. CASE id[1] = r
    BY <1>4, <1>6, <2>1 DEF List!Begun, List!At
  <2>2. CASE id[1] # r
    BY <1>6, <2>0, <2>2 DEF List!Begun
  <2> QED BY <2>1, <2>2
<1>14. \A x \in List!Ids : s1'[x] \in List!Active => s1[x] \in List!Active \/ List!Working(x)'
  <2>1. ASSUME s4[r] = "download", s5' = [s5 EXCEPT ![r] = List!At("starting", 0)] PROVE List!Working(<<r, 0>>)'
    <3>1. List!Running(r)'
      BY <1>0, <1>4, <1>6, <2>1 DEF List!Running
    <3> QED BY <1>a, <3>1 DEF List!Working
  <2> QED BY <1>8, <2>1
<1>15. \A x \in List!Ids : x[2] > 0 /\ List!NotListed(x) => List!NotListed(x)'
  BY <1>0, <1>8, <1>a DEF List!NotListed
<1>16. ASSUME NEW p \in List!Runs, s4'[p] = "none" \/ s11'[p] # "none" PROVE List!NotListed(<<p, 0>>)'
  <2>1. List!NotListed(<<p, 0>>) /\ <<p, 0>> \in List!Ids
    BY <1>0, <1>3, <1>16, PartsId, TransfersAssumption DEF List!SettleInv, List!FirstStart
  <2>2. CASE p = r
    <3>1. s1' = s1
      BY <1>0, <1>4, <1>7, <1>16, <2>2
    <3> QED BY <1>0, <2>1, <3>1 DEF List!NotListed
  <2>3. CASE p # r
    <3>1. <<p, 0>> # <<r, 0>>
      BY <2>3
    <3> QED BY <1>0, <1>8, <2>1, <3>1 DEF List!NotListed
  <2> QED BY <2>2, <2>3
<1>17. List!CancelledStays'
  <2> SUFFICES ASSUME NEW id \in List!Ids, s4[id[1]] \in {"download", "file"}, s2[id] = "cancelled"
               PROVE  s1'[id] \notin List!Active
    BY <1>0 DEF List!CancelledStays
  <2>1. id # <<r, 0>>
    BY <1>4 DEF List!NotListed
  <2>2. s1'[id] = s1[id]
    BY <1>8, <2>1
  <2> QED BY <2>2 DEF List!SettleInv, List!CancelledStays
<1>18. \A p \in List!Runs : s4[p] # "none" =>
               s4'[p] = s4[p] /\ s6'[p] = s6[p] /\ (s11[p] = "none" => s11'[p] = "none")
  BY <1>0, <1>3
<1> QED BY <1>0, <1>9, <1>10, <1>11, <1>12, <1>13, <1>14, <1>15, <1>16, <1>17, <1>18, UserKeeps

-----------------------------------------------------------------------------
LEMMA EventFacts ==
    ASSUME NEW t \in List!Reports, NEW id \in List!Ids, NEW how \in List!Ends \cup {"none"}
    PROVE  List!Event(t, id, how) \in List!Events /\ List!Event(t, id, how).t = t /\ List!Event(t, id, how).id = id
        /\ List!Event(t, id, how).how = how
BY DEF List!Event, List!Events

LEMMA BatchRunsKeeps == ASSUME List!SettleInv, List!BatchRuns PROVE List!SettleInv'
<1>0. UNCHANGED <<s1, s2, s3, s4, s6, s7, s9, s11, s12>>
  BY DEF List!BatchRuns
<1>1. PICK r \in List!Runs : List!BatchStarts(r) \/ List!ItemStarts(r) \/ List!BatchMoves(r) \/ List!ItemEnds(r)
          \/ List!BatchEnds(r)
  BY DEF List!BatchRuns
<1>2. /\ s5 \in List!RunStates /\ s5[r].k \in 0..TransferItems /\ TransferItems \in Nat
      /\ s6[r] \in List!Runs /\ s10 \in Seq(List!Events)
  <2>1. s5 \in List!RunStates /\ s6[r] \in List!Runs /\ s10 \in Seq(List!Events)
    BY DEF List!SettleInv, List!TypeOK, List!RunsOK, List!RunOK, List!ReportsOK
  <2>2. List!At("starting", 0) \in List!Positions
    BY AtTheStart
  <2> QED BY <2>1, <2>2, Positioned, TransfersAssumption
<1>3. PICK q \in List!Runs : q = s6[r]
  BY <1>2
<1>4. PICK b \in List!Ids : b = <<q, 0>> /\ b[1] = q /\ b[2] = 0
  <2>1. 0 \in 0..TransferItems
    BY TransfersAssumption
  <2> QED BY <2>1, PartsId
<1>5. List!Batch(r) = b /\ (s4[r] # "download" => q = r) /\ s4[q] = s4[r]
  BY <1>3, <1>4 DEF List!Batch, List!SettleInv, List!RunsOK, List!RunOK
<1>6. s5[r].at \notin {"none", "done"} /\ s4[r] # "none" /\ s11[r] = "none"
  <2>1. s5[r].at \notin {"none", "done"}
    <3>1. CASE List!BatchStarts(r) \/ List!ItemStarts(r) \/ List!BatchMoves(r) \/ List!ItemEnds(r)
      BY <3>1 DEF List!BatchStarts, List!ItemStarts, List!BatchMoves, List!ItemEnds
    <3>2. CASE List!BatchEnds(r)
      <4>1. PICK how \in List!Ends :
                 \/ s5[r] = List!At("between", IF s4[r] = "delete" THEN 0 ELSE TransferItems)
                 \/ s5[r].at \in {"stopped", "between", "broken"} \/ s5[r] = List!At("between", 0)
        BY <3>2, Zenon DEF List!BatchEnds
      <4>2. ASSUME NEW k, s5[r] = List!At("between", k) PROVE s5[r].at = "between"
        BY <4>2 DEF List!At
      <4>3. s5[r].at \in {"stopped", "between", "broken"}
        BY <4>1, <4>2
      <4> QED BY <4>3
    <3> QED BY <1>1, <3>1, <3>2
  <2> QED BY <2>1 DEF List!SettleInv, List!RunsOK, List!RunOK
<1>7. List!TypeOK'
  BY <1>0 DEF List!SettleInv, List!TypeOK
<1>a. ASSUME NEW to \in List!Positions, s5' = [s5 EXCEPT ![r] = to]
      PROVE  s5' \in List!RunStates /\ \A p \in List!Runs : s5'[p] = IF p = r THEN to ELSE s5[p]
  <2>1. /\ [s5 EXCEPT ![r] = to] \in List!RunStates
        /\ \A p \in List!Runs : [s5 EXCEPT ![r] = to][p] = IF p = r THEN to ELSE s5[p]
    BY <1>2, Positioned
  <2> QED BY <1>a, <2>1
<1>8. ASSUME NEW to \in List!Positions, s5' = [s5 EXCEPT ![r] = to], to.at # "none", to.at = "item" => to.k > 0
      PROVE  List!RunsOK'
  <2>1. s5' \in List!RunStates /\ \A p \in List!Runs : s5'[p] = IF p = r THEN to ELSE s5[p]
    BY <1>8, <1>a
  <2>2. s4' = s4 /\ s6' = s6 /\ s3' = s3 /\ s7' = s7 /\ s11' = s11
    BY <1>0
  <2>3. \A p \in List!Runs : /\ s4[p] = "none" => s5'[p].at = "none" /\ s11[p] = "none"
                             /\ s11[p] # "none" => s5'[p].at = "none" /\ s6[p] = p
    BY <1>6, <2>1 DEF List!SettleInv, List!RunsOK, List!RunOK
  <2>4. /\ DOMAIN s3 = List!Runs /\ \A a \in s7 : s4[a[1][1]] # "none"
        /\ \A p \in List!Runs : /\ s4[s6[p]] = s4[p] /\ (s6[p] # p => s4[p] = "download")
                                /\ s3[p] # <<>> => s4[p] \in {"upload", "download"}
    BY DEF List!SettleInv, List!RunsOK, List!RunOK
  <2>5. DOMAIN s3' = List!Runs /\ \A a \in s7' : s4'[a[1][1]] # "none"
    BY <2>2, <2>4
  <2>6. ASSUME NEW p \in List!Runs PROVE List!RunOK(p)'
    <3>1. s4'[s6'[p]] = s4'[p] /\ (s6'[p] # p => s4'[p] = "download")
      BY <2>2, <2>4
    <3>2. s4'[p] = "none" => s5'[p].at = "none" /\ s11'[p] = "none"
      BY <2>2, <2>3
    <3>3. s11'[p] # "none" => s5'[p].at = "none" /\ s6'[p] = p
      BY <2>2, <2>3
    <3>4. s3'[p] # <<>> => s4'[p] \in {"upload", "download"}
      BY <2>2, <2>4
    <3>5. s5'[p].at = "item" => s5'[p].k > 0
      <4>1. s5[p].at = "item" => s5[p].k > 0
        BY DEF List!SettleInv, List!RunsOK, List!RunOK
      <4> QED BY <1>8, <2>1, <4>1
    <3> QED BY <3>1, <3>2, <3>3, <3>4, <3>5 DEF List!RunOK
  <2> QED BY <2>1, <2>5, <2>6 DEF List!RunsOK
<1>9. ASSUME NEW to \in List!Positions, s5' = [s5 EXCEPT ![r] = to], to.at \notin {"none", "done"},
             s5[r].at # "item" \/ to = s5[r]
      PROVE  /\ \A id \in List!Ids : List!Working(id) => List!Working(id)'
             /\ \A p \in List!Runs : List!Running(p) => List!Running(p)'
  <2>0. \A p \in List!Runs : s5'[p] = IF p = r THEN to ELSE s5[p]
    BY <1>9, <1>a
  <2>1. ASSUME NEW p \in List!Runs, List!Running(p) PROVE List!Running(p)'
    BY <1>0, <1>9, <2>0, <2>1 DEF List!Running
  <2>2. ASSUME NEW id \in List!Ids, List!Working(id) PROVE List!Working(id)'
    <3>0. id[1] \in List!Runs
      BY IdParts
    <3>1. CASE \E a \in s7 : a[1] = id
      BY <1>0, <3>1 DEF List!Working
    <3>2. CASE id[2] > 0 /\ s5[id[1]] = List!At("item", id[2])
      <4>1. s5'[id[1]] = s5[id[1]]
        BY <1>9, <2>0, <3>0, <3>2 DEF List!At
      <4> QED BY <3>2, <4>1 DEF List!Working
    <3>3. CASE id[2] = 0 /\ List!Running(id[1])
      BY <2>1, <3>0, <3>3 DEF List!Working
    <3> QED BY <2>2, <3>1, <3>2, <3>3 DEF List!Working
  <2> QED BY <2>1, <2>2
<1>10. s4[r] # "files" => List!Running(q)
  BY <1>3, <1>6 DEF List!Running
<1>b. ASSUME NEW to \in List!Positions, s5' = [s5 EXCEPT ![r] = to], to.at \notin {"none", "starting"},
             to.at \in {"between", "item"} /\ s5[r].at # "starting" =>
                 s5[r].at \in {"between", "item"} /\ s5[r].k <= to.k
      PROVE  \A id \in List!Ids : List!Begun(id) => List!Begun(id)'
  <2> SUFFICES ASSUME NEW id \in List!Ids, List!Begun(id) PROVE List!Begun(id)'
    OBVIOUS
  <2>1. id[1] \in List!Runs /\ id[2] \in 0..TransferItems
    BY IdParts
  <2>2. \A p \in List!Runs : s5'[p] = IF p = r THEN to ELSE s5[p]
    BY <1>a, <1>b
  <2>3. CASE id[1] = r
    <3>1. to.k \in 0..TransferItems
      BY DEF List!Positions
    <3> QED BY <1>2, <1>b, <2>1, <2>2, <2>3, <3>1 DEF List!Begun
  <2>4. CASE id[1] # r
    BY <2>1, <2>2, <2>4 DEF List!Begun
  <2> QED BY <2>3, <2>4
<1>11. CASE List!BatchStarts(r)
  <2>1. PICK to \in List!Positions : to.at = "between" /\ s5[r].at = "starting" /\ s5' = [s5 EXCEPT ![r] = to]
    <3>1. "between" \in List!Stages /\ 0 \in 0..TransferItems
      BY <1>2 DEF List!Stages
    <3> QED BY <1>11, <3>1, AtIsPosition DEF List!BatchStarts
  <2>2. PICK e \in List!Events : e.t = "batchStart" /\ e.id = b
            /\ (s10' = s10 \/ (s10' = s10 \o <<e>> /\ s4[r] \in {"upload", "delete"}))
    <3>1. "batchStart" \in List!Reports
      BY DEF List!Reports
    <3>2. List!Event("batchStart", b, "none") \in List!Events
              /\ List!Event("batchStart", b, "none").t = "batchStart" /\ List!Event("batchStart", b, "none").id = b
      BY <3>1, EventFacts
    <3> QED BY <1>5, <1>11, <3>2 DEF List!BatchStarts, List!Emit
  <2>3. PICK es \in Seq(List!Events) :
            /\ s10' = s10 \o es
            /\ \A j \in 1..Len(es) : es[j] = e /\ s4[r] \in {"upload", "delete"}
    <3>1. CASE s10' = s10
      <4>1. <<>> \in Seq(List!Events) /\ s10' = s10 \o <<>> /\ \A j \in 1..Len(<<>>) : <<>>[j] = e
                /\ s4[r] \in {"upload", "delete"}
        BY <1>2, <3>1
      <4> QED BY <4>1, Zenon
    <3>2. CASE s10' = s10 \o <<e>> /\ s4[r] \in {"upload", "delete"}
      <4>1. <<e>> \in Seq(List!Events) /\ \A j \in 1..Len(<<e>>) : <<e>>[j] = e
        OBVIOUS
      <4> QED BY <3>2, <4>1
    <3> QED BY <2>2, <3>1, <3>2
  <2>4. List!RunsOK'
    BY <1>8, <2>1
  <2>5. /\ \A id \in List!Ids : List!Working(id) => List!Working(id)'
        /\ \A p \in List!Runs : List!Running(p) => List!Running(p)'
    BY <1>9, <2>1
  <2>6. \A id \in List!Ids : List!Begun(id) => List!Begun(id)'
    BY <1>b, <2>1
  <2>7. s4[r] \in {"upload", "delete"} => List!Working(b)'
    BY <1>3, <1>4, <1>10, <2>5 DEF List!Working
  <2>8. \A j \in 1..Len(es) : List!ReportOK(es[j])
    BY <1>4, <1>5, <1>6, <2>2, <2>3 DEF List!ReportOK
  <2> QED BY <1>0, <1>7, <2>2, <2>3, <2>4, <2>5, <2>6, <2>7, <2>8, BackendKeeps
<1>12. CASE List!ItemStarts(r)
  <2>1. PICK k \in 0..TransferItems : k = s5[r].k + 1
    BY <1>2, <1>12 DEF List!ItemStarts
  <2>2. PICK to \in List!Positions : to.at = "item" /\ to.k = k /\ to = List!At("item", k)
            /\ s5' = [s5 EXCEPT ![r] = to]
    <3>1. "item" \in List!Stages
      BY DEF List!Stages
    <3>2. s5' = [s5 EXCEPT ![r] = List!At("item", k)]
      BY <1>12, <2>1 DEF List!ItemStarts
    <3> QED BY <3>1, <3>2, AtIsPosition
  <2>3. PICK id \in List!Ids : id = <<r, k>> /\ id[1] = r /\ id[2] = k
    BY PartsId
  <2>4. PICK e \in List!Events : e.t = "itemStart" /\ e.id = id /\ s10' = s10 \o <<e>>
    <3>1. "itemStart" \in List!Reports
      BY DEF List!Reports
    <3>2. List!Event("itemStart", id, "none") \in List!Events
              /\ List!Event("itemStart", id, "none").t = "itemStart" /\ List!Event("itemStart", id, "none").id = id
      BY <3>1, EventFacts
    <3> QED BY <1>12, <2>1, <2>3, <3>2 DEF List!ItemStarts, List!Emit
  <2>5. PICK es \in Seq(List!Events) : s10' = s10 \o es /\ Len(es) = 1 /\ \A j \in 1..Len(es) : es[j] = e
    <3>1. <<e>> \in Seq(List!Events) /\ Len(<<e>>) = 1 /\ \A j \in 1..1 : <<e>>[j] = e
      OBVIOUS
    <3> QED BY <2>4, <3>1
  <2>6. s5[r].at = "between" /\ k > 0 /\ s5[r].k <= k
    BY <1>2, <1>12, <2>1 DEF List!ItemStarts
  <2>7. List!RunsOK'
    BY <1>8, <2>2, <2>6
  <2>8. /\ \A x \in List!Ids : List!Working(x) => List!Working(x)'
        /\ \A p \in List!Runs : List!Running(p) => List!Running(p)'
    BY <1>9, <2>2, <2>6
  <2>9. \A x \in List!Ids : List!Begun(x) => List!Begun(x)'
    BY <1>b, <2>2, <2>6
  <2>10. s5'[r] = to
    BY <1>a, <2>2
  <2>11. List!Working(id)'
    BY <2>2, <2>3, <2>6, <2>10 DEF List!Working
  <2>12. ~List!Begun(id) /\ List!Begun(id)'
    <3>1. ~(k <= s5[r].k)
      BY <1>2, <2>1
    <3> QED BY <2>2, <2>3, <2>6, <2>10, <3>1 DEF List!Begun
  <2>13. \A j \in 1..Len(es) : List!ReportOK(es[j])
    BY <1>6, <2>3, <2>4, <2>5, <2>6 DEF List!ReportOK
  <2>14. \A p \in List!Runs : s4[r] # "files" /\ s6[r] = p => List!Running(p)'
    BY <1>3, <1>10, <2>8
  <2> QED BY <1>0, <1>7, <2>3, <2>4, <2>5, <2>7, <2>8, <2>9, <2>11, <2>12, <2>13, <2>14, BackendKeeps
<1>13. CASE List!BatchMoves(r)
  <2>1. UNCHANGED s5 /\ List!RunsOK'
    <3>1. UNCHANGED s5
      BY <1>13 DEF List!BatchMoves
    <3> QED BY <1>0, <3>1 DEF List!SettleInv, List!RunsOK, List!RunOK
  <2>2. PICK id \in List!Ids : id = <<r, s5[r].k>> /\ id[1] = r /\ id[2] = s5[r].k
    BY <1>2, PartsId
  <2>3. PICK e \in List!Events : e.t = "progress" /\ e.id = id /\ e = List!Event("progress", id, "none")
    BY EventFacts DEF List!Reports
  <2>4. PICK f \in List!Events : f.t = "progress" /\ f.id = b /\ f = List!Event("progress", b, "none")
    BY EventFacts DEF List!Reports
  <2>5. PICK es \in Seq(List!Events) :
            /\ s10' = s10 \o es
            /\ \A j \in 1..Len(es) : \/ es[j] = e /\ s5[r].at = "item"
                                     \/ es[j] = f /\ s4[r] \in {"download", "delete"}
    <3>1. \/ s10' = s10 \o (<<e>> \o <<f>>) /\ s5[r].at = "item" /\ s4[r] = "download"
          \/ s10' = s10 \o (<<e>> \o <<>>) /\ s5[r].at = "item"
          \/ s10' = s10 \o <<f>> /\ s4[r] = "delete"
      BY <1>5, <1>13, <2>2, <2>3, <2>4 DEF List!BatchMoves, List!Emit
    <3>2. /\ <<e>> \o <<f>> \in Seq(List!Events) /\ \A j \in 1..Len(<<e>> \o <<f>>) : (<<e>> \o <<f>>)[j] = e
             \/ (<<e>> \o <<f>>)[j] = f
          /\ <<e>> \o <<>> \in Seq(List!Events) /\ \A j \in 1..Len(<<e>> \o <<>>) : (<<e>> \o <<>>)[j] = e
          /\ <<f>> \in Seq(List!Events) /\ \A j \in 1..Len(<<f>>) : <<f>>[j] = f
      OBVIOUS
    <3> QED BY <3>1, <3>2
  <2>6. /\ \A x \in List!Ids : List!Working(x) => List!Working(x)'
        /\ \A p \in List!Runs : List!Running(p) => List!Running(p)'
        /\ \A x \in List!Ids : List!Begun(x) => List!Begun(x)'
    BY <1>0, <2>1 DEF List!Working, List!Running, List!Begun
  <2>7. s5[r].at = "item" => List!Working(id)
    <3>1. s5[r].at = "item" => s5[r].k > 0 /\ s5[r] = List!At("item", s5[r].k)
      <4>1. "item" \in List!Stages /\ s5[r] = List!At(s5[r].at, s5[r].k)
        BY <1>2, AtTheStart, Positioned DEF List!Stages
      <4> QED BY <4>1 DEF List!SettleInv, List!RunsOK, List!RunOK
    <3> QED BY <2>2, <3>1 DEF List!Working
  <2>8. s4[r] \in {"download", "delete"} => List!Working(b)
    BY <1>4, <1>10 DEF List!Working
  <2>9. \A j \in 1..Len(es) : List!ReportOK(es[j])
    BY <1>4, <1>5, <1>6, <2>2, <2>3, <2>4, <2>5 DEF List!ReportOK
  <2>10. \A j \in 1..Len(es) : es[j].t = "progress" /\ List!Working(es[j].id)'
    BY <2>3, <2>4, <2>5, <2>6, <2>7, <2>8
  <2> QED BY <1>0, <1>7, <2>1, <2>5, <2>6, <2>9, <2>10, BackendKeeps
<1>14. CASE List!ItemEnds(r)
  <2>1. PICK id \in List!Ids : id = <<r, s5[r].k>> /\ id[1] = r /\ id[2] = s5[r].k
    BY <1>2, PartsId
  <2>2. PICK how \in List!Ends, at \in {"stopped", "broken", "between"} :
            s10' = s10 \o <<List!Event("itemEnd", id, how)>> /\ s5' = [s5 EXCEPT ![r] = List!At(at, @.k)]
    BY <1>14, <2>1 DEF List!ItemEnds, List!Emit
  <2>3. PICK to \in List!Positions : to.at = at /\ to.k = s5[r].k /\ s5' = [s5 EXCEPT ![r] = to]
    <3>1. at \in List!Stages
      BY DEF List!Stages
    <3> QED BY <1>2, <2>2, <3>1, AtIsPosition
  <2>4. PICK e \in List!Events : e.t = "itemEnd" /\ e.id = id /\ e.how = how /\ s10' = s10 \o <<e>>
    <3>1. how \in List!Ends \cup {"none"} /\ "itemEnd" \in List!Reports
      BY DEF List!Reports
    <3>2. /\ List!Event("itemEnd", id, how) \in List!Events
          /\ List!Event("itemEnd", id, how).t = "itemEnd" /\ List!Event("itemEnd", id, how).id = id
             /\ List!Event("itemEnd", id, how).how = how
      BY <3>1, EventFacts
    <3> QED BY <2>2, <3>2
  <2>5. PICK es \in Seq(List!Events) : s10' = s10 \o es /\ 1 \in 1..Len(es) /\ \A j \in 1..Len(es) : es[j] = e
    <3>1. <<e>> \in Seq(List!Events) /\ 1 \in 1..Len(<<e>>) /\ \A j \in 1..Len(<<e>>) : <<e>>[j] = e
      OBVIOUS
    <3> QED BY <2>4, <3>1
  <2>6. s5[r].at = "item" /\ s5[r].k \in 0..TransferItems
    BY <1>2, <1>14 DEF List!ItemEnds
  <2>7. List!RunsOK'
    BY <1>8, <2>3
  <2>8. \A p \in List!Runs : s5'[p] = IF p = r THEN to ELSE s5[p]
    BY <1>a, <2>3
  <2>9. \A x \in List!Ids : List!Begun(x) => List!Begun(x)'
    <3>1. s5[r].k <= to.k /\ to.at \notin {"none", "starting"}
      BY <2>3, <2>6
    <3> QED BY <1>b, <2>3, <2>6, <3>1
  <2>10. ASSUME NEW p \in List!Runs, List!Running(p) PROVE List!Running(p)'
    BY <1>0, <2>3, <2>8, <2>10 DEF List!Running
  <2>11. ASSUME NEW x \in List!Ids, List!Working(x) PROVE List!Working(x)' \/ x = id
    <3>0. x[1] \in List!Runs /\ x = <<x[1], x[2]>>
      BY IdParts
    <3>1. CASE \E a \in s7 : a[1] = x
      BY <1>0, <3>1 DEF List!Working
    <3>2. CASE x[2] > 0 /\ s5[x[1]] = List!At("item", x[2])
      <4>1. CASE x[1] = r
        <5>1. x[2] = s5[r].k
          BY <3>2, <4>1 DEF List!At
        <5> QED BY <2>1, <3>0, <4>1, <5>1
      <4>2. CASE x[1] # r
        BY <2>8, <3>0, <3>2, <4>2 DEF List!Working
      <4> QED BY <4>1, <4>2
    <3>3. CASE x[2] = 0 /\ List!Running(x[1])
      BY <2>10, <3>0, <3>3 DEF List!Working
    <3> QED BY <2>11, <3>1, <3>2, <3>3 DEF List!Working
  <2>12. List!EndOf(es[1], id)
    BY <2>4, <2>5 DEF List!EndOf
  <2>13. \A j \in 1..Len(es) : List!ReportOK(es[j])
    BY <1>6, <2>1, <2>4, <2>5 DEF List!ReportOK
  <2>14. \A x \in List!Ids : List!Working(x) => List!Working(x)' \/ \E j \in 1..Len(es) : List!EndOf(es[j], x)
    BY <2>5, <2>11, <2>12
  <2> QED BY <1>0, <1>7, <2>4, <2>5, <2>7, <2>9, <2>10, <2>13, <2>14, BackendKeeps
<1>15. CASE List!BatchEnds(r)
  <2>1. PICK how \in List!Ends :
            /\ \/ s5[r] = List!At("between", IF s4[r] = "delete" THEN 0 ELSE TransferItems)
               \/ s5[r].at \in {"stopped", "between", "broken"}
               \/ s5[r] = List!At("between", 0)
            /\ s10' = s10 \o ((IF s4[r] = "files" THEN <<>> ELSE <<List!Event("batchEnd", b, how)>>)
                  \o IF s4[r] = "download" THEN <<List!Event("answer", b, how)>> ELSE <<>>)
    BY <1>5, <1>15, Zenon DEF List!BatchEnds, List!Emit
  <2>2. PICK to \in List!Positions : to.at = "done" /\ s5' = [s5 EXCEPT ![r] = to]
    <3>1. "done" \in List!Stages /\ 0 \in 0..TransferItems
      BY <1>2 DEF List!Stages
    <3> QED BY <1>15, <3>1, AtIsPosition DEF List!BatchEnds
  <2>a. how \in List!Ends \cup {"none"} /\ "batchEnd" \in List!Reports /\ "answer" \in List!Reports
    BY DEF List!Reports
  <2>3. PICK e \in List!Events : e.t = "batchEnd" /\ e.id = b /\ e.how = how /\ e = List!Event("batchEnd", b, how)
    <3>1. /\ List!Event("batchEnd", b, how) \in List!Events /\ List!Event("batchEnd", b, how).t = "batchEnd"
          /\ List!Event("batchEnd", b, how).id = b /\ List!Event("batchEnd", b, how).how = how
      BY <2>a, EventFacts
    <3> QED BY <3>1
  <2>4. PICK f \in List!Events : f.t = "answer" /\ f.id = b /\ f.how = how /\ f = List!Event("answer", b, how)
    <3>1. /\ List!Event("answer", b, how) \in List!Events /\ List!Event("answer", b, how).t = "answer"
          /\ List!Event("answer", b, how).id = b /\ List!Event("answer", b, how).how = how
      BY <2>a, EventFacts
    <3> QED BY <3>1
  <2>5. PICK es \in Seq(List!Events) :
            /\ s10' = s10 \o es
            /\ \A j \in 1..Len(es) : es[j] = e \/ es[j] = f
            /\ s4[r] # "files" => 1 \in 1..Len(es) /\ es[1] = e
    <3>1. CASE s4[r] = "files"
      <4>1. s10' = s10 \o (<<>> \o <<>>)
        BY <2>1, <3>1
      <4>2. <<>> \o <<>> \in Seq(List!Events) /\ \A j \in 1..Len(<<>> \o <<>>) : (<<>> \o <<>>)[j] = e
                \/ (<<>> \o <<>>)[j] = f
        OBVIOUS
      <4> QED BY <3>1, <4>1, <4>2, Zenon
    <3>2. CASE s4[r] = "download"
      <4>1. s10' = s10 \o (<<e>> \o <<f>>)
        BY <2>1, <2>3, <2>4, <3>2
      <4>2. /\ <<e>> \o <<f>> \in Seq(List!Events) /\ \A j \in 1..Len(<<e>> \o <<f>>) : (<<e>> \o <<f>>)[j] = e
               \/ (<<e>> \o <<f>>)[j] = f
            /\ 1 \in 1..Len(<<e>> \o <<f>>) /\ (<<e>> \o <<f>>)[1] = e
        OBVIOUS
      <4> QED BY <4>1, <4>2, Zenon
    <3>3. CASE s4[r] \notin {"files", "download"}
      <4>1. s10' = s10 \o (<<e>> \o <<>>)
        BY <2>1, <2>3, <3>3
      <4>2. /\ <<e>> \o <<>> \in Seq(List!Events) /\ \A j \in 1..Len(<<e>> \o <<>>) : (<<e>> \o <<>>)[j] = e
               \/ (<<e>> \o <<>>)[j] = f
            /\ 1 \in 1..Len(<<e>> \o <<>>) /\ (<<e>> \o <<>>)[1] = e
        OBVIOUS
      <4> QED BY <4>1, <4>2, Zenon
    <3> QED BY <3>1, <3>2, <3>3
  <2>6. s5[r].at # "item"
    <3>1. ASSUME NEW k, s5[r] = List!At("between", k) PROVE s5[r].at = "between"
      BY <3>1 DEF List!At
    <3> QED BY <2>1, <3>1
  <2>7. List!RunsOK'
    BY <1>8, <2>2
  <2>8. \A p \in List!Runs : s5'[p] = IF p = r THEN to ELSE s5[p]
    BY <1>a, <2>2
  <2>9. \A x \in List!Ids : List!Begun(x) => List!Begun(x)'
    BY <1>b, <2>2
  <2>b. s4[r] # "files" => List!BatchEndOf(es[1], q) /\ List!EndOf(es[1], b) /\ 1 \in 1..Len(es)
    BY <1>4, <2>3, <2>5 DEF List!BatchEndOf, List!EndOf
  <2>10. ASSUME NEW p \in List!Runs, List!Running(p) PROVE List!Running(p)' \/ (p = q /\ s4[r] # "files")
    <3>1. PICK o \in List!Runs : s6[o] = p /\ s4[o] # "files" /\ s5[o].at \notin {"none", "done"}
      BY <2>10 DEF List!Running
    <3>2. CASE o = r
      BY <1>3, <3>1, <3>2
    <3>3. CASE o # r
      <4>1. s5'[o] = s5[o] /\ s4'[o] = s4[o] /\ s6'[o] = s6[o]
        BY <1>0, <2>8, <3>3
      <4> QED BY <3>1, <4>1 DEF List!Running
    <3> QED BY <3>2, <3>3
  <2>11. ASSUME NEW x \in List!Ids, List!Working(x) PROVE List!Working(x)' \/ (x = b /\ s4[r] # "files")
    <3>0. x[1] \in List!Runs /\ x = <<x[1], x[2]>>
      BY IdParts
    <3>1. CASE \E a \in s7 : a[1] = x
      BY <1>0, <3>1 DEF List!Working
    <3>2. CASE x[2] > 0 /\ s5[x[1]] = List!At("item", x[2])
      <4>1. x[1] # r
        BY <2>6, <3>2 DEF List!At
      <4> QED BY <2>8, <3>0, <3>2, <4>1 DEF List!Working
    <3>3. CASE x[2] = 0 /\ List!Running(x[1])
      <4>1. CASE x[1] = q /\ s4[r] # "files"
        BY <1>4, <3>0, <3>3, <4>1
      <4>2. CASE List!Running(x[1])'
        BY <3>3, <4>2 DEF List!Working
      <4> QED BY <2>10, <3>0, <3>3, <4>1, <4>2
    <3> QED BY <2>11, <3>1, <3>2, <3>3 DEF List!Working
  <2>12. \A j \in 1..Len(es) : List!ReportOK(es[j]) /\ es[j].t \in {"batchEnd", "answer"}
    BY <1>4, <1>5, <1>6, <2>3, <2>4, <2>5 DEF List!ReportOK
  <2>13. /\ \A x \in List!Ids : List!Working(x) => List!Working(x)' \/ \E j \in 1..Len(es) : List!EndOf(es[j], x)
         /\ \A p \in List!Runs : List!Running(p) =>
            List!Running(p)' \/ \E j \in 1..Len(es) : List!BatchEndOf(es[j], p)
    BY <2>b, <2>10, <2>11
  <2> QED BY <1>0, <1>7, <2>5, <2>7, <2>9, <2>12, <2>13, BackendKeeps
<1> QED BY <1>1, <1>11, <1>12, <1>13, <1>14, <1>15

LEMMA AloneRunsKeeps == ASSUME List!SettleInv, List!AloneRuns PROVE List!SettleInv'
<1>0. UNCHANGED <<s1, s2, s3, s4, s6, s5, s9, s11, s12>>
  BY DEF List!AloneRuns
<1>1. PICK a \in s7 :
          \/ List!Emit(<<List!Event("progress", a[1], "none")>>) /\ UNCHANGED s7
          \/ \E how \in List!Ends : s7' = s7 \ {a} /\ List!Emit(<<List!Event("alone", a[1], how)>>)
  BY DEF List!AloneRuns
<1>2. s7 \subseteq List!Ids \X (0..TransferRetries) /\ s10 \in Seq(List!Events)
  BY DEF List!SettleInv, List!TypeOK, List!ReportsOK
<1>3. PICK id \in List!Ids : id = a[1]
  BY <1>2
<1>4. s4[id[1]] # "none"
  BY <1>3 DEF List!SettleInv, List!RunsOK
<1>5. PICK e \in List!Events :
          /\ e.id = id /\ s10' = s10 \o <<e>>
          /\ \/ e.t = "progress" /\ s7' = s7
             \/ e.t = "alone" /\ e.how \in List!Ends /\ s7' = s7 \ {a}
  <2>1. CASE List!Emit(<<List!Event("progress", a[1], "none")>>) /\ UNCHANGED s7
    <3>1. List!Event("progress", id, "none") \in List!Events /\ List!Event("progress", id, "none").t = "progress"
              /\ List!Event("progress", id, "none").id = id
      BY EventFacts DEF List!Reports
    <3> QED BY <1>3, <2>1, <3>1 DEF List!Emit
  <2>2. ASSUME NEW how \in List!Ends, s7' = s7 \ {a}, List!Emit(<<List!Event("alone", a[1], how)>>)
        PROVE  /\ List!Event("alone", id, how) \in List!Events /\ List!Event("alone", id, how).t = "alone"
               /\ List!Event("alone", id, how).id = id /\ List!Event("alone", id, how).how \in List!Ends
               /\ s10' = s10 \o <<List!Event("alone", id, how)>> /\ s7' = s7 \ {a}
    <3>1. how \in List!Ends \cup {"none"} /\ "alone" \in List!Reports
      BY DEF List!Reports
    <3>2. /\ List!Event("alone", id, how) \in List!Events /\ List!Event("alone", id, how).t = "alone"
          /\ List!Event("alone", id, how).id = id /\ List!Event("alone", id, how).how = how
      BY <3>1, EventFacts
    <3> QED BY <1>3, <2>2, <3>2 DEF List!Emit
  <2> QED BY <1>1, <2>1, <2>2
<1>6. PICK es \in Seq(List!Events) : s10' = s10 \o es /\ 1 \in 1..Len(es) /\ \A j \in 1..Len(es) : es[j] = e
  <2>1. <<e>> \in Seq(List!Events) /\ 1 \in 1..Len(<<e>>) /\ \A j \in 1..Len(<<e>>) : <<e>>[j] = e
    OBVIOUS
  <2> QED BY <1>5, <2>1
<1>7. s7' \subseteq s7
  BY <1>5
<1>8. List!TypeOK'
  BY <1>0, <1>7 DEF List!SettleInv, List!TypeOK
<1>9. List!RunsOK'
  BY <1>0, <1>7 DEF List!SettleInv, List!RunsOK, List!RunOK
<1>10. /\ \A p \in List!Runs : List!Running(p) => List!Running(p)'
       /\ \A x \in List!Ids : List!Begun(x) => List!Begun(x)'
  BY <1>0 DEF List!Running, List!Begun
<1>11. ASSUME NEW x \in List!Ids, List!Working(x) PROVE List!Working(x)' \/ List!EndOf(es[1], x)
  <2>0. x[1] \in List!Runs
    BY IdParts
  <2>1. ASSUME NEW o \in s7, o[1] = x PROVE List!Working(x)' \/ List!EndOf(es[1], x)
    <3>1. CASE o \in s7'
      BY <2>1, <3>1 DEF List!Working
    <3>2. CASE o \notin s7'
      BY <1>3, <1>5, <1>6, <2>1, <3>2 DEF List!EndOf
    <3> QED BY <3>1, <3>2
  <2>2. CASE x[2] > 0 /\ s5[x[1]] = List!At("item", x[2])
    BY <1>0, <2>2 DEF List!Working
  <2>3. CASE x[2] = 0 /\ List!Running(x[1])
    BY <1>10, <2>0, <2>3 DEF List!Working
  <2> QED BY <1>11, <2>1, <2>2, <2>3 DEF List!Working
<1>12. \A j \in 1..Len(es) : List!ReportOK(es[j]) /\ es[j].t \in {"progress", "alone"}
  BY <1>4, <1>5, <1>6 DEF List!ReportOK
<1>13. \A j \in 1..Len(es), x \in List!Ids : es[j].t \in {"batchStart", "itemStart", "progress"} /\ es[j].id = x =>
           List!Working(x)'
  <2>1. e.t = "progress" => List!Working(id)'
    BY <1>3, <1>5 DEF List!Working
  <2> QED BY <1>5, <1>6, <2>1
<1>14. \A x \in List!Ids : List!Working(x) => List!Working(x)' \/ \E j \in 1..Len(es) : List!EndOf(es[j], x)
  BY <1>6, <1>11
<1> QED BY <1>0, <1>6, <1>8, <1>9, <1>10, <1>12, <1>13, <1>14, BackendKeeps

-----------------------------------------------------------------------------
LEMMA ListStarts == ASSUME List!Init PROVE List!SettleInv
<1>0. 0 \in 0..TransferItems /\ 0 \in 0..TransferRetries /\ "none" \in List!Stages
  BY TransfersAssumption DEF List!Stages
<1>1. /\ \A id \in List!Ids : s1[id] = "absent" /\ s2[id] = "absent"
      /\ \A r \in List!Runs : s3[r] = <<>> /\ s4[r] = "none" /\ s5[r] = List!At("none", 0) /\ s6[r] = r
         /\ s11[r] = "none"
      /\ s7 = {} /\ s10 = <<>> /\ DOMAIN s3 = List!Runs
  BY DEF List!Init
<1>2. List!TypeOK
  BY <1>0 DEF List!Init, List!TypeOK
<1>3. s5 \in List!RunStates /\ \A r \in List!Runs : s5[r].at = "none"
  <2>1. List!At("none", 0) \in List!Positions /\ List!At("none", 0).at = "none"
    BY <1>0, AtIsPosition
  <2> QED BY <1>1, <2>1 DEF List!Init, List!RunStates
<1>4. List!RunsOK
  BY <1>1, <1>3 DEF List!RunsOK, List!RunOK
<1>5. List!ReportsOK /\ List!ReportsEnd
  BY <1>1 DEF List!ReportsOK, List!ReportsEnd
<1>6. List!ActiveEnd /\ List!KidsEnd /\ List!CancelledStays
  BY <1>1 DEF List!ActiveEnd, List!KidsEnd, List!CancelledStays, List!Active
<1>7. List!FirstStart
  <2>1. \A r \in List!Runs : <<r, 0>> \in List!Ids
    BY <1>0, PartsId
  <2> QED BY <1>1, <2>1 DEF List!FirstStart, List!NotListed
<1> QED BY <1>2, <1>4, <1>5, <1>6, <1>7 DEF List!SettleInv

LEMMA ListKeeps == ASSUME List!SettleInv, [List!Next]_(List!vars) PROVE List!SettleInv'
<1>1. CASE List!Next
  BY <1>1, CommitKeeps, ClicksKeep, RetryKeeps, BeginsAsking, BeginsAlone, BeginsDelete, AskingKeeps,
     BatchRunsKeeps, AloneRunsKeeps, Received DEF List!Next
<1>2. CASE UNCHANGED List!vars
  <2>1. UNCHANGED <<s1, s2, s3, s4, s6, s5, s7, s10, s11, s12>>
    BY <1>2 DEF List!vars
  <2>2. List!TypeOK' /\ List!RunsOK' /\ List!CancelledStays'
    BY <2>1 DEF List!SettleInv, List!TypeOK, List!RunsOK, List!RunOK, List!CancelledStays
  <2>3. \A id \in List!Ids : List!NotListed(id) => List!NotListed(id)'
    BY <2>1 DEF List!NotListed
  <2>4. \A r \in List!Runs : s4'[r] = "none" \/ s11'[r] # "none" => List!NotListed(<<r, 0>>)'
    BY <2>1 DEF List!SettleInv, List!FirstStart, List!NotListed
  <2> QED BY <2>1, <2>2, <2>3, <2>4, WorkOfOthers, UserKeeps
<1> QED BY <1>1, <1>2

LEMMA ListSettles == ASSUME List!SettleInv PROVE List!TypeOK /\ List!TransfersSettle
<1>1. List!TypeOK
  BY DEF List!SettleInv
<1>2. ASSUME s10 = <<>>, s7 = {}, \A r \in List!Runs : s5[r].at \in {"none", "done"}
      PROVE  (\A id \in List!Ids : s1[id] \notin List!Active) /\ \A r \in List!Runs : s3[r] = <<>>
  <2>0. Len(s10) = 0
    BY <1>2
  <2>1. \A q \in List!Runs : ~List!Running(q)
    BY <1>2 DEF List!Running
  <2>2. \A id \in List!Ids : ~List!Working(id)
    <3> SUFFICES ASSUME NEW id \in List!Ids, List!Working(id) PROVE FALSE
      OBVIOUS
    <3>1. s5[id[1]] # List!At("item", id[2])
      BY <1>2, IdParts DEF List!At
    <3> QED BY <1>2, <2>1, <3>1, IdParts DEF List!Working
  <2>3. \A id \in List!Ids : ~List!Ending(id, 0)
    BY <2>0, <2>2 DEF List!Ending
  <2>4. \A q \in List!Runs : ~List!BatchEnding(q, 0)
    BY <2>0, <2>1 DEF List!BatchEnding
  <2> QED BY <2>3, <2>4 DEF List!SettleInv, List!ActiveEnd, List!KidsEnd
<1> QED BY <1>1, <1>2 DEF List!TransfersSettle

-----------------------------------------------------------------------------
(* The updater: a busy status has an operation in flight.                  *)
Update == INSTANCE Updater WITH Channels <- UpdateChannels, MaxVersion <- MaxReleases,
    MaxActs <- UpdaterActs,
    state <- s1, pending <- s2, downloadedCh <- s3, installed <- s4, check <- s5,
    download <- s6, install <- s7, both <- s8, failed <- s9, background <- s10, timer <- s11,
    leaked <- s12, config <- s13, dismissed <- s14, releases <- s15, cached <- s16,
    running <- s17, acts <- s18

\* What a check leaves to a download that waited for it.
LEMMA WaitingKeeps ==
    ASSUME Update!BusyInv, NEW found, Update!WaitingGoesOn(found)
    PROVE  /\ DOMAIN s6' = DOMAIN s6
           /\ \/ UNCHANGED <<s6, s8>> /\ s6.step # "check"
              \/ s6' = Update!NoDownload /\ s8' = Update!None
              \/ /\ found # 0 /\ s8' = s8 /\ s6' # Update!NoDownload /\ s6 # Update!NoDownload
                 /\ s6'.ch = s6.ch /\ s6'.publishes = s6.publishes
<1>1. s6.step = "check" => s6 # Update!NoDownload
  BY DEF Update!NoDownload, Update!None
<1>2. CASE s6' = [s6 EXCEPT !.step = "fetch"] /\ s8' = s8 /\ found # 0 /\ s6.step = "check"
  <2>1. /\ s6'.step = "fetch" /\ s6'.ch = s6.ch
        /\ s6'.publishes = s6.publishes /\ DOMAIN s6' = DOMAIN s6
    BY <1>2 DEF Update!BusyInv, Update!Records
  <2>2. s6' # Update!NoDownload
    BY <2>1 DEF Update!NoDownload, Update!None
  <2> QED BY <1>1, <1>2, <2>1, <2>2
<1>3. CASE s6' = Update!NoDownload /\ s8' = Update!None
  BY <1>3 DEF Update!BusyInv, Update!Records, Update!NoDownload
<1>4. CASE s6.step # "check"
  BY <1>4 DEF Update!WaitingGoesOn
<1> QED BY <1>2, <1>3, <1>4 DEF Update!WaitingGoesOn

\* The three starts: what they leave in flight.
LEMMA CheckStarts ==
    ASSUME Update!BusyInv, NEW c, c # Update!None, NEW silent, Update!StartCheck(c, silent)
    PROVE  /\ DOMAIN s5' = DOMAIN s5 /\ (s5' # Update!NoCheck => s5'.ch # Update!None)
           /\ s5 # Update!NoCheck => s5' # Update!NoCheck
BY DEF Update!StartCheck, Update!BusyInv, Update!Records, Update!ChannelsNamed

LEMMA DownloadStarts ==
    ASSUME Update!BusyInv, NEW c, c # Update!None, NEW publishes, Update!StartDownload(c, publishes)
    PROVE  /\ DOMAIN s5' = DOMAIN s5 /\ (s5' # Update!NoCheck => s5'.ch # Update!None)
           /\ s5 # Update!NoCheck => s5' # Update!NoCheck
           /\ DOMAIN s6' = DOMAIN s6 /\ (s6' # Update!NoDownload => s6'.ch # Update!None)
           /\ s6 # Update!NoDownload => s6' = s6
           /\ s6 = Update!NoDownload /\ s6' # Update!NoDownload => s6'.publishes = publishes
           /\ DOMAIN s1' = DOMAIN s1 /\ s1'.ch # Update!None
           /\ s1'.status = s1.status \/ (s1'.status = "downloading" /\ s6' # Update!NoDownload)
           /\ s9' = s9 \/ s9' = Update!NoFailure
<1>1. CASE s6 # Update!NoDownload
  BY <1>1 DEF Update!StartDownload, Update!BusyInv, Update!ChannelsNamed
<1>2. CASE s6 = Update!NoDownload /\ s2.ch = c
  <2>1. /\ s6' = [step |-> "fetch", ch |-> c, publishes |-> publishes] /\ s9' = Update!NoFailure
        /\ s1' = [s1 EXCEPT !.status = "downloading", !.ch = c, !.latest = s2.ver] /\ s5' = s5
    BY <1>2 DEF Update!StartDownload
  <2>2. /\ s6'.step = "fetch" /\ s6'.ch = c /\ s6'.publishes = publishes
        /\ DOMAIN s6' = {"step", "ch", "publishes"}
    BY <2>1
  <2>3. s6' # Update!NoDownload
    BY <2>2 DEF Update!NoDownload, Update!None
  <2>4. DOMAIN s1' = DOMAIN s1 /\ s1'.ch # Update!None /\ s1'.status = "downloading"
    BY <2>1 DEF Update!BusyInv, Update!Records
  <2> QED BY <1>2, <2>1, <2>2, <2>3, <2>4 DEF Update!BusyInv, Update!Records, Update!ChannelsNamed
<1>3. CASE s6 = Update!NoDownload /\ s2.ch # c
  <2>1. /\ Update!StartCheck(c, TRUE) /\ UNCHANGED <<s1, s9>>
        /\ \/ s6' = Update!NoDownload
           \/ s6' = [step |-> "check", ch |-> c, publishes |-> publishes]
    BY <1>3 DEF Update!StartDownload
  <2>2. /\ DOMAIN s5' = DOMAIN s5 /\ (s5' # Update!NoCheck => s5'.ch # Update!None)
        /\ s5 # Update!NoCheck => s5' # Update!NoCheck
    BY <2>1, CheckStarts
  <2>3. /\ DOMAIN s6' = {"step", "ch", "publishes"} /\ (s6' # Update!NoDownload => s6'.ch # Update!None)
        /\ s6' # Update!NoDownload => s6'.publishes = publishes
    BY <2>1 DEF Update!NoDownload
  <2> QED BY <1>3, <2>1, <2>2, <2>3 DEF Update!BusyInv, Update!Records, Update!ChannelsNamed
<1> QED BY <1>1, <1>2, <1>3

LEMMA InstallStarts ==
    ASSUME Update!BusyInv, NEW c, c # Update!None, Update!StartInstall(c)
    PROVE  /\ DOMAIN s1' = DOMAIN s1 /\ s1'.ch # Update!None
           /\ s7 # Update!None => s7' # Update!None
           /\ \/ s1'.status = s1.status \/ s1'.status = "ready"
              \/ s7' # Update!None
           /\ s9' = s9 \/ s9' = Update!NoFailure
BY DEF Update!StartInstall, Update!Publish, Update!BusyInv, Update!Records, Update!ChannelsNamed

\* A step that starts something, or leaves what is in flight in flight.
LEMMA BusyKeeps ==
    ASSUME Update!BusyInv, Update!Records', Update!ChannelsNamed', Update!QuietIsForBoth',
           s1'.status \in {"checking", "downloading", "installing"} =>
               \/ s5' # Update!NoCheck \/ s6' # Update!NoDownload \/ s7' # Update!None
               \/ /\ s1'.status = s1.status
                  /\ s5 # Update!NoCheck => s5' # Update!NoCheck
                  /\ s6 # Update!NoDownload => s6' # Update!NoDownload
                  /\ s7 # Update!None => s7' # Update!None
    PROVE  Update!BusyInv'
BY DEF Update!BusyInv, Update!BusyMeansWork

LEMMA ChecksEnd ==
    ASSUME Update!BusyInv, Update!GotVersion \/ Update!CheckAnswered \/ Update!CheckFails
    PROVE  Update!BusyInv'
<1> USE DEF Update!BusyInv
<1>1. CASE Update!GotVersion
  <2>1. /\ s5'.step = "ask" /\ s5'.ch = s5.ch /\ DOMAIN s5' = DOMAIN s5
        /\ DOMAIN s1' = DOMAIN s1 /\ s1'.ch # Update!None /\ s5 # Update!NoCheck
    BY <1>1 DEF Update!GotVersion, Update!Records, Update!NoCheck, Update!None, Update!ChannelsNamed
  <2>2. s5' # Update!NoCheck
    BY <2>1 DEF Update!NoCheck, Update!None
  <2>3. UNCHANGED <<s13, s6, s8, s7, s10, s12>> /\ s9' = Update!NoFailure
    BY <1>1 DEF Update!GotVersion, Update!timerVars
  <2>4. Update!Records' /\ Update!ChannelsNamed' /\ Update!QuietIsForBoth'
    BY <2>1, <2>2, <2>3 DEF Update!Records, Update!ChannelsNamed, Update!QuietIsForBoth
  <2> QED BY <2>2, <2>4, BusyKeeps
<1>2. CASE Update!CheckAnswered \/ Update!CheckFails
  <2>1. PICK found \in {Update!Found, 0} :
            /\ Update!WaitingGoesOn(found) /\ s5' = Update!NoCheck /\ s5.step = "ask"
            /\ UNCHANGED <<s7, s13, s10, s12>>
            /\ DOMAIN s1' = DOMAIN s1 /\ s1'.ch # Update!None
            /\ \/ s1'.status = "downloading" /\ s6.step = "check" /\ found # 0
               \/ s1'.status \in {"available", "idle", "not-available", "error"}
            /\ s9' = s9 \/ s9' = Update!NoFailure \/ s9'.ch = s5.ch
    <3>1. CASE Update!CheckAnswered
      <4>1. /\ Update!WaitingGoesOn(Update!Found) /\ s5' = Update!NoCheck /\ s5.step = "ask"
            /\ UNCHANGED <<s7, s13, s10, s12, s9>>
            /\ DOMAIN s1' = DOMAIN s1 /\ s1'.ch # Update!None
            /\ s1'.status = IF s6.step = "check" /\ Update!Found # 0 THEN "downloading"
                               ELSE IF Update!Found # 0 THEN "available"
                               ELSE IF s5.silent THEN "idle" ELSE "not-available"
        <5>1. s6.step = "check" => s6.ch # Update!None
          BY DEF Update!ChannelsNamed, Update!NoDownload, Update!None
        <5>2. s1' = [s1 EXCEPT !.latest = Update!Found, !.ch = IF s6.step = "check" THEN s6.ch ELSE @,
                  !.status = IF s6.step = "check" /\ Update!Found # 0 THEN "downloading"
                             ELSE IF Update!Found # 0 THEN "available"
                             ELSE IF s5.silent THEN "idle" ELSE "not-available"]
          BY <3>1 DEF Update!CheckAnswered
        <5>3. s1'.ch = IF s6.step = "check" THEN s6.ch ELSE s1.ch
          BY <5>2 DEF Update!Records
        <5>4. s1'.ch # Update!None
          BY <5>1, <5>3 DEF Update!ChannelsNamed
        <5>5. DOMAIN s1' = DOMAIN s1
          BY <5>2
        <5>6. s1'.status = IF s6.step = "check" /\ Update!Found # 0 THEN "downloading"
                              ELSE IF Update!Found # 0 THEN "available"
                              ELSE IF s5.silent THEN "idle" ELSE "not-available"
          BY <5>2 DEF Update!Records
        <5> QED BY <3>1, <5>4, <5>5, <5>6 DEF Update!CheckAnswered, Update!timerVars
      <4> QED BY <4>1
    <3>2. CASE Update!CheckFails
      <4>1. /\ Update!WaitingGoesOn(0) /\ s5' = Update!NoCheck /\ s5.step = "ask"
            /\ UNCHANGED <<s7, s13, s10, s12>>
            /\ DOMAIN s1' = DOMAIN s1 /\ s1'.ch # Update!None
            /\ s1'.status = IF s5.silent THEN "idle" ELSE "error"
            /\ s9' = Update!NoFailure \/ s9'.ch = s5.ch
        BY <3>2 DEF Update!CheckFails, Update!timerVars, Update!Records, Update!Publish, Update!ChannelsNamed
      <4> QED BY <4>1
    <3> QED BY <1>2, <3>1, <3>2
  <2>2. s5 # Update!NoCheck /\ s5.ch # Update!None
    BY <2>1 DEF Update!ChannelsNamed, Update!NoCheck, Update!None
  <2>3. /\ DOMAIN s6' = DOMAIN s6
        /\ \/ UNCHANGED <<s6, s8>> /\ s6.step # "check"
           \/ s6' = Update!NoDownload /\ s8' = Update!None
           \/ /\ found # 0 /\ s8' = s8 /\ s6' # Update!NoDownload /\ s6 # Update!NoDownload
              /\ s6'.ch = s6.ch /\ s6'.publishes = s6.publishes
    BY <2>1, WaitingKeeps
  <2>4. s6.step = "check" /\ found # 0 => s6' # Update!NoDownload
    BY <2>1 DEF Update!WaitingGoesOn, Update!Records, Update!NoDownload, Update!None
  <2>5. Update!Records'
    BY <2>1, <2>3 DEF Update!Records, Update!NoCheck
  <2>6. Update!ChannelsNamed' /\ Update!QuietIsForBoth'
    BY <2>1, <2>2, <2>3 DEF Update!ChannelsNamed, Update!QuietIsForBoth, Update!NoFailure
  <2> QED BY <2>1, <2>4, <2>5, <2>6, BusyKeeps
<1> QED BY <1>1, <1>2

LEMMA DownloadsEnd ==
    ASSUME Update!BusyInv, Update!DownloadAnswered \/ Update!DownloadFails
    PROVE  Update!BusyInv'
<1> USE DEF Update!BusyInv
<1>1. /\ s6' = Update!NoDownload /\ s8' = Update!None /\ s6 # Update!NoDownload /\ s6.ch # Update!None
      /\ UNCHANGED <<s5, s13, s10, s12>>
  BY DEF Update!DownloadAnswered, Update!DownloadFails, Update!timerVars, Update!ChannelsNamed,
     Update!NoDownload, Update!None
<1>2. DOMAIN s6' = DOMAIN s6
  BY <1>1 DEF Update!Records, Update!NoDownload
<1>3. CASE Update!DownloadAnswered
  <2>1. CASE s1' = [s1 EXCEPT !.status = "not-available", !.latest = 0] /\ UNCHANGED <<s7, s9>>
    <3>1. DOMAIN s1' = DOMAIN s1 /\ s1'.ch # Update!None /\ s1'.status = "not-available"
      BY <2>1 DEF Update!Records, Update!ChannelsNamed
    <3>2. Update!Records' /\ Update!ChannelsNamed' /\ Update!QuietIsForBoth'
      BY <1>1, <1>2, <2>1, <3>1 DEF Update!Records, Update!ChannelsNamed, Update!QuietIsForBoth
    <3> QED BY <3>1, <3>2, BusyKeeps
  <2>2. CASE s8 # Update!None /\ Update!StartInstall(s8)
    <3>1. /\ DOMAIN s1' = DOMAIN s1 /\ s1'.ch # Update!None /\ (s7 # Update!None => s7' # Update!None)
          /\ s1'.status = s1.status \/ s1'.status = "ready" \/ s7' # Update!None
          /\ s9' = s9 \/ s9' = Update!NoFailure
      BY <2>2, InstallStarts
    <3>2. s1'.status = s1.status => s7' # Update!None \/ s1'.status \notin {"checking", "downloading", "installing"}
      BY <2>2 DEF Update!StartInstall, Update!Publish, Update!Records
    <3>3. Update!Records' /\ Update!ChannelsNamed' /\ Update!QuietIsForBoth'
      BY <1>1, <1>2, <3>1 DEF Update!Records, Update!ChannelsNamed, Update!QuietIsForBoth
    <3> QED BY <3>1, <3>2, <3>3, BusyKeeps
  <2>3. CASE s6.publishes /\ Update!Publish("downloaded") /\ UNCHANGED <<s7, s9>>
    <3>1. DOMAIN s1' = DOMAIN s1 /\ s1'.ch # Update!None /\ s1'.status = "downloaded"
      BY <2>3 DEF Update!Records, Update!Publish, Update!ChannelsNamed
    <3>2. Update!Records' /\ Update!ChannelsNamed' /\ Update!QuietIsForBoth'
      BY <1>1, <1>2, <2>3, <3>1 DEF Update!Records, Update!ChannelsNamed, Update!QuietIsForBoth
    <3> QED BY <3>1, <3>2, BusyKeeps
  <2>4. ~(s8 = Update!None /\ ~s6.publishes)
    BY <1>1 DEF Update!QuietIsForBoth
  <2> QED BY <1>3, <2>1, <2>2, <2>3, <2>4 DEF Update!DownloadAnswered
<1>4. CASE Update!DownloadFails
  <2>1. /\ DOMAIN s1' = DOMAIN s1 /\ s1'.ch # Update!None /\ s1'.status = "error" /\ s9'.ch = s6.ch /\ s7' = s7
    BY <1>4 DEF Update!DownloadFails, Update!Publish, Update!Records, Update!ChannelsNamed
  <2>2. Update!Records' /\ Update!ChannelsNamed' /\ Update!QuietIsForBoth'
    BY <1>1, <1>2, <2>1 DEF Update!Records, Update!ChannelsNamed, Update!QuietIsForBoth
  <2> QED BY <2>1, <2>2, BusyKeeps
<1> QED BY <1>3, <1>4

LEMMA InstallsEnd == ASSUME Update!BusyInv, Update!InstallAnswered \/ Update!InstallFails PROVE Update!BusyInv'
<1> USE DEF Update!BusyInv
<1>1. /\ UNCHANGED <<s5, s6, s8, s13, s10, s12>> /\ s7 # Update!None
      /\ DOMAIN s1' = DOMAIN s1 /\ s1'.ch # Update!None /\ s1'.status \in {"error", "ready"}
      /\ s9' = s9 \/ s9'.ch = s7
  BY DEF Update!InstallAnswered, Update!InstallFails, Update!timerVars, Update!Publish, Update!Records,
     Update!ChannelsNamed
<1>2. Update!Records' /\ Update!ChannelsNamed' /\ Update!QuietIsForBoth'
  BY <1>1 DEF Update!Records, Update!ChannelsNamed, Update!QuietIsForBoth
<1> QED BY <1>1, <1>2, BusyKeeps

\* The timers, the run of a background check and the settings.
LEMMA BackgroundKeeps ==
    ASSUME Update!BusyInv, Update!BackgroundCheck \/ Update!BackgroundRun \/ Update!SettingsChange
    PROVE  Update!BusyInv'
<1> USE DEF Update!BusyInv
<1>1. CASE Update!BackgroundCheck
  <2>1. PICK c \in s12 \cup ({s11} \ {Update!None}) :
            /\ s10' = [ch |-> c, auto |-> s13.auto] /\ Update!StartCheck(c, TRUE)
            /\ s12' = s12 \/ s12' = s12 \ {c}
            /\ UNCHANGED <<s1, s9, s6, s7, s8, s13>>
    BY <1>1 DEF Update!BackgroundCheck, Update!memVars
  <2>2. c # Update!None /\ s10'.ch = c
    BY <2>1 DEF Update!ChannelsNamed
  <2>3. /\ DOMAIN s5' = DOMAIN s5 /\ (s5' # Update!NoCheck => s5'.ch # Update!None)
        /\ s5 # Update!NoCheck => s5' # Update!NoCheck
    BY <2>1, <2>2, CheckStarts
  <2>4. Update!Records' /\ Update!ChannelsNamed' /\ Update!QuietIsForBoth'
    BY <2>1, <2>2, <2>3 DEF Update!Records, Update!ChannelsNamed, Update!QuietIsForBoth
  <2> QED BY <2>1, <2>3, <2>4, BusyKeeps
<1>2. CASE Update!BackgroundRun
  <2>1. /\ s10 # Update!NoRun /\ s10' = Update!NoRun /\ s10.ch # Update!None /\ s5 = Update!NoCheck
        /\ s12' \subseteq s12 \cup {s13.ch} /\ UNCHANGED <<s7, s8, s13>>
    BY <1>2 DEF Update!BackgroundRun, Update!ChannelsNamed
  <2>2. CASE /\ Update!Publish(IF s4 THEN "ready" ELSE "downloaded")
             /\ UNCHANGED <<s6, s5, s9>>
    <3>1. DOMAIN s1' = DOMAIN s1 /\ s1'.ch # Update!None /\ s1'.status \in {"ready", "downloaded"}
      BY <2>2 DEF Update!Publish, Update!Records, Update!ChannelsNamed
    <3>2. Update!Records' /\ Update!ChannelsNamed' /\ Update!QuietIsForBoth'
      BY <2>1, <2>2, <3>1 DEF Update!Records, Update!ChannelsNamed, Update!QuietIsForBoth
    <3> QED BY <3>1, <3>2, BusyKeeps
  <2>3. CASE Update!StartDownload(s10.ch, TRUE)
    <3>1. /\ DOMAIN s5' = DOMAIN s5 /\ (s5' # Update!NoCheck => s5'.ch # Update!None)
          /\ DOMAIN s6' = DOMAIN s6 /\ (s6' # Update!NoDownload => s6'.ch # Update!None)
          /\ s6 # Update!NoDownload => s6' = s6
          /\ s6 = Update!NoDownload /\ s6' # Update!NoDownload => s6'.publishes = TRUE
          /\ DOMAIN s1' = DOMAIN s1 /\ s1'.ch # Update!None
          /\ s1'.status = s1.status \/ (s1'.status = "downloading" /\ s6' # Update!NoDownload)
          /\ s9' = s9 \/ s9' = Update!NoFailure
      BY <2>1, <2>3, DownloadStarts
    <3>2. Update!Records' /\ Update!ChannelsNamed' /\ Update!QuietIsForBoth'
      BY <2>1, <3>1 DEF Update!Records, Update!ChannelsNamed, Update!QuietIsForBoth
    <3> QED BY <2>1, <3>1, <3>2, BusyKeeps
  <2>4. CASE UNCHANGED <<s6, s5, s1, s9>>
    <3>1. Update!Records' /\ Update!ChannelsNamed' /\ Update!QuietIsForBoth'
      BY <2>1, <2>4 DEF Update!Records, Update!ChannelsNamed, Update!QuietIsForBoth
    <3> QED BY <2>1, <2>4, <3>1, BusyKeeps
  <2> QED BY <1>2, <2>2, <2>3, <2>4 DEF Update!BackgroundRun
<1>3. CASE Update!SettingsChange
  <2>1. /\ UNCHANGED <<s1, s9, s5, s6, s7, s8, s10, s12>>
        /\ DOMAIN s13' = DOMAIN s13 /\ (s13'.ch = s13.ch \/ s13'.ch \in UpdateChannels)
    BY <1>3 DEF Update!SettingsChange, Update!memVars, Update!opVars, Update!Records
  <2>2. Update!Records' /\ Update!ChannelsNamed' /\ Update!QuietIsForBoth'
    BY <2>1, ChannelsAssumption DEF Update!Records, Update!ChannelsNamed, Update!QuietIsForBoth, Update!None
  <2> QED BY <2>1, <2>2, BusyKeeps
<1> QED BY <1>1, <1>2, <1>3

LEMMA BothStarts ==
    ASSUME Update!BusyInv, NEW c, c # Update!None, Update!StartBoth(c), UNCHANGED <<s13, s10, s12>>
    PROVE  Update!BusyInv'
<1> USE DEF Update!BusyInv
<1>1. CASE s8 # Update!None
  <2>1. UNCHANGED <<s8, s6, s5, s7, s1, s9>>
    BY <1>1 DEF Update!StartBoth
  <2>2. Update!Records' /\ Update!ChannelsNamed' /\ Update!QuietIsForBoth'
    BY <2>1 DEF Update!Records, Update!ChannelsNamed, Update!QuietIsForBoth
  <2> QED BY <2>1, <2>2, BusyKeeps
<1>2. CASE s8 = Update!None /\ Update!Skips(c)
  <2>1. Update!StartInstall(c) /\ UNCHANGED <<s8, s6, s5>>
    BY <1>2 DEF Update!StartBoth
  <2>2. /\ DOMAIN s1' = DOMAIN s1 /\ s1'.ch # Update!None /\ (s7 # Update!None => s7' # Update!None)
        /\ s1'.status = s1.status \/ s1'.status = "ready" \/ s7' # Update!None
        /\ s9' = s9 \/ s9' = Update!NoFailure
    BY <2>1, InstallStarts
  <2>3. Update!Records' /\ Update!ChannelsNamed' /\ Update!QuietIsForBoth'
    BY <2>1, <2>2 DEF Update!Records, Update!ChannelsNamed, Update!QuietIsForBoth
  <2> QED BY <2>1, <2>2, <2>3, BusyKeeps
<1>3. CASE s8 = Update!None /\ ~Update!Skips(c)
  <2>1. Update!StartDownload(c, FALSE) /\ s7' = s7 /\ s8' = IF s6' = Update!NoDownload THEN Update!None ELSE c
    BY <1>3 DEF Update!StartBoth
  <2>2. /\ DOMAIN s5' = DOMAIN s5 /\ (s5' # Update!NoCheck => s5'.ch # Update!None)
        /\ s5 # Update!NoCheck => s5' # Update!NoCheck
        /\ DOMAIN s6' = DOMAIN s6 /\ (s6' # Update!NoDownload => s6'.ch # Update!None)
        /\ s6 # Update!NoDownload => s6' = s6
        /\ DOMAIN s1' = DOMAIN s1 /\ s1'.ch # Update!None
        /\ s1'.status = s1.status \/ (s1'.status = "downloading" /\ s6' # Update!NoDownload)
        /\ s9' = s9 \/ s9' = Update!NoFailure
    BY <2>1, DownloadStarts
  <2>3. Update!Records' /\ Update!ChannelsNamed' /\ Update!QuietIsForBoth'
    BY <2>1, <2>2 DEF Update!Records, Update!ChannelsNamed, Update!QuietIsForBoth
  <2> QED BY <2>1, <2>2, <2>3, BusyKeeps
<1> QED BY <1>1, <1>2, <1>3

\* The dialog, the toast and the settings page.
LEMMA UpdateClicksKeep ==
    ASSUME Update!BusyInv, Update!ClickDownloadInstall \/ Update!ClickInstall \/ Update!CheckNow
        \/ Update!RetryAppUpdate
    PROVE  Update!BusyInv'
<1> USE DEF Update!BusyInv
<1>0. UNCHANGED <<s13, s10, s12>> /\ s13.ch # Update!None /\ s1.ch # Update!None
  BY DEF Update!ClickDownloadInstall, Update!ClickInstall, Update!CheckNow, Update!RetryAppUpdate,
     Update!timerVars, Update!ChannelsNamed
<1>1. ASSUME NEW c, c # Update!None, Update!StartCheck(c, FALSE), UNCHANGED <<s1, s9, s6, s7, s8>>
      PROVE  Update!BusyInv'
  <2>1. /\ DOMAIN s5' = DOMAIN s5 /\ (s5' # Update!NoCheck => s5'.ch # Update!None)
        /\ s5 # Update!NoCheck => s5' # Update!NoCheck
    BY <1>1, CheckStarts
  <2>2. Update!Records' /\ Update!ChannelsNamed' /\ Update!QuietIsForBoth'
    BY <1>0, <1>1, <2>1 DEF Update!Records, Update!ChannelsNamed, Update!QuietIsForBoth
  <2> QED BY <1>1, <2>1, <2>2, BusyKeeps
<1>2. ASSUME NEW c, c # Update!None, Update!StartInstall(c), UNCHANGED <<s5, s6, s8>> PROVE Update!BusyInv'
  <2>1. /\ DOMAIN s1' = DOMAIN s1 /\ s1'.ch # Update!None /\ (s7 # Update!None => s7' # Update!None)
        /\ s1'.status = s1.status \/ s1'.status = "ready" \/ s7' # Update!None
        /\ s9' = s9 \/ s9' = Update!NoFailure
    BY <1>2, InstallStarts
  <2>2. Update!Records' /\ Update!ChannelsNamed' /\ Update!QuietIsForBoth'
    BY <1>0, <1>2, <2>1 DEF Update!Records, Update!ChannelsNamed, Update!QuietIsForBoth
  <2> QED BY <1>2, <2>1, <2>2, BusyKeeps
<1>3. CASE Update!ClickDownloadInstall
  <2>1. Update!StartBoth(s13.ch)
    BY <1>3 DEF Update!ClickDownloadInstall
  <2> QED BY <1>0, <2>1, BothStarts
<1>4. CASE Update!ClickInstall
  <2>1. /\ s1.status = "downloaded" /\ Update!StartInstall(s1.ch) /\ UNCHANGED <<s5, s6, s8>>
    BY <1>4 DEF Update!ClickInstall
  <2> QED BY <1>0, <1>2, <2>1
<1>5. CASE Update!CheckNow
  <2>1. Update!StartCheck(s13.ch, FALSE) /\ UNCHANGED <<s1, s9, s6, s7, s8>>
    BY <1>5 DEF Update!CheckNow, Update!memVars
  <2> QED BY <1>0, <1>1, <2>1
<1>6. CASE Update!RetryAppUpdate
  <2>0. s9.ch # Update!None
    BY <1>6 DEF Update!RetryAppUpdate, Update!ChannelsNamed
  <2>1. CASE Update!StartCheck(s9.ch, FALSE) /\ UNCHANGED <<s1, s9, s6, s7, s8>>
    BY <1>1, <2>0, <2>1
  <2>2. CASE /\ Update!Publish(IF s4 THEN "ready" ELSE "downloaded")
             /\ UNCHANGED <<s6, s5, s9, s7, s8>>
    <3>1. DOMAIN s1' = DOMAIN s1 /\ s1'.ch # Update!None /\ s1'.status \in {"ready", "downloaded"}
      BY <2>2 DEF Update!Publish, Update!Records, Update!ChannelsNamed
    <3>2. Update!Records' /\ Update!ChannelsNamed' /\ Update!QuietIsForBoth'
      BY <1>0, <2>2, <3>1 DEF Update!Records, Update!ChannelsNamed, Update!QuietIsForBoth
    <3> QED BY <3>1, <3>2, BusyKeeps
  <2>3. CASE Update!StartDownload(s9.ch, TRUE) /\ UNCHANGED <<s7, s8>>
    <3>1. /\ DOMAIN s5' = DOMAIN s5 /\ (s5' # Update!NoCheck => s5'.ch # Update!None)
          /\ s5 # Update!NoCheck => s5' # Update!NoCheck
          /\ DOMAIN s6' = DOMAIN s6 /\ (s6' # Update!NoDownload => s6'.ch # Update!None)
          /\ s6 # Update!NoDownload => s6' = s6
          /\ s6 = Update!NoDownload /\ s6' # Update!NoDownload => s6'.publishes = TRUE
          /\ DOMAIN s1' = DOMAIN s1 /\ s1'.ch # Update!None
          /\ s1'.status = s1.status \/ (s1'.status = "downloading" /\ s6' # Update!NoDownload)
          /\ s9' = s9 \/ s9' = Update!NoFailure
      BY <2>0, <2>3, DownloadStarts
    <3>2. Update!Records' /\ Update!ChannelsNamed' /\ Update!QuietIsForBoth'
      BY <1>0, <2>3, <3>1 DEF Update!Records, Update!ChannelsNamed, Update!QuietIsForBoth
    <3> QED BY <2>3, <3>1, <3>2, BusyKeeps
  <2>4. CASE Update!StartBoth(s9.ch)
    BY <1>0, <2>0, <2>4, BothStarts
  <2>5. CASE Update!StartInstall(s9.ch) /\ UNCHANGED <<s5, s6, s8>>
    BY <1>2, <2>0, <2>5
  <2> QED BY <1>6, <2>1, <2>2, <2>3, <2>4, <2>5 DEF Update!RetryAppUpdate
<1> QED BY <1>3, <1>4, <1>5, <1>6

LEMMA UpdaterStarts == ASSUME Update!Init PROVE Update!BusyInv
BY DEF Update!Init, Update!BusyInv, Update!Records, Update!ChannelsNamed, Update!QuietIsForBoth,
   Update!BusyMeansWork, Update!NoCheck, Update!NoDownload, Update!None

LEMMA UpdaterKeeps == ASSUME Update!BusyInv, [Update!Next]_(Update!vars) PROVE Update!BusyInv'
<1>1. CASE Update!CloseDialog \/ Update!DismissNotification \/ Update!NewRelease \/ UNCHANGED Update!vars
  <2>1. UNCHANGED <<s1, s13, s5, s6, s7, s8, s9, s10, s12>>
    BY <1>1 DEF Update!CloseDialog, Update!DismissNotification, Update!NewRelease, Update!vars, Update!memVars,
       Update!opVars, Update!timerVars
  <2> QED BY <2>1 DEF Update!BusyInv, Update!Records, Update!ChannelsNamed, Update!QuietIsForBoth,
             Update!BusyMeansWork
<1> QED BY <1>1, ChecksEnd, DownloadsEnd, InstallsEnd, BackgroundKeeps, UpdateClicksKeep DEF Update!Next

-----------------------------------------------------------------------------
(* The connection dialog: a save keeps what its form showed.               *)
Connection == INSTANCE ConnectionDialog WITH MaxEdits <- FormEdits, mode <- s1, profile <- s2,
    store <- s3, form <- s4, known <- s5, asking <- s6, test <- s7, saves <- s8, opened <- s9,
    edits <- s10

\* The hops of a form after one was added, removed, moved or changed.
LEMMA AddedNamedOnce ==
    ASSUME NEW q \in Seq(Connection!JumpHosts), Connection!NamedOnce(q)
    PROVE  LET r == Append(q, Connection!Jump(Connection!Blank, "password"))
           IN r \in Seq(Connection!JumpHosts) /\ Connection!NamedOnce(r)
BY DEF Connection!NamedOnce, Connection!JumpHosts, Connection!Jump, Connection!Blank

LEMMA OneNamedOnce ==
    ASSUME NEW h \in Hops \cup {Connection!Blank}, NEW a \in Connection!Auths
    PROVE  /\ <<Connection!Jump(h, a)>> \in Seq(Connection!JumpHosts)
           /\ Connection!NamedOnce(<<Connection!Jump(h, a)>>)
<1>1. Connection!Jump(h, a) \in Connection!JumpHosts
  BY DEF Connection!JumpHosts, Connection!Jump, Connection!Auths
<1> QED BY <1>1 DEF Connection!NamedOnce

LEMMA RemovedNamedOnce ==
    ASSUME NEW q \in Seq(Connection!JumpHosts), Connection!NamedOnce(q), NEW i \in 1..Len(q)
    PROVE  LET r == SubSeq(q, 1, i - 1) \o SubSeq(q, i + 1, Len(q))
           IN r \in Seq(Connection!JumpHosts) /\ Connection!NamedOnce(r)
<1> DEFINE a == SubSeq(q, 1, i - 1)
           b == SubSeq(q, i + 1, Len(q))
           r == a \o b
<1>1. /\ a \in Seq(Connection!JumpHosts) /\ Len(a) = i - 1
      /\ \A k \in 1..(i - 1) : a[k] = q[k]
  OBVIOUS
<1>2. /\ b \in Seq(Connection!JumpHosts) /\ Len(b) = Len(q) - i
      /\ \A k \in 1..(Len(q) - i) : b[k] = q[i + k]
  OBVIOUS
<1>3. /\ r \in Seq(Connection!JumpHosts) /\ Len(r) = Len(a) + Len(b)
      /\ \A k \in 1..(Len(a) + Len(b)) : r[k] = IF k <= Len(a) THEN a[k] ELSE b[k - Len(a)]
  <2>1. a \in Seq(Connection!JumpHosts) /\ b \in Seq(Connection!JumpHosts)
    BY <1>1, <1>2
  <2> HIDE DEF a, b
  <2> QED BY <2>1
<1> HIDE DEF a, b, r
<1>4. Len(r) = Len(q) - 1
  BY <1>1, <1>2, <1>3
<1>5. \A k \in 1..Len(r) : k < i => r[k] = q[k]
  <2> SUFFICES ASSUME NEW k \in 1..Len(r), k < i PROVE r[k] = q[k]
    OBVIOUS
  <2>1. k \in 1..(Len(a) + Len(b)) /\ k <= Len(a) /\ k \in 1..(i - 1)
    BY <1>1, <1>2, <1>3
  <2>2. r[k] = a[k]
    BY <1>3, <2>1
  <2> QED BY <1>1, <2>1, <2>2
<1>6. \A k \in 1..Len(r) : ~(k < i) => r[k] = q[k + 1]
  <2> SUFFICES ASSUME NEW k \in 1..Len(r), ~(k < i) PROVE r[k] = q[k + 1]
    OBVIOUS
  <2>1. r[k] = b[k - Len(a)] /\ k - Len(a) \in 1..(Len(q) - i)
    BY <1>1, <1>2, <1>3
  <2>2. i + (k - Len(a)) = k + 1
    BY <1>1
  <2> QED BY <1>2, <2>1, <2>2
<1> DEFINE was(k) == IF k < i THEN k ELSE k + 1
<1>7. \A k \in 1..Len(r) : was(k) \in 1..Len(q) /\ r[k] = q[was(k)]
  BY <1>4, <1>5, <1>6
<1>8. \A k, m \in 1..Len(r) : was(k) = was(m) => k = m
  OBVIOUS
<1> HIDE DEF was
<1>9. Connection!NamedOnce(r)
  BY <1>7, <1>8 DEF Connection!NamedOnce
<1> QED BY <1>3, <1>9 DEF a, b, r

LEMMA MovedNamedOnce ==
    ASSUME NEW q \in Seq(Connection!JumpHosts), Connection!NamedOnce(q), NEW i \in 1..(Len(q) - 1)
    PROVE  LET r == [q EXCEPT ![i] = q[i + 1], ![i + 1] = q[i]]
           IN r \in Seq(Connection!JumpHosts) /\ Connection!NamedOnce(r)
BY DEF Connection!NamedOnce

LEMMA ChangedNamedOnce ==
    ASSUME NEW q \in Seq(Connection!JumpHosts), Connection!NamedOnce(q), NEW i \in 1..Len(q),
           NEW j \in Connection!JumpHosts,
           j.hop = q[i].hop \/ j.hop \notin {k.hop : k \in Connection!Range(q)}
    PROVE  LET r == [q EXCEPT ![i] = j]
           IN r \in Seq(Connection!JumpHosts) /\ Connection!NamedOnce(r)
<1> DEFINE r == [q EXCEPT ![i] = j]
<1>1. r \in Seq(Connection!JumpHosts) /\ Len(r) = Len(q)
  OBVIOUS
<1>2. \A k \in 1..Len(q) : k # i => r[k] = q[k]
  OBVIOUS
<1>3. r[i] = j
  OBVIOUS
<1>4. \A k \in 1..Len(q) : (k # i /\ j.hop # Connection!Blank) => q[k].hop # j.hop
  BY DEF Connection!NamedOnce, Connection!Range
<1> HIDE DEF r
<1>5. Connection!NamedOnce(r)
  BY <1>1, <1>2, <1>3, <1>4 DEF Connection!NamedOnce
<1> QED BY <1>1, <1>5 DEF r

\* The steps that change only the form's other fields, its lookups or a test.
LEMMA FormKept ==
    ASSUME Connection!SecretInv, UNCHANGED <<s1, s2, s3, s8>>,
           DOMAIN s4' = DOMAIN s4, s4'.type = s4.type \/ s1 = "new",
           s4'.jumps \in Seq(Connection!JumpHosts), Connection!NamedOnce(s4'.jumps),
           DOMAIN s5' = DOMAIN s5, s5'.jumps \subseteq Hops,
           s1 = "new" => s5'.target = s5.target /\ s5'.jumps = s5.jumps
    PROVE  Connection!SecretInv'
BY DEF Connection!SecretInv, Connection!TypeOK, Connection!BuildInitialForm, Connection!PasswordHops

LEMMA FormClosed ==
    ASSUME Connection!SecretInv, UNCHANGED <<s1, s2, s3>>, s8' \subseteq s8, Connection!Close
    PROVE  Connection!SecretInv'
<1>1. /\ s4'.type = "ssh" /\ s4'.jumps = <<>>
      /\ DOMAIN s4' = DOMAIN Connection!BuildInitialForm(s2)
  BY DEF Connection!Close, Connection!BuildInitialForm, Connection!Saved
<1>2. DOMAIN Connection!BuildInitialForm(s2)' = DOMAIN Connection!BuildInitialForm(s2)
  BY DEF Connection!BuildInitialForm
<1>3. s5' = Connection!NothingKnown
  BY DEF Connection!Close
<1>4. <<>> \in Seq(Connection!JumpHosts) /\ Connection!NamedOnce(<<>>)
  BY DEF Connection!NamedOnce
<1> QED BY <1>1, <1>2, <1>3, <1>4
    DEF Connection!SecretInv, Connection!TypeOK, Connection!NothingKnown, Connection!PasswordHops

LEMMA ConnectionSecrets ==
    Connection!SecretInv /\ [Connection!Next]_(Connection!vars) => Connection!SecretInv'
<1> SUFFICES ASSUME Connection!SecretInv, [Connection!Next]_(Connection!vars)
             PROVE  Connection!SecretInv'
  OBVIOUS
<1>0. /\ DOMAIN s4 = {"open", "type", "complete", "auth", "remember", "typed", "jumps", "useJump",
                      "sudo", "clearSudo", "clash", "moved"}
      /\ DOMAIN s5 = {"target", "typed", "jumps", "sudo", "profiles"}
      /\ s4.jumps \in Seq(Connection!JumpHosts) /\ Connection!NamedOnce(s4.jumps)
      /\ s5.jumps \subseteq Hops
  BY DEF Connection!SecretInv, Connection!TypeOK, Connection!BuildInitialForm, Connection!NothingKnown
<1> USE DEF Connection!backendVars
<1>1. CASE Connection!TargetLookedUp
  BY <1>0, <1>1, FormKept DEF Connection!TargetLookedUp
<1>2. CASE Connection!TypedLookedUp
  <2>1. PICK jumps \in SUBSET Hops : \/ UNCHANGED <<s4, s5>>
            \/ \E target : s5' = [s5 EXCEPT !.typed = target, !.jumps = jumps] /\ s4' = [s4 EXCEPT !.remember = TRUE]
    BY <1>2 DEF Connection!TypedLookedUp
  <2> QED BY <1>0, <1>2, <2>1, FormKept DEF Connection!TypedLookedUp
<1>3. CASE Connection!JumpsLookedUp
  <2>1. Connection!PasswordHops(s4.jumps) \ {Connection!Blank} \subseteq Hops
    <3>1. Connection!Range(s4.jumps) \subseteq Connection!JumpHosts
      BY <1>0 DEF Connection!Range
    <3> QED BY <3>1 DEF Connection!PasswordHops, Connection!JumpHosts
  <2> QED BY <1>0, <1>3, <2>1, FormKept DEF Connection!JumpsLookedUp
<1>4. CASE Connection!SudoLookedUp \/ Connection!ProfilesListed
  BY <1>0, <1>4, FormKept DEF Connection!SudoLookedUp, Connection!ProfilesListed
<1> USE DEF Connection!Edited
<1>5. CASE Connection!ChooseType
  BY <1>0, <1>5, FormKept DEF Connection!ChooseType
<1>6. CASE Connection!SshFields
  BY <1>0, <1>6, FormKept DEF Connection!SshFields
<1>7. CASE Connection!SerialFields \/ Connection!TerminalFields
  BY <1>0, <1>7, FormKept DEF Connection!SerialFields, Connection!TerminalFields, Connection!Required
<1>8. CASE Connection!ChooseAuthMethod \/ Connection!TypePassword \/ Connection!RememberPassword
           \/ Connection!SudoFields
  BY <1>0, <1>8, FormKept DEF Connection!ChooseAuthMethod, Connection!TypePassword,
     Connection!RememberPassword, Connection!SudoFields
<1>9. CASE Connection!AddJumpHost
  <2>1. s4' = [s4 EXCEPT !.useJump = TRUE,
                         !.jumps = Append(@, Connection!Jump(Connection!Blank, "password"))]
    BY <1>9 DEF Connection!AddJumpHost
  <2>2. /\ DOMAIN s4' = DOMAIN s4 /\ s4'.type = s4.type
        /\ s4'.jumps = Append(s4.jumps, Connection!Jump(Connection!Blank, "password"))
    BY <1>0, <2>1
  <2>3. UNCHANGED <<s1, s2, s3, s5, s8>>
    BY <1>9 DEF Connection!AddJumpHost
  <2>4. s4'.jumps \in Seq(Connection!JumpHosts) /\ Connection!NamedOnce(s4'.jumps)
    BY <1>0, <2>2, AddedNamedOnce
  <2> QED BY <1>0, <2>2, <2>3, <2>4, FormKept
<1>10. CASE Connection!UseJumpHost
  <2>1. s4' = [s4 EXCEPT !.useJump = ~@,
            !.jumps = IF ~s4.useJump /\ @ = <<>> THEN <<Connection!Jump(Connection!Blank, "password")>> ELSE @]
    BY <1>10 DEF Connection!UseJumpHost
  <2>2. /\ DOMAIN s4' = DOMAIN s4 /\ s4'.type = s4.type
        /\ s4'.jumps = s4.jumps \/ s4'.jumps = <<Connection!Jump(Connection!Blank, "password")>>
    BY <1>0, <2>1
  <2>3. UNCHANGED <<s1, s2, s3, s5, s8>>
    BY <1>10 DEF Connection!UseJumpHost
  <2>4. "password" \in Connection!Auths
    BY DEF Connection!Auths
  <2>5. LET q == <<Connection!Jump(Connection!Blank, "password")>>
        IN q \in Seq(Connection!JumpHosts) /\ Connection!NamedOnce(q)
    BY <2>4, OneNamedOnce
  <2>6. s4'.jumps \in Seq(Connection!JumpHosts) /\ Connection!NamedOnce(s4'.jumps)
    BY <1>0, <2>2, <2>5
  <2> QED BY <1>0, <2>2, <2>3, <2>6, FormKept
<1>11. CASE Connection!RemoveJumpHost
  <2>1. PICK i \in 1..Len(s4.jumps) :
            LET rest == SubSeq(s4.jumps, 1, i - 1) \o SubSeq(s4.jumps, i + 1, Len(s4.jumps))
            IN s4' = [s4 EXCEPT !.jumps = rest, !.useJump = rest # <<>>]
    BY <1>11 DEF Connection!RemoveJumpHost
  <2>2. /\ DOMAIN s4' = DOMAIN s4 /\ s4'.type = s4.type
        /\ s4'.jumps = SubSeq(s4.jumps, 1, i - 1) \o SubSeq(s4.jumps, i + 1, Len(s4.jumps))
    BY <1>0, <2>1
  <2>3. UNCHANGED <<s1, s2, s3, s5, s8>>
    BY <1>11 DEF Connection!RemoveJumpHost
  <2>4. s4'.jumps \in Seq(Connection!JumpHosts) /\ Connection!NamedOnce(s4'.jumps)
    BY <1>0, <2>2, RemovedNamedOnce
  <2> QED BY <1>0, <2>2, <2>3, <2>4, FormKept
<1>12. CASE Connection!ClearJumpHosts
  <2>1. <<>> \in Seq(Connection!JumpHosts) /\ Connection!NamedOnce(<<>>)
    BY DEF Connection!NamedOnce
  <2> QED BY <1>0, <1>12, <2>1, FormKept DEF Connection!ClearJumpHosts
<1>13. CASE Connection!MoveJumpHost
  <2>1. PICK i \in 1..(Len(s4.jumps) - 1) :
            s4' = [s4 EXCEPT !.jumps = [@ EXCEPT ![i] = s4.jumps[i + 1], ![i + 1] = s4.jumps[i]]]
    BY <1>13 DEF Connection!MoveJumpHost
  <2>2. /\ DOMAIN s4' = DOMAIN s4 /\ s4'.type = s4.type
        /\ s4'.jumps = [s4.jumps EXCEPT ![i] = s4.jumps[i + 1], ![i + 1] = s4.jumps[i]]
    BY <1>0, <2>1
  <2>3. UNCHANGED <<s1, s2, s3, s5, s8>>
    BY <1>13 DEF Connection!MoveJumpHost
  <2>4. s4'.jumps \in Seq(Connection!JumpHosts) /\ Connection!NamedOnce(s4'.jumps)
    BY <1>0, <2>2, MovedNamedOnce
  <2> QED BY <1>0, <2>2, <2>3, <2>4, FormKept
<1>14. CASE Connection!JumpHostManualFields \/ Connection!PrivateKeyField \/ Connection!JumpHostSource
  <2>1. PICK i \in 1..Len(s4.jumps) :
            \/ \E hop \in Hops \ {k.hop : k \in Connection!Range(s4.jumps)} :
                  s4' = [s4 EXCEPT !.jumps[i].hop = hop]
            \/ \E auth \in Connection!Auths : s4' = [s4 EXCEPT !.jumps[i].auth = auth]
            \/ s4' = [s4 EXCEPT !.jumps[i].typed = ~@]
            \/ s4' = [s4 EXCEPT !.jumps[i].key = ~@]
            \/ s4' = [s4 EXCEPT !.jumps[i].ref = ~@, !.jumps[i].typed = FALSE]
    BY <1>14 DEF Connection!JumpHostManualFields, Connection!PrivateKeyField, Connection!JumpHostSource
  <2> DEFINE j == s4.jumps[i]
  <2>2. j \in Connection!JumpHosts
    BY <1>0
  <2>3. \E q \in Connection!JumpHosts :
            /\ q.hop = j.hop \/ q.hop \notin {k.hop : k \in Connection!Range(s4.jumps)}
            /\ s4'.jumps = [s4.jumps EXCEPT ![i] = q]
            /\ DOMAIN s4' = DOMAIN s4 /\ s4'.type = s4.type
    <3>1. CASE \E hop \in Hops \ {k.hop : k \in Connection!Range(s4.jumps)} :
                  s4' = [s4 EXCEPT !.jumps[i].hop = hop]
      <4>1. PICK hop \in Hops \ {k.hop : k \in Connection!Range(s4.jumps)} :
                  s4' = [s4 EXCEPT !.jumps[i].hop = hop]
        BY <3>1
      <4>2. [j EXCEPT !.hop = hop] \in Connection!JumpHosts /\ [j EXCEPT !.hop = hop].hop = hop
        BY <2>2 DEF Connection!JumpHosts
      <4>3. /\ s4'.jumps = [s4.jumps EXCEPT ![i] = [j EXCEPT !.hop = hop]]
            /\ DOMAIN s4' = DOMAIN s4 /\ s4'.type = s4.type
        BY <1>0, <4>1
      <4> QED BY <4>2, <4>3
    <3>2. CASE \E auth \in Connection!Auths : s4' = [s4 EXCEPT !.jumps[i].auth = auth]
      <4>1. PICK auth \in Connection!Auths : s4' = [s4 EXCEPT !.jumps[i].auth = auth]
        BY <3>2
      <4>2. /\ [j EXCEPT !.auth = auth] \in Connection!JumpHosts
            /\ [j EXCEPT !.auth = auth].hop = j.hop
        BY <2>2 DEF Connection!JumpHosts, Connection!Auths
      <4>3. /\ s4'.jumps = [s4.jumps EXCEPT ![i] = [j EXCEPT !.auth = auth]]
            /\ DOMAIN s4' = DOMAIN s4 /\ s4'.type = s4.type
        BY <1>0, <4>1
      <4> QED BY <4>2, <4>3
    <3>3. CASE s4' = [s4 EXCEPT !.jumps[i].typed = ~@]
      <4>1. /\ [j EXCEPT !.typed = ~j.typed] \in Connection!JumpHosts
            /\ [j EXCEPT !.typed = ~j.typed].hop = j.hop
        BY <2>2 DEF Connection!JumpHosts
      <4>2. /\ s4'.jumps = [s4.jumps EXCEPT ![i] = [j EXCEPT !.typed = ~j.typed]]
            /\ DOMAIN s4' = DOMAIN s4 /\ s4'.type = s4.type
        BY <1>0, <3>3
      <4> QED BY <4>1, <4>2
    <3>4. CASE s4' = [s4 EXCEPT !.jumps[i].key = ~@]
      <4>1. /\ [j EXCEPT !.key = ~j.key] \in Connection!JumpHosts
            /\ [j EXCEPT !.key = ~j.key].hop = j.hop
        BY <2>2 DEF Connection!JumpHosts
      <4>2. /\ s4'.jumps = [s4.jumps EXCEPT ![i] = [j EXCEPT !.key = ~j.key]]
            /\ DOMAIN s4' = DOMAIN s4 /\ s4'.type = s4.type
        BY <1>0, <3>4
      <4> QED BY <4>1, <4>2
    <3>5. CASE s4' = [s4 EXCEPT !.jumps[i].ref = ~@, !.jumps[i].typed = FALSE]
      <4> DEFINE q == [j EXCEPT !.ref = ~j.ref, !.typed = FALSE]
      <4>1. q \in Connection!JumpHosts /\ q.hop = j.hop
        BY <2>2 DEF Connection!JumpHosts
      <4>2. /\ s4'.jumps = [s4.jumps EXCEPT ![i] = q]
            /\ DOMAIN s4' = DOMAIN s4 /\ s4'.type = s4.type
        BY <1>0, <3>5
      <4> QED BY <4>1, <4>2
    <3> QED BY <2>1, <3>1, <3>2, <3>3, <3>4, <3>5
  <2>4. UNCHANGED <<s1, s2, s3, s5, s8>>
    BY <1>14 DEF Connection!JumpHostManualFields, Connection!PrivateKeyField, Connection!JumpHostSource
  <2>5. s4'.jumps \in Seq(Connection!JumpHosts) /\ Connection!NamedOnce(s4'.jumps)
    BY <1>0, <2>3, ChangedNamedOnce
  <2> QED BY <1>0, <2>3, <2>4, <2>5, FormKept
<1>15. CASE Connection!SubmitSave
  <2>1. PICK n : /\ \A s \in s8 : s.n # n
                 /\ s8' = s8 \cup {[n |-> n, form |-> s4, known |-> s5, at |-> "sent"]}
    BY <1>15 DEF Connection!SubmitSave
  <2> DEFINE s == [n |-> n, form |-> s4, known |-> s5, at |-> "sent"]
  <2>2. DOMAIN s = {"n", "form", "known", "at"} /\ s.n = n /\ s.form = s4 /\ s.known = s5
    OBVIOUS
  <2>3. UNCHANGED <<s1, s2, s3, s4, s5>>
    BY <1>15 DEF Connection!SubmitSave
  <2> HIDE DEF s
  <2>4. Connection!FormFits(s4, s5)
    BY DEF Connection!SecretInv, Connection!FormFits, Connection!TypeOK
  <2>5. s8' = s8 \cup {s}
    BY <2>1 DEF s
  <2> QED BY <1>0, <2>1, <2>2, <2>3, <2>4, <2>5
      DEF Connection!SecretInv, Connection!TypeOK, Connection!BuildInitialForm
<1>16. CASE Connection!StoreProfile
  <2>1. PICK s \in s8, at \in {"saved", "failed"} :
            /\ s8' = (s8 \ {s}) \cup {[s EXCEPT !.at = at]}
            /\ \/ UNCHANGED <<s2, s3>>
               \/ /\ s3' = Connection!StoredSecrets(s)
                  /\ s2' = Connection!Saved(TRUE, s.form.auth, Connection!SentJumps(s.form))
    BY <1>16 DEF Connection!StoreProfile
  <2>2. UNCHANGED <<s1, s4, s5>>
    BY <1>16 DEF Connection!StoreProfile
  <2> DEFINE q == [s EXCEPT !.at = at]
  <2>3. /\ DOMAIN q = {"n", "form", "known", "at"} /\ q.n = s.n /\ q.form = s.form
        /\ q.known = s.known
    BY DEF Connection!SecretInv, Connection!TypeOK
  <2>4. \A u \in s8' : u = q \/ (u \in s8 /\ u # s)
    BY <2>1
  <2> HIDE DEF q
  <2>5. /\ \A u \in s8' : /\ DOMAIN u = {"n", "form", "known", "at"}
                          /\ u.form.jumps \in Seq(Connection!JumpHosts) /\ u.known.jumps \subseteq Hops
                          /\ Connection!FormFits(u.form, u.known)
        /\ \A u, v \in s8' : u.n = v.n => u = v
    BY <2>3, <2>4 DEF Connection!SecretInv, Connection!TypeOK
  <2>6. Connection!SentJumps(s.form) \in Seq(Connection!JumpHosts)
    BY DEF Connection!SecretInv, Connection!TypeOK, Connection!SentJumps
  <2>7. s2'.jumps \in Seq(Connection!JumpHosts)
    BY <2>1, <2>6 DEF Connection!SecretInv, Connection!TypeOK, Connection!Saved
  <2>8. s3'.jumps \subseteq Connection!PasswordHops(s2'.jumps)
    <3>1. CASE UNCHANGED <<s2, s3>>
      BY <3>1 DEF Connection!SecretInv
    <3>2. CASE /\ s3' = Connection!StoredSecrets(s)
               /\ s2' = Connection!Saved(TRUE, s.form.auth, Connection!SentJumps(s.form))
      <4>1. s2'.jumps = Connection!SentJumps(s.form)
        BY <3>2 DEF Connection!Saved
      <4> SUFFICES ASSUME NEW h \in s3'.jumps
                   PROVE  h \in Connection!PasswordHops(Connection!SentJumps(s.form))
        BY <4>1
      <4>2. /\ h \in Connection!HopSecrets(s) /\ Connection!HopKept(s, h)
            /\ h \notin Connection!PasswordHops(s2.jumps)
                  \ Connection!PasswordHops(Connection!SentJumps(s.form))
        BY <3>2 DEF Connection!StoredSecrets
      <4>3. CASE h \in s3.jumps
        BY <4>2, <4>3 DEF Connection!SecretInv
      <4>4. CASE h \notin s3.jumps
        <5>1. PICK j \in Connection!Range(Connection!SentJumps(s.form)) : j.hop = h
          BY <4>2, <4>4 DEF Connection!HopSecrets
        <5>2. j \in Connection!JumpHosts
          BY <2>6, <5>1 DEF Connection!Range
        <5>3. j.auth = "password"
          BY <4>2, <5>1, <5>2 DEF Connection!HopKept, Connection!JumpHosts
        <5> QED BY <5>1, <5>3 DEF Connection!PasswordHops
      <4> QED BY <4>3, <4>4
    <3> QED BY <2>1, <3>1, <3>2
  <2>9. DOMAIN Connection!BuildInitialForm(s2)' = DOMAIN Connection!BuildInitialForm(s2)
    BY DEF Connection!BuildInitialForm
  <2> QED BY <2>2, <2>5, <2>7, <2>8, <2>9 DEF Connection!SecretInv, Connection!TypeOK,
      Connection!PasswordHops, Connection!Range
<1>17. CASE Connection!SaveAnswered
  <2>1. s8' \subseteq s8 /\ UNCHANGED <<s1, s2, s3>> /\ (UNCHANGED <<s4, s5>> \/ Connection!Close)
    BY <1>17 DEF Connection!SaveAnswered
  <2>2. CASE UNCHANGED <<s4, s5>>
    BY <2>1, <2>2 DEF Connection!SecretInv, Connection!TypeOK, Connection!BuildInitialForm,
       Connection!PasswordHops
  <2> QED BY <2>1, <2>2, FormClosed
<1>18. CASE Connection!SubmitConnect \/ Connection!CancelDialog
  BY <1>18, FormClosed DEF Connection!SubmitConnect, Connection!CancelDialog
<1>19. CASE Connection!HandleTestConnection \/ Connection!TestAnswered \/ UNCHANGED Connection!vars
  <2> UNCHANGED <<s1, s2, s3, s4, s5, s8>>
    BY <1>19 DEF Connection!HandleTestConnection, Connection!TestAnswered, Connection!vars
  <2> QED BY <1>0, FormKept
<1> QED BY <1>1, <1>2, <1>3, <1>4, <1>5, <1>6, <1>7, <1>8, <1>9, <1>10, <1>11, <1>12, <1>13,
    <1>14, <1>15, <1>16, <1>17, <1>18, <1>19 DEF Connection!Next

\* Only StoreProfile stores, and what it stores is what the form showed.
LEMMA StoresAsShown ==
    ASSUME Connection!SecretInv, [Connection!Next]_(Connection!vars) PROVE Connection!SecretsAsShown
<1> SUFFICES ASSUME NEW s \in s8, s.at = "sent", [s EXCEPT !.at = "saved"] \in s8'
             PROVE  /\ (Connection!SavedPasswordMasked(s.form, s.known) /\ s.known.target /\ s3.target)
                           => s3'.target
                    /\ \A j \in Connection!Range(s.form.jumps) :
                          (Connection!JumpMasked(s.form, s.known, j) /\ j.hop \in s3.jumps)
                             => j.hop \in s3'.jumps
                    /\ ~s.form.remember => ~s3'.target /\ s3'.jumps = {}
  BY DEF Connection!SecretsAsShown
<1> DEFINE done == [s EXCEPT !.at = "saved"]
<1>1. done.n = s.n /\ done.at = "saved" /\ done \notin s8
  <2>1. done.n = s.n /\ done.at = "saved"
    BY DEF Connection!SecretInv, Connection!TypeOK
  <2> HIDE DEF done
  <2> QED BY <2>1 DEF Connection!SecretInv
<1>2. ~(s8' \subseteq s8)
  BY <1>1
<1> USE DEF Connection!backendVars, Connection!Edited
<1>3. ~(\/ Connection!TargetLookedUp \/ Connection!TypedLookedUp \/ Connection!JumpsLookedUp
        \/ Connection!SudoLookedUp \/ Connection!ProfilesListed \/ Connection!ChooseType
        \/ Connection!SshFields \/ Connection!SerialFields \/ Connection!TerminalFields
        \/ Connection!PrivateKeyField \/ Connection!ChooseAuthMethod \/ Connection!TypePassword
        \/ Connection!RememberPassword \/ Connection!SudoFields)
  BY <1>2 DEF Connection!TargetLookedUp, Connection!TypedLookedUp, Connection!JumpsLookedUp,
     Connection!SudoLookedUp, Connection!ProfilesListed, Connection!ChooseType,
     Connection!SshFields, Connection!SerialFields, Connection!TerminalFields,
     Connection!PrivateKeyField, Connection!ChooseAuthMethod, Connection!TypePassword,
     Connection!RememberPassword, Connection!SudoFields, Connection!Required
<1>4. ~(\/ Connection!AddJumpHost \/ Connection!UseJumpHost \/ Connection!RemoveJumpHost
        \/ Connection!ClearJumpHosts \/ Connection!MoveJumpHost \/ Connection!JumpHostManualFields
        \/ Connection!JumpHostSource \/ Connection!SubmitConnect \/ Connection!SaveAnswered
        \/ Connection!CancelDialog \/ Connection!HandleTestConnection \/ Connection!TestAnswered
        \/ UNCHANGED Connection!vars)
  BY <1>2 DEF Connection!AddJumpHost, Connection!UseJumpHost, Connection!RemoveJumpHost,
     Connection!ClearJumpHosts, Connection!MoveJumpHost, Connection!JumpHostManualFields,
     Connection!JumpHostSource, Connection!SubmitConnect, Connection!SaveAnswered,
     Connection!CancelDialog, Connection!HandleTestConnection, Connection!TestAnswered,
     Connection!vars
<1>5. ~Connection!SubmitSave
  <2> SUFFICES ASSUME Connection!SubmitSave PROVE FALSE
    OBVIOUS
  <2>1. PICK n : s8' = s8 \cup {[n |-> n, form |-> s4, known |-> s5, at |-> "sent"]}
    BY DEF Connection!SubmitSave
  <2>2. done = [n |-> n, form |-> s4, known |-> s5, at |-> "sent"]
    BY <1>1, <2>1
  <2> QED BY <1>1, <2>2
<1>6. Connection!StoreProfile
  BY <1>3, <1>4, <1>5 DEF Connection!Next
<1>7. s3' = Connection!StoredSecrets(s)
  <2>1. PICK t \in s8 : /\ t.at = "sent"
                        /\ \/ /\ s3' = Connection!StoredSecrets(t)
                              /\ s8' = (s8 \ {t}) \cup {[t EXCEPT !.at = "saved"]}
                           \/ s8' = (s8 \ {t}) \cup {[t EXCEPT !.at = "failed"]}
    BY <1>6 DEF Connection!StoreProfile
  <2>2. /\ [t EXCEPT !.at = "saved"].n = t.n /\ [t EXCEPT !.at = "saved"].at = "saved"
        /\ [t EXCEPT !.at = "failed"].n = t.n /\ [t EXCEPT !.at = "failed"].at = "failed"
    BY DEF Connection!SecretInv, Connection!TypeOK
  <2>3. done # [t EXCEPT !.at = "failed"]
    BY <1>1, <2>2
  <2>4. s8' = (s8 \ {t}) \cup {[t EXCEPT !.at = "saved"]} /\ s3' = Connection!StoredSecrets(t)
    BY <1>1, <2>1, <2>3
  <2>5. done = [t EXCEPT !.at = "saved"]
    BY <1>1, <2>4
  <2>6. t.n = s.n
    BY <1>1, <2>2, <2>5
  <2>7. t = s
    BY <2>6 DEF Connection!SecretInv
  <2> QED BY <2>4, <2>7
<1> HIDE DEF done, Connection!Edited
<1>8. /\ s3'.target = Connection!TargetSecret(s)
      /\ s3'.jumps = {h \in Connection!HopSecrets(s) :
             /\ Connection!HopKept(s, h)
             /\ h \notin Connection!PasswordHops(s2.jumps)
                   \ Connection!PasswordHops(Connection!SentJumps(s.form))}
  BY <1>7 DEF Connection!StoredSecrets
<1>9. /\ s.known.target \/ s.known.jumps # {} => s.form.type = "ssh"
      /\ Connection!NamedOnce(s.form.jumps) /\ s.form.jumps \in Seq(Connection!JumpHosts)
      /\ s.known.jumps \subseteq Hops
  BY DEF Connection!SecretInv, Connection!TypeOK, Connection!FormFits
<1>10. (Connection!SavedPasswordMasked(s.form, s.known) /\ s.known.target /\ s3.target) => s3'.target
  BY <1>8, <1>9 DEF Connection!SavedPasswordMasked, Connection!TargetSecret, Connection!KeepsPassword
<1>11. ASSUME NEW j \in Connection!Range(s.form.jumps), Connection!JumpMasked(s.form, s.known, j),
              j.hop \in s3.jumps
       PROVE  j.hop \in s3'.jumps
  <2>1. /\ j.auth = "password" /\ j.hop \in s.known.jumps /\ s.form.remember
        /\ j.hop # Connection!Blank /\ Connection!SentJumps(s.form) = s.form.jumps
    BY <1>9, <1>11, HopsAssumption DEF Connection!JumpMasked, Connection!SentJumps, Connection!Blank
  <2>2. \A k \in Connection!Range(s.form.jumps) : k.hop = j.hop => k = j
    BY <1>9, <2>1 DEF Connection!NamedOnce, Connection!Range
  <2>3. Connection!HopKept(s, j.hop)
    BY <2>1, <2>2 DEF Connection!HopKept
  <2>4. j.hop \in Connection!HopSecrets(s)
    BY <1>11 DEF Connection!HopSecrets
  <2>5. j.hop \in Connection!PasswordHops(Connection!SentJumps(s.form))
    BY <2>1 DEF Connection!PasswordHops
  <2> QED BY <1>8, <2>3, <2>4, <2>5
<1>12. ASSUME ~s.form.remember PROVE ~s3'.target /\ s3'.jumps = {}
  <2>1. ~s3'.target
    BY <1>8, <1>12 DEF Connection!TargetSecret, Connection!KeepsPassword
  <2> SUFFICES ASSUME NEW h \in s3'.jumps PROVE FALSE
    BY <2>1
  <2>2. \A j \in Connection!Range(Connection!SentJumps(s.form)) : j.hop # h
    BY <1>8, <1>12 DEF Connection!HopKept
  <2>3. h \in s3.jumps
    BY <1>8, <2>2 DEF Connection!HopSecrets
  <2>4. h \in Connection!PasswordHops(s2.jumps)
    BY <2>3 DEF Connection!SecretInv
  <2>5. h \notin Connection!PasswordHops(Connection!SentJumps(s.form))
    BY <2>2 DEF Connection!PasswordHops
  <2> QED BY <1>8, <2>4, <2>5
<1> QED BY <1>10, <1>11, <1>12

-----------------------------------------------------------------------------
(* Tunnels: once restarted, no task runs an older rule.                    *)
Tunnel == INSTANCE Tunnels WITH MaxActs <- TunnelActs, saved <- s1, live <- s2,
    runs <- s3, events <- s4, title <- s5, panel <- s6, reloads <- s7, starts <- s8,
    flow <- s9, dialog <- s10, saves <- s11, confirming <- s12, restarted <- s13, acts <- s14

\* What the page remembers keeps its shape.
LEMMA TunnelPages ==
    ASSUME Tunnel!RestartInv, [Tunnel!Next]_(Tunnel!vars) PROVE Tunnel!PageTypeOK'
<1> USE DEF Tunnel!RestartInv, Tunnel!PageTypeOK, Tunnel!Form, Tunnel!Flow, Tunnel!None,
    Tunnel!backendVars, Tunnel!pageVars, Tunnel!Free, Tunnel!Reloads
<1>1. CASE Tunnel!TunnelMoves \/ Tunnel!StartUnattended \/ Tunnel!StartTunnel \/ Tunnel!TitleListens
           \/ Tunnel!TitleRead \/ Tunnel!TitleFetched \/ Tunnel!HandleToggle \/ Tunnel!SaveRestarts
           \/ UNCHANGED Tunnel!vars
  <2> UNCHANGED <<s6, s7, s9, s10, s12>>
    BY <1>1 DEF Tunnel!TunnelMoves, Tunnel!StartUnattended, Tunnel!StartTunnel,
       Tunnel!TitleListens, Tunnel!TitleRead, Tunnel!TitleFetched, Tunnel!HandleToggle,
       Tunnel!SaveRestarts, Tunnel!vars
  <2> QED OBVIOUS
<1>2. CASE Tunnel!EventArrives
  <2>1. UNCHANGED <<s7, s9, s10, s12>> /\ (s6' = s6 \/ \E f : s6' = [s6 EXCEPT !.statuses = f])
    BY <1>2 DEF Tunnel!EventArrives
  <2> QED BY <2>1
<1>3. CASE Tunnel!OpenPanel \/ Tunnel!SyncApplied \/ Tunnel!HandleResetTraffic \/ Tunnel!HandleDelete
  BY <1>3 DEF Tunnel!OpenPanel, Tunnel!SyncApplied, Tunnel!HandleResetTraffic, Tunnel!HandleDelete
<1>4. CASE Tunnel!ReloadReads
  <2>1. PICK r \in s7 : s7' = (s7 \ {r}) \cup
            {[r EXCEPT !.read = TRUE, !.statuses = Tunnel!Statuses, !.rules = {t \in Rules : s1[t] > 0}]}
    BY <1>4 DEF Tunnel!ReloadReads
  <2> DEFINE q == [r EXCEPT !.read = TRUE, !.statuses = Tunnel!Statuses,
                            !.rules = {t \in Rules : s1[t] > 0}]
  <2>2. DOMAIN q = {"for", "read", "rules", "statuses"} /\ q.rules \subseteq Rules
    OBVIOUS
  <2>3. UNCHANGED <<s6, s9, s10, s12>>
    BY <1>4 DEF Tunnel!ReloadReads
  <2> QED BY <2>1, <2>2, <2>3
<1>11. CASE Tunnel!ReloadAnswered
  BY <1>11 DEF Tunnel!ReloadAnswered
<1>5. CASE Tunnel!StartAnswered
  <2>1. PICK c \in s8 : /\ s9' = Tunnel!Flow(IF c.at = "needsCredentials" THEN c.t ELSE Tunnel!None)
                        /\ s10' = IF c.for # "card" THEN Tunnel!Form(Tunnel!None) ELSE s10
    BY <1>5 DEF Tunnel!StartAnswered
  <2>2. UNCHANGED <<s6, s7, s12>> /\ c.t \in Rules
    BY <1>5 DEF Tunnel!StartAnswered, Tunnel!RestartTypeOK
  <2> QED BY <2>1, <2>2
<1>6. CASE Tunnel!TypeCredentials \/ Tunnel!HandleCredentialsSubmit \/ Tunnel!CancelCredentials
  BY <1>6 DEF Tunnel!TypeCredentials, Tunnel!HandleCredentialsSubmit, Tunnel!CancelCredentials
<1>7. CASE Tunnel!OpenEdit \/ Tunnel!CloseDialog \/ Tunnel!UpdateForm
  BY <1>7 DEF Tunnel!OpenEdit, Tunnel!CloseDialog, Tunnel!UpdateForm
<1>8. CASE Tunnel!HandleSave
  BY <1>8 DEF Tunnel!HandleSave
<1>9. CASE Tunnel!SaveReloaded
  <2>1. PICK r \in s7 :
            /\ s7' = s7 \ {r}
            /\ s6' = s6 \/ s6' = [s6 EXCEPT !.rules = r.rules, !.statuses = r.statuses]
            /\ s10' = s10 \/ s10' = Tunnel!Form(Tunnel!None) \/ s10' = [s10 EXCEPT !.saving = FALSE]
            /\ UNCHANGED <<s9, s12>>
    BY <1>9 DEF Tunnel!SaveReloaded
  <2>2. DOMAIN s6' = {"on", "rules", "statuses"} /\ s6'.rules \subseteq Rules
    BY <2>1
  <2>3. DOMAIN s10' = {"t", "valid", "saving"} /\ s10'.t \in Rules \cup {"none"}
    BY <2>1
  <2> QED BY <2>1, <2>2, <2>3
<1>10. CASE Tunnel!DeleteAnswered
  BY <1>10 DEF Tunnel!DeleteAnswered
<1> QED BY <1>1, <1>2, <1>3, <1>4, <1>5, <1>6, <1>7, <1>8, <1>9, <1>10, <1>11 DEF Tunnel!Next

LEMMA TunnelRestarts == Tunnel!RestartInv /\ [Tunnel!Next]_(Tunnel!vars) => Tunnel!RestartInv'
<1> SUFFICES ASSUME Tunnel!RestartInv, [Tunnel!Next]_(Tunnel!vars) PROVE Tunnel!RestartInv'
  OBVIOUS
<1>0. Tunnel!PageTypeOK'
  BY TunnelPages
<1> USE RulesAssumption, <1>0
    DEF Tunnel!RestartInv, Tunnel!RestartTypeOK, Tunnel!OneSave, Tunnel!EditsReachTheTunnel,
    Tunnel!IsTunnelActive, Tunnel!backendVars, Tunnel!pageVars
<1>1. CASE UNCHANGED <<s1, s2, s3, s8, s11, s13>>
  BY <1>1
<1>2. CASE \/ Tunnel!TitleListens \/ Tunnel!TitleRead \/ Tunnel!TitleFetched \/ Tunnel!EventArrives
           \/ Tunnel!OpenPanel \/ Tunnel!SyncApplied \/ Tunnel!ReloadReads \/ Tunnel!ReloadAnswered
           \/ Tunnel!TypeCredentials \/ Tunnel!CancelCredentials \/ Tunnel!OpenEdit
           \/ Tunnel!UpdateForm \/ Tunnel!CloseDialog \/ Tunnel!HandleDelete
           \/ Tunnel!HandleResetTraffic \/ UNCHANGED Tunnel!vars
  <2> UNCHANGED <<s1, s2, s3, s8, s11, s13>>
    BY <1>2 DEF Tunnel!TitleListens, Tunnel!TitleRead, Tunnel!TitleFetched, Tunnel!EventArrives,
       Tunnel!OpenPanel, Tunnel!SyncApplied, Tunnel!ReloadReads, Tunnel!ReloadAnswered,
       Tunnel!TypeCredentials, Tunnel!CancelCredentials, Tunnel!OpenEdit, Tunnel!UpdateForm,
       Tunnel!CloseDialog, Tunnel!HandleDelete, Tunnel!HandleResetTraffic, Tunnel!vars
  <2> QED BY <1>1
<1>3. CASE Tunnel!TunnelMoves
  <2>1. PICK t \in Rules, state \in {"running", "reconnecting", "error"} :
            Tunnel!IsTunnelActive(s2[t]) /\ s2' = [s2 EXCEPT ![t] = state]
    BY <1>3 DEF Tunnel!TunnelMoves, Tunnel!SetState
  <2>2. UNCHANGED <<s1, s3, s8, s11, s13>>
    BY <1>3 DEF Tunnel!TunnelMoves
  <2> QED BY <2>1, <2>2
<1>4. CASE Tunnel!StartUnattended
  <2>1. PICK t \in Rules, state \in {"starting", "needsCredentials", "error"} :
            /\ s1[t] > 0 /\ s2' = [s2 EXCEPT ![t] = state] /\ s3' = [s3 EXCEPT ![t] = s1[t]]
    BY <1>4 DEF Tunnel!StartUnattended, Tunnel!SetState
  <2>2. UNCHANGED <<s1, s8, s11, s13>>
    BY <1>4 DEF Tunnel!StartUnattended
  <2> QED BY <2>1, <2>2
<1>5. CASE Tunnel!StartTunnel
  <2>1. PICK c \in s8, at \in {"started", "needsCredentials", "failed"} :
            /\ s8' = (s8 \ {c}) \cup {[c EXCEPT !.at = at]}
            /\ \/ UNCHANGED <<s2, s3>>
               \/ /\ s1[c.t] > 0 /\ s2' = [s2 EXCEPT ![c.t] = "starting"]
                  /\ s3' = [s3 EXCEPT ![c.t] = s1[c.t]]
    BY <1>5 DEF Tunnel!StartTunnel, Tunnel!SetState
  <2>2. UNCHANGED <<s1, s11, s13>>
    BY <1>5 DEF Tunnel!StartTunnel
  <2> DEFINE d == [c EXCEPT !.at = at]
  <2>3. d.t = c.t /\ d.for = c.for /\ DOMAIN d = {"t", "at", "for"} /\ c.t \in Rules
    OBVIOUS
  <2>4. \A x \in s8' : x = d \/ (x \in s8 /\ x # c)
    BY <2>1
  <2> HIDE DEF d
  <2>5. (\A x \in s8' : DOMAIN x = {"t", "at", "for"} /\ x.t \in Rules /\ x.for \in {"card", "save"})
    BY <2>3, <2>4
  <2>6. \A x, y \in s8' : (x.for = "save" /\ y.for = "save" /\ x.t = y.t) => x = y
    BY <2>3, <2>4
  <2>7. \A x \in s8' : x.for = "save" => \E s \in s11' : s.t = x.t /\ s.at = "start"
    BY <2>2, <2>3, <2>4
  <2>8. CASE UNCHANGED <<s2, s3>>
    BY <2>2, <2>5, <2>6, <2>7, <2>8
  <2>9. CASE /\ s1[c.t] > 0 /\ s2' = [s2 EXCEPT ![c.t] = "starting"]
             /\ s3' = [s3 EXCEPT ![c.t] = s1[c.t]]
    BY <2>2, <2>3, <2>5, <2>6, <2>7, <2>9
  <2> QED BY <2>1, <2>8, <2>9
<1>6. CASE Tunnel!HandleToggle
  <2>1. PICK t \in Rules : \/ s8' = s8 \cup {[t |-> t, at |-> "called", for |-> "card"]} /\ s2' = s2
                           \/ (s2' = s2 \/ s2' = [s2 EXCEPT ![t] = "stopped"]) /\ s8' = s8
    BY <1>6 DEF Tunnel!HandleToggle, Tunnel!Call, Tunnel!Stopped, Tunnel!SetState, Tunnel!PageTypeOK
  <2>2. UNCHANGED <<s1, s3, s11, s13>>
    BY <1>6 DEF Tunnel!HandleToggle
  <2> QED BY <2>1, <2>2
<1>7. CASE Tunnel!HandleCredentialsSubmit
  <2>1. /\ s9.t \in Rules /\ s8' = s8 \cup {[t |-> s9.t, at |-> "called", for |-> "card"]}
        /\ UNCHANGED <<s1, s2, s3, s11, s13>>
    BY <1>7 DEF Tunnel!HandleCredentialsSubmit, Tunnel!Call, Tunnel!PageTypeOK, Tunnel!None
  <2> QED BY <2>1
<1>8. CASE Tunnel!StartAnswered
  <2>1. UNCHANGED <<s1, s2, s3>>
    BY <1>8 DEF Tunnel!StartAnswered
  <2>2. PICK c \in s8 :
            /\ s8' = s8 \ {c}
            /\ \/ UNCHANGED <<s11, s13>>
               \/ /\ c.for = "save" /\ s11' = {s \in s11 : ~(s.t = c.t /\ s.at = "start")}
                  /\ s13' = IF c.at # "started" THEN s13
                        ELSE [s13 EXCEPT ![c.t] = CHOOSE v \in 0..MaxSaves :
                                 [t |-> c.t, rule |-> v, active |-> TRUE, at |-> "start"] \in s11]
    BY <1>8 DEF Tunnel!StartAnswered
  <2>3. CASE UNCHANGED <<s11, s13>>
    BY <2>1, <2>2, <2>3
  <2>4. CASE /\ c.for = "save" /\ s11' = {s \in s11 : ~(s.t = c.t /\ s.at = "start")}
             /\ s13' = IF c.at # "started" THEN s13
                   ELSE [s13 EXCEPT ![c.t] = CHOOSE v \in 0..MaxSaves :
                            [t |-> c.t, rule |-> v, active |-> TRUE, at |-> "start"] \in s11]
    <3>1. PICK s \in s11 : s.t = c.t /\ s.at = "start"
      BY <2>4
    <3> DEFINE This(v) == [t |-> c.t, rule |-> v, active |-> TRUE, at |-> "start"]
    <3>2. This(s.rule) = s /\ s.rule \in 0..MaxSaves
      BY <3>1
    <3>3. \A v \in 0..MaxSaves : This(v) \in s11 => v = s.rule
      <4> SUFFICES ASSUME NEW v \in 0..MaxSaves, This(v) \in s11 PROVE v = s.rule
        OBVIOUS
      <4>1. This(v).t = s.t /\ This(v).rule = v
        BY <3>1
      <4>2. This(v) = s
        BY <4>1
      <4> QED BY <4>1, <4>2
    <3>4. (CHOOSE v \in 0..MaxSaves : This(v) \in s11) = s.rule
      <4> HIDE DEF This
      <4>1. \E v \in 0..MaxSaves : This(v) \in s11
        BY <3>2
      <4> QED BY <3>3, <4>1
    <3>5. s13' = s13 \/ s13' = [s13 EXCEPT ![s.t] = s.rule]
      BY <2>4, <3>1, <3>4
    <3>6. \A x \in s8' : x \in s8 /\ (x.for = "save" => x.t # c.t)
      BY <2>2, <2>4
    <3>7. \A u \in s11' : u \in s11
      BY <2>4
    <3>8. \A u \in s11 : u.t # c.t => u \in s11'
      BY <2>4
    <3>9. Tunnel!OneSave'
      BY <2>1, <3>6, <3>7, <3>8
    <3>10. Tunnel!RestartTypeOK'
      BY <2>1, <3>1, <3>2, <3>5, <3>6, <3>7
    <3> HIDE DEF Tunnel!OneSave, Tunnel!RestartTypeOK
    <3>11. \A u \in s11' : (u.at = "start" /\ Tunnel!IsTunnelActive(s2'[u.t])) => s3'[u.t] >= u.rule
      BY <2>1, <3>7
    <3>12. \A t \in Rules : /\ s1'[t] = 0 => ~Tunnel!IsTunnelActive(s2'[t])
                            /\ s1'[t] # 0 => s13'[t] <= s1'[t]
      <4> USE DEF Tunnel!OneSave, Tunnel!RestartTypeOK
      <4> QED BY <2>1, <3>1, <3>2, <3>5
    <3>13. Tunnel!EditsReachTheTunnel'
      <4> USE DEF Tunnel!OneSave, Tunnel!RestartTypeOK
      <4> QED BY <2>1, <3>1, <3>2, <3>5
    <3> QED BY <3>9, <3>10, <3>11, <3>12, <3>13
  <2> QED BY <2>2, <2>3, <2>4
<1>9. CASE Tunnel!HandleSave
  <2> DEFINE t == s10.t
             n == [t |-> t, rule |-> s1[t] + 1, at |-> "reload",
                   active |-> Tunnel!IsTunnelActive(Tunnel!Shown(t))]
  <2>1. /\ t \in Rules /\ s1[t] \in 1..MaxSaves - 1 /\ \A s \in s11 : s.t # t
        /\ s1' = [s1 EXCEPT ![t] = @ + 1] /\ s11' = s11 \cup {n}
        /\ UNCHANGED <<s2, s3, s8, s13>>
    BY <1>9 DEF Tunnel!HandleSave, Tunnel!PageTypeOK, Tunnel!None
  <2>2. n.t = t /\ n.rule = s1[t] + 1 /\ n.at = "reload"
    OBVIOUS
  <2>3. n \in [t : Rules, rule : 1..MaxSaves, at : {"reload", "stop", "start"}, active : BOOLEAN]
    BY <2>1
  <2> HIDE DEF n, t
  <2> QED BY <2>1, <2>2, <2>3
<1>10. CASE Tunnel!SaveReloaded
  <2>1. PICK s \in s11 : /\ s.at = "reload"
                         /\ \/ s11' = s11 \ {s}
                            \/ s.active /\ s11' = (s11 \ {s}) \cup {[s EXCEPT !.at = "stop"]}
    BY <1>10 DEF Tunnel!SaveReloaded
  <2>2. UNCHANGED <<s1, s2, s3, s8, s13>>
    BY <1>10 DEF Tunnel!SaveReloaded
  <2> DEFINE q == [s EXCEPT !.at = "stop"]
  <2>3. /\ q \in [t : Rules, rule : 1..MaxSaves, at : {"reload", "stop", "start"}, active : BOOLEAN]
        /\ q.t = s.t /\ q.rule = s.rule /\ q.at = "stop" /\ q.active = s.active
    OBVIOUS
  <2>4. \A u \in s11' : (u \in s11 /\ u # s) \/ (u = q /\ s.active)
    BY <2>1
  <2> HIDE DEF q
  <2>5. \A u \in s11 : u # s => u \in s11'
    BY <2>1
  <2> QED BY <2>1, <2>2, <2>3, <2>4, <2>5
<1>11. CASE Tunnel!SaveRestarts
  <2>1. PICK s \in s11 : /\ s.at = "stop" /\ Tunnel!Stopped(s.t)
                         /\ s11' = (s11 \ {s}) \cup {[s EXCEPT !.at = "start"]}
                         /\ s8' = s8 \cup {[t |-> s.t, at |-> "called", for |-> "save"]}
    BY <1>11 DEF Tunnel!SaveRestarts
  <2>2. UNCHANGED <<s1, s3, s13>>
    BY <1>11 DEF Tunnel!SaveRestarts
  <2>3. \/ s2' = s2 /\ ~Tunnel!IsTunnelActive(s2[s.t])
        \/ s2' = [s2 EXCEPT ![s.t] = "stopped"]
    BY <2>1 DEF Tunnel!Stopped, Tunnel!SetState
  <2> DEFINE q == [s EXCEPT !.at = "start"]
             c == [t |-> s.t, at |-> "called", for |-> "save"]
  <2>4. /\ q \in [t : Rules, rule : 1..MaxSaves, at : {"reload", "stop", "start"}, active : BOOLEAN]
        /\ q.t = s.t /\ q.rule = s.rule /\ q.at = "start" /\ q.active = s.active
    OBVIOUS
  <2>5. c.t = s.t /\ c.for = "save" /\ DOMAIN c = {"t", "at", "for"}
    OBVIOUS
  <2> HIDE DEF q, c
  <2>6. \A u \in s11' : (u \in s11 /\ u # s) \/ u = q
    BY <2>1 DEF q
  <2>7. \A u \in s11 : u # s => u \in s11'
    BY <2>1
  <2>8. \A x \in s8' : x \in s8 \/ x = c
    BY <2>1 DEF c
  <2>9. \A x \in s8 : x.for = "save" => x.t # s.t
    BY <2>1
  <2>10. q \in s11'
    BY <2>1 DEF q
  <2>11. /\ Tunnel!RestartTypeOK'
         /\ s2'[s.t] = "stopped" \/ ~Tunnel!IsTunnelActive(s2'[s.t])
         /\ \A t \in Rules : s2'[t] = s2[t] \/ ~Tunnel!IsTunnelActive(s2'[t])
    BY <2>2, <2>3, <2>4, <2>5, <2>6, <2>8
  <2>12. Tunnel!OneSave'
    BY <2>1, <2>2, <2>4, <2>5, <2>6, <2>7, <2>8, <2>9, <2>10
  <2> HIDE DEF Tunnel!OneSave
  <2> QED BY <2>2, <2>4, <2>6, <2>11, <2>12
<1>12. CASE Tunnel!DeleteAnswered
  <2>1. /\ UNCHANGED <<s3, s8, s11, s13>>
        /\ \/ UNCHANGED <<s1, s2>>
           \/ /\ s12 \in Rules /\ s1' = [s1 EXCEPT ![s12] = 0]
              /\ \/ s2' = s2 /\ ~Tunnel!IsTunnelActive(s2[s12])
                 \/ s2' = [s2 EXCEPT ![s12] = "stopped"]
    BY <1>12 DEF Tunnel!DeleteAnswered, Tunnel!Stopped, Tunnel!SetState, Tunnel!PageTypeOK, Tunnel!None
  <2> QED BY <2>1
<1> QED BY <1>2, <1>3, <1>4, <1>5, <1>6, <1>7, <1>8, <1>9, <1>10, <1>11, <1>12 DEF Tunnel!Next

-----------------------------------------------------------------------------
(* Tunnels: the title counts those that run.                               *)
\* A change of a tunnel's state, reported.
LEMMA StateReported ==
    ASSUME Tunnel!CountInv, NEW t \in Rules, NEW state \in Tunnel!States, Tunnel!SetState(t, state), s5' = s5
    PROVE  Tunnel!CountInv'
<1> DEFINE n == Len(s4)
           e == [t |-> t, state |-> state]
<1>0. /\ n \in Nat /\ Len(s4') = n + 1 /\ s4'[n + 1] = e /\ s4' \in Seq(Tunnel!Reports)
      /\ \A i \in 1..n : s4'[i] = s4[i] /\ s4[i].t \in Rules
      /\ DOMAIN s2' = Rules /\ s2'[t] = state /\ \A u \in Rules : u # t => s2'[u] = s2[u]
  <2>1. s4 \in Seq(Tunnel!Reports) /\ DOMAIN s2 = Rules
    BY DEF Tunnel!CountInv, Tunnel!CountTypeOK
  <2>2. s4' = Append(s4, e) /\ s2' = [s2 EXCEPT ![t] = state]
    BY DEF Tunnel!SetState
  <2>3. e \in Tunnel!Reports
    BY DEF Tunnel!Reports
  <2>4. \A i \in 1..n : s4[i].t \in Rules
    <3>1. \A i \in 1..n : s4[i] \in Tunnel!Reports
      BY <2>1
    <3> QED BY <3>1 DEF Tunnel!Reports
  <2>5. /\ s4' \in Seq(Tunnel!Reports) /\ Len(s4') = n + 1 /\ s4'[n + 1] = e
        /\ \A i \in 1..n : s4'[i] = s4[i]
    BY <2>1, <2>2, <2>3
  <2>6. DOMAIN s2' = Rules /\ s2'[t] = state /\ \A u \in Rules : u # t => s2'[u] = s2[u]
    BY <2>1, <2>2
  <2> QED BY <2>1, <2>4, <2>5, <2>6
<1>1. Tunnel!CountTypeOK'
  BY <1>0 DEF Tunnel!CountInv, Tunnel!CountTypeOK
<1>2. ASSUME NEW i \in 1..Len(s4'), Tunnel!IsLast(i)' PROVE s4'[i].state = s2'[s4'[i].t]
  <2>1. CASE i = n + 1
    BY <2>1, <1>0
  <2>2. CASE i \in 1..n
    <3>1. s4[i].t # t
      BY <1>2, <2>2, <1>0 DEF Tunnel!IsLast
    <3>2. Tunnel!IsLast(i)
      BY <1>2, <2>2, <1>0 DEF Tunnel!IsLast
    <3> QED BY <3>1, <3>2, <2>2, <1>0 DEF Tunnel!CountInv
  <2> QED BY <2>1, <2>2, <1>0
<1>3. \A u \in Rules : ~Tunnel!Reported(u)' => u # t /\ ~Tunnel!Reported(u)
  BY <1>0 DEF Tunnel!Reported
<1>4. \A u \in Rules : Tunnel!FetchSays(u)' <=> Tunnel!FetchSays(u)
  BY DEF Tunnel!FetchSays
<1> QED BY <1>0, <1>1, <1>2, <1>3, <1>4 DEF Tunnel!CountInv

\* An event reaches the title.
LEMMA ReportCounted == ASSUME Tunnel!CountInv, Tunnel!EventArrives PROVE Tunnel!CountInv'
<1> DEFINE n == Len(s4)
           e == Head(s4)
<1>0. /\ n \in Nat \ {0} /\ Len(s4') = n - 1 /\ s4' \in Seq(Tunnel!Reports)
      /\ e = s4[1] /\ e.t \in Rules /\ \A i \in 1..(n - 1) : s4'[i] = s4[i + 1] /\ i + 1 \in 1..n
      /\ s2' = s2
      /\ s5' = IF s5.stage = "off" THEN s5
               ELSE [s5 EXCEPT !.seen = @ \cup {e.t}, !.running = Tunnel!Counted(@, e.t, e.state)]
  <2>1. s4 \in Seq(Tunnel!Reports)
    BY DEF Tunnel!CountInv, Tunnel!CountTypeOK
  <2>2. /\ s4 # <<>> /\ s4' = Tail(s4) /\ s2' = s2
        /\ s5' = IF s5.stage = "off" THEN s5
                 ELSE [s5 EXCEPT !.seen = @ \cup {e.t}, !.running = Tunnel!Counted(@, e.t, e.state)]
    BY DEF Tunnel!EventArrives
  <2>3. n \in Nat \ {0} /\ e = s4[1] /\ e \in Tunnel!Reports
    BY <2>1, <2>2
  <2>4. /\ Len(s4') = n - 1 /\ s4' \in Seq(Tunnel!Reports)
        /\ \A i \in 1..(n - 1) : s4'[i] = s4[i + 1] /\ i + 1 \in 1..n
    BY <2>1, <2>2
  <2>5. e.t \in Rules
    BY <2>3 DEF Tunnel!Reports
  <2> QED BY <2>2, <2>3, <2>4, <2>5
<1>1. /\ DOMAIN s5' = {"stage", "running", "seen", "answer"}
      /\ s5'.stage = s5.stage /\ s5'.answer = s5.answer
      /\ s5.stage = "off" => s5' = s5
      /\ s5.stage # "off" => /\ s5'.seen = s5.seen \cup {e.t}
                             /\ s5'.running = Tunnel!Counted(s5.running, e.t, e.state)
  BY <1>0 DEF Tunnel!CountInv, Tunnel!CountTypeOK
<1>2. Tunnel!CountTypeOK'
  BY <1>0, <1>1 DEF Tunnel!CountInv, Tunnel!CountTypeOK, Tunnel!Counted
<1>3. ASSUME NEW i \in 1..Len(s4'), Tunnel!IsLast(i)' PROVE s4'[i].state = s2'[s4'[i].t]
  <2>1. \A j \in (i + 2)..n : j - 1 \in (i + 1)..Len(s4') /\ s4'[j - 1] = s4[j]
    BY <1>0
  <2>2. Tunnel!IsLast(i + 1)
    BY <1>3, <2>1, <1>0 DEF Tunnel!IsLast
  <2> QED BY <2>2, <1>0 DEF Tunnel!CountInv
<1>4. ASSUME NEW u \in Rules, ~Tunnel!Reported(u)', u # e.t PROVE ~Tunnel!Reported(u)
  <2>1. ASSUME NEW i \in 1..n, s4[i].t = u PROVE FALSE
    <3>1. i - 1 \in 1..Len(s4') /\ s4'[i - 1] = s4[i]
      BY <1>0, <1>4, <2>1
    <3> QED BY <3>1, <2>1, <1>4 DEF Tunnel!Reported
  <2> QED BY <2>1 DEF Tunnel!Reported
<1>5. ASSUME NEW u \in Rules, u = e.t, ~Tunnel!Reported(u)' PROVE e.state = s2[u]
  <2>1. \A j \in 2..n : j - 1 \in 1..Len(s4') /\ s4'[j - 1] = s4[j]
    BY <1>0
  <2>2. Tunnel!IsLast(1)
    <3>1. \A i \in 1..Len(s4') : s4'[i].t # u
      BY <1>5 DEF Tunnel!Reported
    <3>2. s4[1].t = u /\ 1 + 1 = 2
      BY <1>5, <1>0
    <3> QED BY <3>1, <3>2, <2>1 DEF Tunnel!IsLast
  <2>3. 1 \in 1..n
    BY <1>0
  <2>4. s4[1].state = s2[s4[1].t]
    BY <2>2, <2>3 DEF Tunnel!CountInv
  <2> QED BY <2>4, <1>0, <1>5
<1>6. \A u \in Rules : Tunnel!FetchSays(u)' <=> Tunnel!FetchSays(u)
  BY <1>1 DEF Tunnel!FetchSays
<1>7. ASSUME NEW u \in Rules, ~Tunnel!Reported(u)'
      PROVE  /\ s5'.stage = "on" \/ (s5'.stage \in {"asking", "answering"} /\ u \in s5'.seen)
                    => (u \in s5'.running <=> s2'[u] = "running")
             /\ s5'.stage = "answering" /\ u \notin s5'.seen => (Tunnel!FetchSays(u)' <=> s2'[u] = "running")
  <2>1. CASE u = e.t
    <3>1. e.state = s2[u] /\ s2' = s2
      BY <2>1, <1>7, <1>0, <1>5
    <3>2. CASE s5.stage = "off"
      BY <3>2, <1>1
    <3>3. CASE s5.stage # "off"
      <4>1. u \in s5'.seen /\ (u \in s5'.running <=> e.state = "running")
        BY <3>3, <2>1, <1>1 DEF Tunnel!Counted
      <4> QED BY <4>1, <3>1
    <3> QED BY <3>2, <3>3
  <2>2. CASE u # e.t
    BY <2>2, <1>7, <1>0, <1>1, <1>4, <1>6 DEF Tunnel!CountInv, Tunnel!Counted
  <2> QED BY <2>1, <2>2
<1> QED BY <1>2, <1>3, <1>7 DEF Tunnel!CountInv

\* The title listens, then fetches: what it has seen since stays.
LEMMA TitleKeeps ==
    ASSUME Tunnel!RestartInv, Tunnel!CountInv,
           Tunnel!TitleListens \/ Tunnel!TitleRead \/ Tunnel!TitleFetched
    PROVE  Tunnel!CountInv'
<1>0. UNCHANGED <<s2, s4>> /\ DOMAIN s2 = Rules
  BY DEF Tunnel!TitleListens, Tunnel!TitleRead, Tunnel!TitleFetched, Tunnel!backendVars,
     Tunnel!CountInv, Tunnel!CountTypeOK
<1>1. \A t \in Rules : Tunnel!Reported(t)' <=> Tunnel!Reported(t)
  BY <1>0 DEF Tunnel!Reported
<1>2. \A i \in 1..Len(s4') : Tunnel!IsLast(i)' => s4'[i].state = s2'[s4'[i].t]
  BY <1>0 DEF Tunnel!CountInv, Tunnel!IsLast
<1>3. CASE Tunnel!TitleListens
  <2>1. s5' = [s5 EXCEPT !.stage = "asking"] /\ s5.seen = {}
    BY <1>3 DEF Tunnel!TitleListens, Tunnel!CountInv, Tunnel!CountTypeOK
  <2>2. Tunnel!CountTypeOK' /\ s5'.stage = "asking" /\ s5'.seen = {}
    BY <2>1, <1>0 DEF Tunnel!CountInv, Tunnel!CountTypeOK
  <2> QED BY <2>2, <1>2 DEF Tunnel!CountInv
<1>4. CASE Tunnel!TitleRead
  <2>1. s5' = [s5 EXCEPT !.stage = "answering", !.answer = Tunnel!Statuses] /\ s5.stage = "asking"
    BY <1>4 DEF Tunnel!TitleRead
  <2>2. /\ DOMAIN s5' = {"stage", "running", "seen", "answer"} /\ s5'.stage = "answering"
        /\ s5'.answer = Tunnel!Statuses /\ s5'.running = s5.running /\ s5'.seen = s5.seen
    BY <2>1 DEF Tunnel!CountInv, Tunnel!CountTypeOK
  <2>3. Tunnel!CountTypeOK'
    BY <2>2, <1>0 DEF Tunnel!CountInv, Tunnel!CountTypeOK, Tunnel!Statuses
  <2>4. \A t \in Rules : Tunnel!FetchSays(t)' <=> s2[t] = "running"
    <3>1. \A t \in Rules : s2[t] = "running" => s1[t] > 0
      <4>1. \A t \in Rules : s1[t] \in Nat
        BY RulesAssumption DEF Tunnel!RestartInv, Tunnel!RestartTypeOK
      <4>2. \A t \in Rules : s1[t] = 0 => s2[t] # "running"
        BY DEF Tunnel!RestartInv, Tunnel!IsTunnelActive
      <4> QED BY <4>1, <4>2
    <3> QED BY <2>2, <3>1 DEF Tunnel!FetchSays, Tunnel!Statuses
  <2> QED BY <2>1, <2>2, <2>3, <2>4, <1>0, <1>1, <1>2 DEF Tunnel!CountInv
<1>5. CASE Tunnel!TitleFetched
  <2>0. s5.stage = "answering"
    BY <1>5 DEF Tunnel!TitleFetched
  <2>1. CASE s5' = [s5 EXCEPT !.stage = "on", !.answer = <<>>,
              !.running = (s5.running \cap s5.seen)
                  \cup {t \in DOMAIN s5.answer \ s5.seen : s5.answer[t] = "running"}]
    <3>1. /\ DOMAIN s5' = {"stage", "running", "seen", "answer"} /\ s5'.stage = "on"
          /\ s5'.seen = s5.seen /\ s5'.running = (s5.running \cap s5.seen)
                  \cup {t \in DOMAIN s5.answer \ s5.seen : s5.answer[t] = "running"}
      BY <2>1 DEF Tunnel!CountInv, Tunnel!CountTypeOK
    <3>2. Tunnel!CountTypeOK'
      BY <3>1, <2>0, <1>0 DEF Tunnel!CountInv, Tunnel!CountTypeOK
    <3>3. \A t \in Rules : t \in s5'.running <=>
              IF t \in s5.seen THEN t \in s5.running ELSE Tunnel!FetchSays(t)
      BY <3>1 DEF Tunnel!FetchSays
    <3> QED BY <3>1, <3>2, <3>3, <2>0, <1>0, <1>1, <1>2 DEF Tunnel!CountInv
  <2>2. CASE s5' = [s5 EXCEPT !.stage = "failed", !.answer = <<>>]
    <3>1. Tunnel!CountTypeOK' /\ s5'.stage = "failed"
      BY <2>2, <1>0 DEF Tunnel!CountInv, Tunnel!CountTypeOK
    <3> QED BY <3>1, <1>2 DEF Tunnel!CountInv
  <2> QED BY <1>5, <2>1, <2>2 DEF Tunnel!TitleFetched
<1> QED BY <1>3, <1>4, <1>5

LEMMA TunnelCounts ==
    ASSUME Tunnel!RestartInv, Tunnel!CountInv, [Tunnel!Next]_(Tunnel!vars)
    PROVE  Tunnel!CountInv'
<1> USE DEF Tunnel!backendVars, Tunnel!pageVars, Tunnel!Stopped, Tunnel!States
<1>1. ASSUME UNCHANGED <<s2, s4, s5>> PROVE Tunnel!CountInv'
  BY <1>1 DEF Tunnel!CountInv, Tunnel!CountTypeOK, Tunnel!IsLast, Tunnel!Reported, Tunnel!FetchSays
<1>2. ASSUME s5' = s5, \E t \in Rules, state \in Tunnel!States : Tunnel!SetState(t, state) PROVE Tunnel!CountInv'
  BY <1>2, StateReported
<1>3. CASE Tunnel!TunnelMoves \/ Tunnel!StartUnattended
  BY <1>2, <1>3 DEF Tunnel!TunnelMoves, Tunnel!StartUnattended
<1>4. CASE Tunnel!StartTunnel
  <2>1. s5' = s5 /\ \E c \in s8 : Tunnel!SetState(c.t, "starting") \/ UNCHANGED <<s2, s4>>
    BY <1>4 DEF Tunnel!StartTunnel
  <2>2. \A c \in s8 : c.t \in Rules
    BY DEF Tunnel!RestartInv, Tunnel!RestartTypeOK
  <2> QED BY <2>1, <2>2, <1>1, <1>2
<1>5. CASE Tunnel!TitleListens \/ Tunnel!TitleRead \/ Tunnel!TitleFetched
  BY <1>5, TitleKeeps
<1>6. CASE Tunnel!EventArrives
  BY <1>6, ReportCounted
<1>7. CASE Tunnel!HandleToggle
  <2>1. s5' = s5 /\ \E t \in s6.rules : Tunnel!SetState(t, "stopped") \/ UNCHANGED <<s2, s4>>
    BY <1>7 DEF Tunnel!HandleToggle
  <2>2. s6.rules \subseteq Rules
    BY DEF Tunnel!RestartInv, Tunnel!PageTypeOK
  <2> QED BY <2>1, <2>2, <1>1, <1>2
<1>8. CASE Tunnel!SaveRestarts
  <2>1. s5' = s5 /\ \E s \in s11 : Tunnel!SetState(s.t, "stopped") \/ UNCHANGED <<s2, s4>>
    BY <1>8 DEF Tunnel!SaveRestarts
  <2>2. \A s \in s11 : s.t \in Rules
    BY DEF Tunnel!RestartInv, Tunnel!RestartTypeOK
  <2> QED BY <2>1, <2>2, <1>1, <1>2
<1>9. CASE Tunnel!DeleteAnswered
  <2>1. s5' = s5 /\ (Tunnel!SetState(s12, "stopped") \/ UNCHANGED <<s2, s4>>) /\ s12 \in Rules
    BY <1>9 DEF Tunnel!DeleteAnswered, Tunnel!RestartInv, Tunnel!PageTypeOK
  <2> QED BY <2>1, <1>1, <1>2
<1>10. CASE \/ Tunnel!OpenPanel \/ Tunnel!SyncApplied \/ Tunnel!ReloadReads \/ Tunnel!ReloadAnswered
            \/ Tunnel!StartAnswered \/ Tunnel!TypeCredentials \/ Tunnel!HandleCredentialsSubmit
            \/ Tunnel!CancelCredentials \/ Tunnel!OpenEdit \/ Tunnel!UpdateForm \/ Tunnel!CloseDialog
            \/ Tunnel!HandleSave \/ Tunnel!SaveReloaded \/ Tunnel!HandleDelete
            \/ Tunnel!HandleResetTraffic \/ UNCHANGED Tunnel!vars
  <2>1. UNCHANGED <<s2, s4, s5>>
    BY <1>10 DEF Tunnel!OpenPanel, Tunnel!SyncApplied, Tunnel!ReloadReads, Tunnel!ReloadAnswered,
       Tunnel!StartAnswered, Tunnel!TypeCredentials, Tunnel!HandleCredentialsSubmit,
       Tunnel!CancelCredentials, Tunnel!OpenEdit, Tunnel!UpdateForm, Tunnel!CloseDialog,
       Tunnel!HandleSave, Tunnel!SaveReloaded, Tunnel!HandleDelete, Tunnel!HandleResetTraffic,
       Tunnel!vars
  <2> QED BY <2>1, <1>1
<1> QED BY <1>3, <1>4, <1>5, <1>6, <1>7, <1>8, <1>9, <1>10 DEF Tunnel!Next

LEMMA TunnelsCounted == ASSUME Tunnel!CountInv PROVE Tunnel!CountSettles
<1> SUFFICES ASSUME s4 = <<>>, s5.stage = "on" PROVE s5.running = {t \in Rules : s2[t] = "running"}
  BY DEF Tunnel!CountSettles
<1>1. \A t \in Rules : ~Tunnel!Reported(t)
  BY DEF Tunnel!Reported
<1>2. \A t \in Rules : t \in s5.running <=> s2[t] = "running"
  BY <1>1 DEF Tunnel!CountInv
<1> QED BY <1>2 DEF Tunnel!CountInv, Tunnel!CountTypeOK

LEMMA CountStarts == ASSUME Tunnel!Init PROVE Tunnel!CountInv
BY DEF Tunnel!Init, Tunnel!CountInv, Tunnel!CountTypeOK, Tunnel!IsLast, Tunnel!Reported

-----------------------------------------------------------------------------
(* Backups: what is selected is listed.                                    *)
Backup == INSTANCE Backups WITH Names <- BackupNames, Files <- BackupFiles,
    MaxActs <- BackupActs, page <- s1, panel <- s2, automatic <- s3, history <- s4, calls <- s5,
    onServer <- s6, stored <- s7, disk <- s8, deleted <- s9, acts <- s10

\* The panel's busy flag, form and account change without its rows.
LEMMA PanelKeepsRows ==
    ASSUME Backup!TickedInv, DOMAIN s2' = DOMAIN s2, s2'.selected = s2.selected, s2'.list = s2.list,
           s9' = s9
    PROVE  Backup!TickedInv'
BY DEF Backup!TickedInv, Backup!SelectedIsListed, Backup!DeletesWhatIsTicked

LEMMA BackupsTick == Backup!TickedInv /\ [Backup!Next]_(Backup!vars) => Backup!TickedInv'
<1> SUFFICES ASSUME Backup!TickedInv, [Backup!Next]_(Backup!vars) PROVE Backup!TickedInv'
  OBVIOUS
<1> DEFINE Same == UNCHANGED <<s2, s9>>
           Rest == /\ DOMAIN s2' = DOMAIN s2 /\ s2'.selected = s2.selected /\ s2'.list = s2.list
                   /\ s9' = s9
<1>0. DOMAIN s2 = {"loaded", "url", "edited", "mismatch", "busy", "list", "listed", "failed", "selected"}
  BY DEF Backup!TickedInv, Backup!SelectedIsListed, Backup!Panel0
<1>1. Same \/ Rest => Backup!TickedInv'
  BY PanelKeepsRows
<1>2. s9' = s9 /\ s2' = Backup!Panel0 => Backup!TickedInv'
  BY DEF Backup!TickedInv, Backup!SelectedIsListed, Backup!DeletesWhatIsTicked, Backup!Panel0
<1>3. CASE (\E v \in Backup!Views : Backup!ShowView(v)) \/ Backup!LeavePage
  BY <1>2, <1>3 DEF Backup!ShowView, Backup!LeavePage
<1>4. CASE \/ Backup!RefreshBackupManagement \/ Backup!UpdateSelection \/ Backup!HandleExport
           \/ Backup!HandleChooseImport \/ Backup!HandleVerifyPassword \/ Backup!Inspected
           \/ Backup!HandleImport \/ Backup!Imported \/ Backup!HandleChooseAutomaticDirectory
           \/ Backup!HandleSaveAutomaticSettings \/ Backup!HandleBackupNow
           \/ Backup!HandleDeleteHistory \/ Backup!PageAnswered \/ Backup!OpenForImport
           \/ Backup!ListRead \/ UNCHANGED Backup!vars
  <2> Same
    BY <1>4 DEF Backup!RefreshBackupManagement, Backup!UpdateSelection, Backup!HandleExport,
       Backup!HandleChooseImport, Backup!HandleVerifyPassword, Backup!Inspected,
       Backup!HandleImport, Backup!Imported, Backup!HandleChooseAutomaticDirectory,
       Backup!HandleSaveAutomaticSettings, Backup!HandleBackupNow, Backup!HandleDeleteHistory,
       Backup!PageAnswered, Backup!OpenForImport, Backup!ListRead, Backup!PanelUnchanged, Backup!vars
  <2> QED BY <1>1
<1>5. CASE \/ Backup!LoadRemoteBackups \/ Backup!Update \/ Backup!UpdateOptions \/ Backup!HandleSave
           \/ Backup!HandleUnlock \/ Backup!HandleTest \/ Backup!HandleUpload \/ Backup!HandleRestore
           \/ Backup!HandleDownload \/ Backup!HandleDelete \/ Backup!HandleClear
  <2> Rest
    BY <1>0, <1>5 DEF Backup!LoadRemoteBackups, Backup!Update, Backup!UpdateOptions,
       Backup!HandleSave, Backup!HandleUnlock, Backup!HandleTest, Backup!HandleUpload,
       Backup!HandleRestore, Backup!HandleDownload, Backup!HandleDelete, Backup!HandleClear,
       Backup!Works, Backup!PanelUnchanged
  <2> QED BY <1>1
<1>6. CASE Backup!StatusLoaded \/ Backup!Saved \/ Backup!Uploaded \/ Backup!PanelAnswered
  <2> Same \/ Rest
    BY <1>0, <1>6 DEF Backup!StatusLoaded, Backup!Saved, Backup!Uploaded, Backup!PanelAnswered,
       Backup!PanelUnchanged
  <2> QED BY <1>1
<1>7. CASE Backup!Downloaded
  <2> Same \/ Rest \/ (s9' = s9 /\ s2' = Backup!Panel0)
    BY <1>0, <1>7 DEF Backup!Downloaded
  <2> QED BY <1>1, <1>2
<1>8. CASE Backup!Cleared
  <2>1. \/ Same \/ Rest
        \/ s9' = s9 /\ s2' = [Backup!Panel0 EXCEPT !.loaded = TRUE]
    BY <1>0, <1>8 DEF Backup!Cleared
  <2>2. ASSUME s9' = s9, s2' = [Backup!Panel0 EXCEPT !.loaded = TRUE] PROVE Backup!TickedInv'
    BY <2>2 DEF Backup!TickedInv, Backup!SelectedIsListed, Backup!DeletesWhatIsTicked, Backup!Panel0
  <2> QED BY <1>1, <2>1, <2>2
<1>9. CASE Backup!Listed
  <2>1. PICK c \in s5 : \/ Same \/ Rest
                        \/ Backup!ListedAnswer(c) /\ s9' = s9
    BY <1>0, <1>9 DEF Backup!Listed, Backup!PanelUnchanged
  <2>2. ASSUME Backup!ListedAnswer(c), s9' = s9 PROVE Backup!TickedInv'
    <3>1. /\ DOMAIN s2' = DOMAIN s2 /\ s2'.list = c.names
          /\ s2'.selected = s2.selected \cap c.names
      BY <1>0, <2>2 DEF Backup!ListedAnswer
    <3> QED BY <2>2, <3>1 DEF Backup!TickedInv, Backup!SelectedIsListed, Backup!DeletesWhatIsTicked
  <2> QED BY <1>1, <2>1, <2>2
<1>10. CASE Backup!HandleDeleteSelected
  <2>1. /\ DOMAIN s2' = DOMAIN s2 /\ s2'.selected = s2.selected /\ s2'.list = s2.list
        /\ Backup!Rows # {} /\ s9' = s9 \cup {[names |-> s2.selected, rows |-> Backup!Rows]}
    BY <1>0, <1>10 DEF Backup!HandleDeleteSelected, Backup!Works
  <2>2. s2.selected \subseteq Backup!Rows
    BY <2>1 DEF Backup!Rows, Backup!TickedInv, Backup!SelectedIsListed
  <2> QED BY <2>1, <2>2 DEF Backup!TickedInv, Backup!SelectedIsListed, Backup!DeletesWhatIsTicked
<1>11. CASE Backup!DeleteBackups
  <2>1. PICK gone :
          \/ Same
          \/ /\ DOMAIN s2' = DOMAIN s2 /\ s2'.list = s2.list \ gone
             /\ s2'.selected = s2.selected \ gone /\ s9' = s9
    BY <1>0, <1>11 DEF Backup!DeleteBackups, Backup!PanelUnchanged
  <2> QED BY <1>1, <2>1 DEF Backup!TickedInv, Backup!SelectedIsListed, Backup!DeletesWhatIsTicked
<1>12. CASE Backup!ToggleSelected \/ Backup!SelectAll
  <2>1. Backup!Rows \subseteq s2.list
    BY DEF Backup!Rows
  <2>2. /\ DOMAIN s2' = DOMAIN s2 /\ s2'.list = s2.list /\ s9' = s9
        /\ s2'.selected \subseteq s2.selected \cup s2.list
    BY <1>0, <1>12, <2>1 DEF Backup!ToggleSelected, Backup!SelectAll, Backup!PanelUnchanged
  <2> QED BY <2>2 DEF Backup!TickedInv, Backup!SelectedIsListed, Backup!DeletesWhatIsTicked
<1> QED BY <1>3, <1>4, <1>5, <1>6, <1>7, <1>8, <1>9, <1>10, <1>11, <1>12 DEF Backup!Next

-----------------------------------------------------------------------------
(* Session logs: what is deleted stood ticked.                             *)
Logs == INSTANCE LogsPanel WITH MaxActs <- LogActs, disk <- s1, writing <- s2, tabLogs <- s3,
    sessions <- s4, filter <- s5, selectedId <- s6, view <- s7, notice <- s8, checked <- s9,
    checkAnchor <- s10, deleting <- s11, dialog <- s12, lists <- s13, tabAsk <- s14, request <- s15, timer <- s16,
    removals <- s17, removed <- s18, acts <- s19

LEMMA LogsStand == Logs!StoodInv /\ [Logs!Next]_(Logs!vars) => Logs!StoodInv'
<1> SUFFICES ASSUME Logs!StoodInv, [Logs!Next]_(Logs!vars) PROVE Logs!StoodInv'
  OBVIOUS
<1> USE DEF Logs!StoodInv, Logs!pageVars, Logs!diskVars, Logs!callVars
<1>1. CASE UNCHANGED <<s12, s17>>
  BY <1>1
<1>2. CASE Logs!Remove \/ Logs!RemoveChecked
  BY <1>2 DEF Logs!Remove, Logs!RemoveChecked, Logs!CheckedShown, Logs!RowTicked, Logs!Filtered
<1>3. CASE Logs!Answer
  BY <1>3 DEF Logs!Answer
<1>4. CASE Logs!Delete
  <2>1. PICK r \in s17 : \E done \in SUBSET r.ids :
            s17' = (s17 \ {r}) \cup {[r EXCEPT !.stage = "did", !.done = done]}
    BY <1>4 DEF Logs!Delete
  <2>2. PICK done \in SUBSET r.ids :
            s17' = (s17 \ {r}) \cup {[r EXCEPT !.stage = "did", !.done = done]}
    BY <2>1
  <2> DEFINE q == [r EXCEPT !.stage = "did", !.done = done]
  <2>3. /\ q.ids = r.ids /\ q.stood = r.stood
        /\ DOMAIN q = {"stage", "ids", "done", "stood", "chosen", "many"}
    OBVIOUS
  <2>4. s12' = s12
    BY <1>4 DEF Logs!Delete
  <2> QED BY <2>2, <2>3, <2>4
<1>5. CASE Logs!Deleted
  BY <1>5 DEF Logs!Deleted
<1>6. CASE Logs!ListRead \/ Logs!Listed \/ Logs!TabIdsAnswered \/ Logs!TimerFires \/ Logs!AskRefresh
           \/ Logs!LogStarts \/ Logs!LogStops \/ Logs!SetFilter \/ Logs!Select \/ Logs!ToggleChecked
           \/ Logs!ToggleAll
  <2> UNCHANGED <<s12, s17>>
    BY <1>6 DEF Logs!ListRead, Logs!Listed, Logs!TabIdsAnswered, Logs!TimerFires, Logs!AskRefresh,
       Logs!LogStarts, Logs!LogStops, Logs!SetFilter, Logs!Select, Logs!ToggleChecked, Logs!ToggleAll
  <2> QED BY <1>1
<1> QED BY <1>1, <1>2, <1>3, <1>4, <1>5, <1>6 DEF Logs!Next, Logs!vars

\* Only Delete removes a log.
LEMMA LogsDelete == ASSUME Logs!StoodInv, [Logs!Next]_(Logs!vars) PROVE Logs!DeletesWhatStoodTicked
<1> SUFFICES ASSUME s18' # s18
             PROVE  \E r \in s17 : s18' \ s18 \subseteq (r.ids \cap r.stood) \ {s2}
  BY DEF Logs!DeletesWhatStoodTicked
<1>1. ~(\/ Logs!ListRead \/ Logs!Listed \/ Logs!TabIdsAnswered \/ Logs!TimerFires \/ Logs!AskRefresh
        \/ Logs!LogStarts \/ Logs!LogStops \/ Logs!SetFilter \/ Logs!Select \/ Logs!ToggleChecked
        \/ Logs!ToggleAll \/ Logs!Remove \/ Logs!RemoveChecked \/ Logs!Answer \/ Logs!Deleted)
  BY DEF Logs!pageVars, Logs!diskVars, Logs!callVars, Logs!ListRead, Logs!Listed,
     Logs!TabIdsAnswered, Logs!TimerFires, Logs!AskRefresh, Logs!LogStarts, Logs!LogStops,
     Logs!SetFilter, Logs!Select, Logs!ToggleChecked, Logs!ToggleAll, Logs!Remove,
     Logs!RemoveChecked, Logs!Answer, Logs!Deleted
<1>2. Logs!Delete
  BY <1>1 DEF Logs!Next, Logs!vars, Logs!diskVars
<1>3. PICK r \in s17 :
          \E done \in SUBSET r.ids : s2 \notin done /\ s18' = s18 \cup (done \cap s1)
  BY <1>2 DEF Logs!Delete
<1>4. r.ids \subseteq r.stood
  BY DEF Logs!StoodInv
<1> QED BY <1>3, <1>4

-----------------------------------------------------------------------------
(* The command library: what is on its way was asked about.                *)
Library == INSTANCE CommandLibrary WITH Ids <- LibraryIds, MaxEdits <- MaxVersions, MaxActs <- LibraryActs,
    library <- s1, commands <- s2, chosen <- s3,
    fetches <- s4, stored <- s5, synced <- s6, requests <- s7, layer <- s8, insert <- s9,
    recents <- s10, quick <- s11, tagging <- s12, written <- s13, acts <- s14

LEMMA LibraryInserts == Library!InsertInv /\ [Library!Next]_(Library!vars) => Library!InsertInv'
<1> SUFFICES ASSUME Library!InsertInv, [Library!Next]_(Library!vars) PROVE Library!InsertInv'
  OBVIOUS
<1> USE DEF Library!InsertInv, Library!InsertedAsConfirmed, Library!libVars, Library!flowVars
<1>1. CASE UNCHANGED <<s9, s13>>
  BY <1>1
<1>2. CASE Library!HandleInsert
  BY <1>2 DEF Library!HandleInsert, Library!InsertCommandText
<1>3. CASE Library!AnswerConfirm
  BY <1>3 DEF Library!AnswerConfirm, Library!InsertCommandText
<1>4. CASE Library!HandleFillSubmit
  BY <1>4 DEF Library!HandleFillSubmit, Library!InsertCommandText
<1>5. CASE Library!InsertRecent
  BY <1>5 DEF Library!InsertRecent, Library!InsertCommandText
<1>6. CASE Library!HandleInsertCommandText
  <2>1. s9' = Library!NoInsert /\ Library!NoInsert.to = "none"
    BY <1>6 DEF Library!HandleInsertCommandText, Library!NoInsert, Library!None
  <2>2. s13' = s13 \/ (s9.to = "terminal" /\ s13' = s13 \cup {[cmd |-> s9.cmd, asked |-> s9.asked]})
    BY <1>6 DEF Library!HandleInsertCommandText
  <2> QED BY <2>1, <2>2
<1>7. CASE Library!HandleOpenCommandLibrary \/ Library!CloseLibrary \/ Library!FetchReads
           \/ Library!FetchCommands \/ Library!FetchFails \/ Library!Retry \/ Library!SyncWrites
           \/ Library!OnSyncApplied \/ Library!SetMode \/ Library!SelectCommand
  <2> UNCHANGED <<s9, s13>>
    BY <1>7 DEF Library!HandleOpenCommandLibrary, Library!CloseLibrary, Library!FetchReads,
       Library!FetchCommands, Library!FetchFails, Library!Retry, Library!SyncWrites,
       Library!OnSyncApplied, Library!SetMode, Library!SelectCommand
  <2> QED BY <1>1
<1>8. CASE Library!HandleFavorite \/ Library!HandleRecentFavorite \/ Library!FavoriteAnswered
           \/ Library!OpenEditor \/ Library!HandleEditorOpenChange \/ Library!HandleSubmit
           \/ Library!SaveAnswered \/ Library!HandleSaveCommand \/ Library!QuickSaveEnds
           \/ Library!HandleDelete \/ Library!AnswerDelete \/ Library!DeleteAnswered
  <2> UNCHANGED <<s9, s13>>
    BY <1>8 DEF Library!HandleFavorite, Library!HandleRecentFavorite, Library!FavoriteAnswered,
       Library!OpenEditor, Library!HandleEditorOpenChange, Library!HandleSubmit,
       Library!SaveAnswered, Library!HandleSaveCommand, Library!QuickSaveEnds, Library!HandleDelete,
       Library!AnswerDelete, Library!DeleteAnswered
  <2> QED BY <1>1
<1>9. CASE Library!HandleFillCancel \/ Library!HandleTerminalCommandExecuted \/ Library!OpenTagManager
           \/ Library!CloseTagManager \/ Library!ChangeTag \/ Library!TagAnswered
  <2> UNCHANGED <<s9, s13>>
    BY <1>9 DEF Library!HandleFillCancel, Library!HandleTerminalCommandExecuted,
       Library!OpenTagManager, Library!CloseTagManager, Library!ChangeTag, Library!TagAnswered
  <2> QED BY <1>1
<1> QED BY <1>1, <1>2, <1>3, <1>4, <1>5, <1>6, <1>7, <1>8, <1>9 DEF Library!Next, Library!vars

-----------------------------------------------------------------------------
(* The import: what is ticked can be ticked.                               *)
Importer == INSTANCE SshImport WITH MaxActs <- ImportActs, file <- s1, isOpen <- s2,
    sourcePath <- s3, overwriteExisting <- s4, importForwards <- s5, preview <- s6, selectedHosts <- s7,
    loadingPreview <- s8, importing <- s9, previews <- s10, import <- s11, profiles <- s12,
    listed <- s13, rules <- s14, asked <- s15, acts <- s16

LEMMA ImportTicks == Importer!TickInv /\ [Importer!Next]_(Importer!vars) => Importer!TickInv'
<1> SUFFICES ASSUME Importer!TickInv, [Importer!Next]_(Importer!vars) PROVE Importer!TickInv'
  OBVIOUS
<1> USE DEF Importer!TickInv, Importer!SelectableHosts, Importer!dialogVars, Importer!callVars,
    Importer!storeVars
<1>1. CASE Importer!OpenDialog \/ Importer!CloseDialog \/ Importer!LoadPreview \/ Importer!ChooseSource
           \/ Importer!TypePath \/ Importer!ReadPreview \/ Importer!SetOptions \/ Importer!FileEdited
  BY <1>1 DEF Importer!OpenDialog, Importer!CloseDialog, Importer!LoadPreview, Importer!ChooseSource,
     Importer!TypePath, Importer!ReadPreview, Importer!SetOptions, Importer!FileEdited, Importer!AskPreview
<1>2. CASE Importer!PreviewFound
  BY <1>2 DEF Importer!PreviewFound
<1>3. CASE Importer!PreviewFailed
  BY <1>3 DEF Importer!PreviewFailed, Importer!ShowsNothing
<1>4. CASE Importer!ToggleHost
  BY <1>4 DEF Importer!ToggleHost, Importer!CanTick
<1>5. CASE Importer!ToggleAll
  BY <1>5 DEF Importer!ToggleAll
<1>6. CASE Importer!HandleImport
  BY <1>6 DEF Importer!HandleImport, Importer!CanImport
<1>7. CASE Importer!ImportDone \/ Importer!ImportFailed
  BY <1>7 DEF Importer!ImportDone, Importer!ImportFailed
<1> QED BY <1>1, <1>2, <1>3, <1>4, <1>5, <1>6, <1>7 DEF Importer!Next, Importer!vars

\* Only the two ends of an import write, and both write hosts the import was sent.
LEMMA ImportWrites ==
    ASSUME Importer!TickInv, [Importer!Next]_(Importer!vars) PROVE Importer!ImportsTickedOnly
<1> SUFFICES ASSUME NEW h \in Hosts, s12'[h] # s12[h] \/ (h \in s14' /\ h \notin s14)
             PROVE  h \in s11.hosts \cap s11.shown
  BY DEF Importer!ImportsTickedOnly
<1>1. s12' # s12 \/ s14' # s14
  OBVIOUS
<1>2. Importer!ImportDone \/ Importer!ImportFailed
  <2> USE DEF Importer!dialogVars, Importer!callVars, Importer!storeVars
  <2>1. ~(\/ Importer!OpenDialog \/ Importer!CloseDialog \/ Importer!LoadPreview \/ Importer!ChooseSource
          \/ Importer!TypePath \/ Importer!ReadPreview \/ Importer!PreviewFound \/ Importer!PreviewFailed)
    BY <1>1 DEF Importer!OpenDialog, Importer!CloseDialog, Importer!LoadPreview, Importer!ChooseSource,
       Importer!TypePath, Importer!ReadPreview, Importer!PreviewFound, Importer!PreviewFailed
  <2>2. ~(\/ Importer!ToggleHost \/ Importer!ToggleAll \/ Importer!SetOptions \/ Importer!HandleImport
          \/ Importer!FileEdited)
    BY <1>1 DEF Importer!ToggleHost, Importer!ToggleAll, Importer!SetOptions, Importer!HandleImport,
       Importer!FileEdited
  <2> QED BY <1>1, <2>1, <2>2 DEF Importer!Next, Importer!vars
<1>3. Importer!Chosen(h) /\ s9
  BY <1>2 DEF Importer!ImportDone, Importer!ImportFailed, Importer!Written
<1>4. s11.hosts # {} /\ s11.hosts \subseteq s11.shown
  BY <1>3 DEF Importer!TickInv
<1> QED BY <1>3, <1>4 DEF Importer!Chosen

-----------------------------------------------------------------------------
(* The file browser: a batch is of what was confirmed, and one search runs.*)
Browser == INSTANCE SftpBrowser WITH MaxActs <- BrowserActs, visible <- s1, first <- s2,
    listing <- s3, loads <- s4, loading <- s5, failed <- s6, history <- s7, sudo <- s8,
    follows <- s9, followed <- s10, cwd <- s11,
    search <- s12, running <- s13, view <- s14, rows <- s15, dialog <- s16, deleting <- s17,
    batch <- s18, ops <- s19, confirmed <- s20, acts <- s21

\* Loading, navigating, selecting and searching leave a deletion alone.
LEMMA BrowserLeaves ==
    ASSUME Browser!Step \/ Browser!FirstListing
    PROVE  \/ UNCHANGED <<s17, s18, s20>>
           \/ Browser!CloseDialog \/ Browser!HandleDeleteConfirm \/ Browser!PreviewAnswered
           \/ Browser!HandleCommandDeleteConfirm \/ Browser!DeleteAnswered \/ Browser!DeleteFailed
<1> USE DEF Browser!deleteVars, Browser!modeVars, Browser!folderVars
<1>1. CASE Browser!FirstListing \/ Browser!FollowTerminal \/ Browser!ToggleFollow \/ Browser!ShellMoves
           \/ Browser!ToggleDrawer \/ Browser!ToggleSudo \/ Browser!OpenAsRoot
  BY <1>1 DEF Browser!FirstListing, Browser!FollowTerminal, Browser!ToggleFollow, Browser!ShellMoves,
     Browser!ToggleDrawer, Browser!ToggleSudo, Browser!OpenAsRoot, Browser!ReloadOnSudoSwitch
<1>2. CASE Browser!DirectoryLoaded \/ Browser!DirectoryFailed \/ Browser!NavigateHistory \/ Browser!GoUp
           \/ Browser!SubmitPath \/ Browser!HandleOpenEntry \/ Browser!Refresh
           \/ Browser!TransferRefreshes \/ Browser!HandleReveal
  BY <1>2 DEF Browser!DirectoryLoaded, Browser!DirectoryFailed, Browser!NavigateHistory, Browser!GoUp,
     Browser!SubmitPath, Browser!HandleOpenEntry, Browser!Refresh, Browser!TransferRefreshes,
     Browser!HandleReveal
<1>3. CASE Browser!StartSearch \/ Browser!SearchAnswered \/ Browser!StopSearch \/ Browser!ClearQuery
           \/ Browser!TypeQuery \/ Browser!ToggleShowHidden
  BY <1>3 DEF Browser!StartSearch, Browser!SearchAnswered, Browser!StopSearch, Browser!ClearQuery,
     Browser!TypeQuery, Browser!ToggleShowHidden
<1>4. CASE Browser!ClickRow \/ Browser!SelectRange \/ Browser!SelectAll \/ Browser!ToggleSelectionMode
           \/ Browser!ClearSelection \/ Browser!ExitSelectionMode \/ Browser!OpenMenu \/ Browser!DismissMenu
  BY <1>4 DEF Browser!ClickRow, Browser!SelectRange, Browser!SelectAll, Browser!ToggleSelectionMode,
     Browser!ClearSelection, Browser!ExitSelectionMode, Browser!OpenMenu, Browser!DismissMenu, Browser!Select
<1>5. CASE Browser!HandleCreateDirectory \/ Browser!HandleRename \/ Browser!HandlePermissions
           \/ Browser!HandleCompress \/ Browser!HandleExtract \/ Browser!HandleDelete
           \/ Browser!HandleDeleteSelection
  BY <1>5 DEF Browser!HandleCreateDirectory, Browser!HandleRename, Browser!HandlePermissions,
     Browser!HandleCompress, Browser!HandleExtract, Browser!HandleDelete,
     Browser!HandleDeleteSelection, Browser!OpenDialog
<1>6. CASE Browser!HandleCreateDirectoryConfirm \/ Browser!HandleRenameConfirm
           \/ Browser!HandleApplyPermissions \/ Browser!ConfirmArchive \/ Browser!OperationAnswered
           \/ Browser!ArchiveAnswered
  BY <1>6 DEF Browser!HandleCreateDirectoryConfirm, Browser!HandleRenameConfirm,
     Browser!HandleApplyPermissions, Browser!ConfirmArchive, Browser!OperationAnswered,
     Browser!ArchiveAnswered, Browser!Started
<1> QED BY <1>1, <1>2, <1>3, <1>4, <1>5, <1>6 DEF Browser!Step

LEMMA BrowserConfirms == Browser!ConfirmInv /\ [Browser!Next]_(Browser!vars) => Browser!ConfirmInv'
<1> SUFFICES ASSUME Browser!ConfirmInv, [Browser!Next]_(Browser!vars) PROVE Browser!ConfirmInv'
  OBVIOUS
<1> USE DEF Browser!ConfirmInv
<1>1. CASE UNCHANGED <<s17, s18, s20>>
  BY <1>1
<1>2. CASE Browser!CloseDialog
  BY <1>2 DEF Browser!CloseDialog
<1>3. CASE Browser!HandleDeleteConfirm
  BY <1>3 DEF Browser!HandleDeleteConfirm
<1>4. CASE Browser!PreviewAnswered
  BY <1>4 DEF Browser!PreviewAnswered, Browser!StartDeleteBatch
<1>5. CASE Browser!HandleCommandDeleteConfirm
  BY <1>5 DEF Browser!HandleCommandDeleteConfirm, Browser!StartDeleteBatch
<1>6. CASE Browser!DeleteAnswered \/ Browser!DeleteFailed
  BY <1>6 DEF Browser!DeleteAnswered, Browser!DeleteFailed
<1> QED BY <1>1, <1>2, <1>3, <1>4, <1>5, <1>6, BrowserLeaves
    DEF Browser!Next, Browser!vars, Browser!deleteVars


\* A search is started, answered, stopped and left; nothing else touches the server's.
LEMMA SearchesReplaced == Browser!SearchesStop /\ [Browser!Next]_(Browser!vars) => Browser!SearchesStop'
<1> SUFFICES ASSUME Browser!SearchesStop, [Browser!Next]_(Browser!vars) PROVE Browser!SearchesStop'
  OBVIOUS
<1> USE DEF Browser!SearchesStop
<1>0. ASSUME UNCHANGED <<s12, s13>> PROVE Browser!SearchesStop'
  BY <1>0
<1> USE DEF Browser!deleteVars, Browser!modeVars, Browser!folderVars
<1>1. CASE Browser!FirstListing \/ Browser!FollowTerminal \/ Browser!ToggleFollow \/ Browser!ShellMoves
           \/ Browser!ToggleDrawer \/ Browser!ToggleSudo \/ Browser!OpenAsRoot
  <2>1. UNCHANGED <<s12, s13>>
    BY <1>1 DEF Browser!FirstListing, Browser!FollowTerminal, Browser!ToggleFollow, Browser!ShellMoves,
       Browser!ToggleDrawer, Browser!ToggleSudo, Browser!OpenAsRoot, Browser!ReloadOnSudoSwitch,
       Browser!BeginLoad
  <2> QED BY <1>0, <2>1
<1>2. CASE Browser!DirectoryFailed \/ Browser!NavigateHistory \/ Browser!GoUp \/ Browser!SubmitPath
           \/ Browser!HandleOpenEntry \/ Browser!Refresh \/ Browser!TransferRefreshes
           \/ Browser!HandleReveal
  <2>1. UNCHANGED <<s12, s13>>
    BY <1>2 DEF Browser!DirectoryFailed, Browser!NavigateHistory, Browser!GoUp,
       Browser!SubmitPath, Browser!HandleOpenEntry, Browser!Refresh, Browser!TransferRefreshes,
       Browser!HandleReveal, Browser!BeginLoad
  <2> QED BY <1>0, <2>1
<1>3. CASE Browser!DirectoryLoaded
  <2>1. s12' = Browser!NoSearch /\ Browser!StopsUnlessShown
    BY <1>3 DEF Browser!DirectoryLoaded
  <2>2. s13' = s13 \ {s12.id}
    BY <2>1 DEF Browser!StopsUnlessShown, Browser!NoSearch
  <2> QED BY <2>2
<1>4. CASE Browser!StartSearch
  <2>1. s13' = (s13 \ {s12.id}) \cup {s21'} /\ s12'.id = s21'
    BY <1>4 DEF Browser!StartSearch
  <2> QED BY <2>1
<1>5. CASE Browser!SearchAnswered \/ Browser!StopSearch \/ Browser!ClearQuery
  <2>1. s13' = s13 \ {s12.id} \/ \E id \in s13 : s13' = s13 \ {id}
    BY <1>5 DEF Browser!SearchAnswered, Browser!StopSearch, Browser!ClearQuery
  <2> QED BY <2>1
<1>6. CASE Browser!TypeQuery \/ Browser!ToggleShowHidden
  BY <1>0, <1>6 DEF Browser!TypeQuery, Browser!ToggleShowHidden
<1>7. CASE Browser!ClickRow \/ Browser!SelectRange \/ Browser!SelectAll \/ Browser!ToggleSelectionMode
           \/ Browser!ClearSelection \/ Browser!ExitSelectionMode \/ Browser!OpenMenu \/ Browser!DismissMenu
  <2>1. UNCHANGED <<s12, s13>>
    BY <1>7 DEF Browser!ClickRow, Browser!SelectRange, Browser!SelectAll, Browser!ToggleSelectionMode,
       Browser!ClearSelection, Browser!ExitSelectionMode, Browser!OpenMenu, Browser!DismissMenu,
       Browser!Select
  <2> QED BY <1>0, <2>1
<1>8. CASE Browser!HandleCreateDirectory \/ Browser!HandleRename \/ Browser!HandlePermissions
           \/ Browser!HandleCompress \/ Browser!HandleExtract \/ Browser!HandleDelete
           \/ Browser!HandleDeleteSelection \/ Browser!CloseDialog
  <2>1. UNCHANGED <<s12, s13>>
    BY <1>8 DEF Browser!HandleCreateDirectory, Browser!HandleRename, Browser!HandlePermissions,
       Browser!HandleCompress, Browser!HandleExtract, Browser!HandleDelete,
       Browser!HandleDeleteSelection, Browser!OpenDialog, Browser!CloseDialog
  <2> QED BY <1>0, <2>1
<1>9. CASE Browser!HandleCreateDirectoryConfirm \/ Browser!HandleRenameConfirm
           \/ Browser!HandleApplyPermissions \/ Browser!ConfirmArchive \/ Browser!OperationAnswered
           \/ Browser!ArchiveAnswered
  <2>1. UNCHANGED <<s12, s13>>
    BY <1>9 DEF Browser!HandleCreateDirectoryConfirm, Browser!HandleRenameConfirm,
       Browser!HandleApplyPermissions, Browser!ConfirmArchive, Browser!OperationAnswered,
       Browser!ArchiveAnswered, Browser!Started, Browser!BeginLoad
  <2> QED BY <1>0, <2>1
<1>10. CASE Browser!HandleDeleteConfirm \/ Browser!PreviewAnswered \/ Browser!HandleCommandDeleteConfirm
            \/ Browser!DeleteAnswered \/ Browser!DeleteFailed
  <2>1. UNCHANGED <<s12, s13>>
    BY <1>10 DEF Browser!HandleDeleteConfirm, Browser!PreviewAnswered,
       Browser!HandleCommandDeleteConfirm, Browser!DeleteAnswered, Browser!DeleteFailed
  <2> QED BY <1>0, <2>1
<1>11. CASE UNCHANGED Browser!vars
  BY <1>0, <1>11 DEF Browser!vars
<1> QED BY <1>1, <1>2, <1>3, <1>4, <1>5, <1>6, <1>7, <1>8, <1>9, <1>10, <1>11
     DEF Browser!Next, Browser!Step

-----------------------------------------------------------------------------
(* The file browser: the history points at the folder listed.              *)
LEMMA SlicedSeq ==
    ASSUME NEW S, NEW s \in Seq(S), NEW m \in 1..(Len(s) + 1), NEW n \in (m - 1)..Len(s)
    PROVE  /\ SubSeq(s, m, n) \in Seq(S) /\ Len(SubSeq(s, m, n)) = n - m + 1
           /\ \A i \in 1..(n - m + 1) : SubSeq(s, m, n)[i] = s[m + i - 1]
OBVIOUS

LEMMA JoinedSeq ==
    ASSUME NEW S, NEW s \in Seq(S), NEW t \in Seq(S)
    PROVE  /\ s \o t \in Seq(S) /\ Len(s \o t) = Len(s) + Len(t)
           /\ \A i \in 1..Len(s) : (s \o t)[i] = s[i]
           /\ \A i \in 1..Len(t) : (s \o t)[Len(s) + i] = t[i]
OBVIOUS

\* A visit is recorded, landed on, or dropped.
LEMMA VisitRecorded ==
    ASSUME NEW h, Browser!HistoryOK(h), NEW path \in Browser!Places
    PROVE  /\ Browser!HistoryOK(Browser!RecordSftpVisit(h, path))
           /\ Browser!PointsAt(Browser!RecordSftpVisit(h, path), path)
<1> DEFINE r == Browser!RecordSftpVisit(h, path)
<1>1. CASE h.index > 0 /\ h.paths[h.index] = path
  <2>1. r = h
    BY <1>1 DEF Browser!RecordSftpVisit
  <2> QED BY <2>1, <1>1 DEF Browser!PointsAt
<1>2. CASE ~(h.index > 0 /\ h.paths[h.index] = path)
  <2> DEFINE kept == SubSeq(h.paths, 1, h.index)
             all == Append(kept, path)
             from == IF Len(all) > HistoryLimit THEN Len(all) - HistoryLimit + 1 ELSE 1
             cut == SubSeq(all, from, Len(all))
  <2>1. r = [paths |-> cut, index |-> Len(cut)]
    BY <1>2 DEF Browser!RecordSftpVisit
  <2>2. kept \in Seq(Browser!Places)
    BY SlicedSeq DEF Browser!HistoryOK
  <2>3. all \in Seq(Browser!Places) /\ Len(all) \in Nat \ {0} /\ all[Len(all)] = path
    BY <2>2
  <2>4. from \in 1..Len(all)
    BY <2>3, HistoryAssumption
  <2> HIDE DEF all, from
  <2>5. /\ cut \in Seq(Browser!Places) /\ Len(cut) = Len(all) - from + 1
        /\ \A i \in 1..(Len(all) - from + 1) : cut[i] = all[from + i - 1]
    BY <2>3, <2>4, SlicedSeq
  <2> HIDE DEF cut
  <2>6. cut[Len(cut)] = path /\ Len(cut) > 0
    BY <2>3, <2>4, <2>5
  <2> QED BY <2>1, <2>5, <2>6 DEF Browser!HistoryOK, Browser!PointsAt
<1> QED BY <1>1, <1>2

LEMMA VisitLanded ==
    ASSUME NEW h, Browser!HistoryOK(h), NEW path \in Browser!Places, NEW index
    PROVE  /\ Browser!HistoryOK(Browser!LandSftpHistory(h, index, path))
           /\ Browser!PointsAt(Browser!LandSftpHistory(h, index, path), path)
<1>1. CASE index \notin 1..Len(h.paths)
  BY <1>1, VisitRecorded DEF Browser!LandSftpHistory
<1>2. CASE index \in 1..Len(h.paths)
  <2> DEFINE changed == [h.paths EXCEPT ![index] = path]
  <2>1. changed \in Seq(Browser!Places) /\ Len(changed) = Len(h.paths) /\ changed[index] = path
    BY <1>2 DEF Browser!HistoryOK
  <2>2. Browser!LandSftpHistory(h, index, path) = [paths |-> changed, index |-> index]
    BY <1>2 DEF Browser!LandSftpHistory
  <2> HIDE DEF changed
  <2> QED BY <1>2, <2>1, <2>2 DEF Browser!HistoryOK, Browser!PointsAt
<1> QED BY <1>1, <1>2

LEMMA VisitDropped ==
    ASSUME NEW h, Browser!HistoryOK(h), NEW index
    PROVE  /\ Browser!HistoryOK(Browser!DropSftpHistoryEntry(h, index))
           /\ \A p : Browser!PointsAt(h, p) => Browser!PointsAt(Browser!DropSftpHistoryEntry(h, index), p)
<1>1. CASE index \notin 1..Len(h.paths) \/ index = h.index
  BY <1>1 DEF Browser!DropSftpHistoryEntry
<1>2. CASE index \in 1..Len(h.paths) /\ index # h.index
  <2> DEFINE n == Len(h.paths)
             before == SubSeq(h.paths, 1, index - 1)
             after == SubSeq(h.paths, index + 1, n)
             rest == before \o after
             to == IF index < h.index THEN h.index - 1 ELSE h.index
  <2>0. n \in Nat /\ index \in 1..n /\ h.paths \in Seq(Browser!Places) /\ h.index \in 0..n
    BY <1>2 DEF Browser!HistoryOK
  <2>1. /\ before \in Seq(Browser!Places) /\ Len(before) = index - 1
        /\ \A i \in 1..(index - 1) : before[i] = h.paths[i]
    BY <2>0, SlicedSeq
  <2>2. /\ after \in Seq(Browser!Places) /\ Len(after) = n - index
        /\ \A i \in 1..(n - index) : after[i] = h.paths[index + i]
    BY <2>0, SlicedSeq
  <2> HIDE DEF before, after
  <2>3. /\ rest \in Seq(Browser!Places) /\ Len(rest) = n - 1
        /\ \A i \in 1..(index - 1) : rest[i] = before[i]
        /\ \A i \in 1..(n - index) : rest[index - 1 + i] = after[i]
    <3>1. /\ rest \in Seq(Browser!Places) /\ Len(rest) = Len(before) + Len(after)
          /\ \A i \in 1..Len(before) : rest[i] = before[i]
          /\ \A i \in 1..Len(after) : rest[Len(before) + i] = after[i]
      <4>1. before \in Seq(Browser!Places) /\ after \in Seq(Browser!Places)
        BY <2>1, <2>2
      <4>2. before \o after \in Seq(Browser!Places)
        BY <4>1, JoinedSeq
      <4>3. Len(before \o after) = Len(before) + Len(after)
        BY <4>1, JoinedSeq
      <4>4. \A i \in 1..Len(before) : (before \o after)[i] = before[i]
        BY <4>1, JoinedSeq
      <4>5. \A i \in 1..Len(after) : (before \o after)[Len(before) + i] = after[i]
        BY <4>1, JoinedSeq
      <4> QED BY <4>2, <4>3, <4>4, <4>5 DEF rest
    <3> HIDE DEF rest
    <3>2. Len(before) = index - 1 /\ Len(after) = n - index /\ (index - 1) + (n - index) = n - 1
      BY <2>0, <2>1, <2>2
    <3> QED BY <3>1, <3>2
  <2> HIDE DEF rest
  <2>4. h.index > 0 => rest[to] = h.paths[h.index]
    <3>1. CASE h.index \in 1..(index - 1)
      BY <3>1, <2>0, <2>1, <2>3
    <3>2. CASE h.index > index
      <4>1. /\ h.index - index \in 1..(n - index) /\ h.index - 1 = index - 1 + (h.index - index)
            /\ index + (h.index - index) = h.index
        BY <3>2, <2>0
      <4>2. rest[h.index - 1] = after[h.index - index]
        BY <4>1, <2>3
      <4> QED BY <3>2, <4>1, <4>2, <2>0, <2>2
    <3> QED BY <3>1, <3>2, <1>2, <2>0
  <2>5. Browser!DropSftpHistoryEntry(h, index) = [paths |-> rest, index |-> to]
    BY <1>2 DEF Browser!DropSftpHistoryEntry, before, after, rest
  <2> QED BY <1>2, <2>0, <2>3, <2>4, <2>5 DEF Browser!HistoryOK, Browser!PointsAt
<1> QED BY <1>1, <1>2

LEMMA LoadOfPlace ==
    ASSUME NEW path \in Browser!Places, NEW index, NEW as, NEW then
    PROVE  Browser!LoadsOK({Browser!Load(path, index, as, then)})
BY DEF Browser!LoadsOK, Browser!Load

LEMMA LoadsAdded ==
    ASSUME NEW ls, NEW l, Browser!LoadsOK(ls), Browser!LoadsOK({l})
    PROVE  Browser!LoadsOK(ls \cup {l})
BY DEF Browser!LoadsOK

\* A load begins: of a place.
LEMMA LoadBegins ==
    ASSUME Browser!HistoryInv, NEW l, Browser!LoadsOK({l}), Browser!Begin(l),
           UNCHANGED <<s7, s11>>, s3'.path = s3.path, Browser!LoadsOK(s19')
    PROVE  Browser!HistoryInv'
<1>1. Browser!LoadsOK(s4')
  BY LoadsAdded DEF Browser!Begin, Browser!HistoryInv, Browser!PlacesOK
<1>2. s6'.path \in Browser!Places
  BY DEF Browser!Begin, Browser!NoFailure, Browser!Places
<1> QED BY <1>1, <1>2 DEF Browser!HistoryInv, Browser!PlacesOK, Browser!Listed, Browser!None

LEMMA ListingAnswered ==
    ASSUME Browser!HistoryInv, Browser!DirectoryLoaded \/ Browser!DirectoryFailed
    PROVE  Browser!HistoryInv'
<1> USE DEF Browser!modeVars, Browser!deleteVars
<1>1. CASE Browser!DirectoryLoaded
  <2>1. PICK l \in s4 :
          /\ s4' = s4 \ {l} /\ s3' = [path |-> Browser!Resolved(l.path), as |-> l.as, entries |-> Names]
          /\ s7' = IF l.index = 0 THEN Browser!RecordSftpVisit(s7, Browser!Resolved(l.path))
                   ELSE Browser!LandSftpHistory(s7, l.index, Browser!Resolved(l.path))
    BY <1>1 DEF Browser!DirectoryLoaded
  <2>2. UNCHANGED <<s6, s11, s19>>
    BY <1>1 DEF Browser!DirectoryLoaded
  <2>3. Browser!Resolved(l.path) \in Browser!Places
    BY <2>1 DEF Browser!HistoryInv, Browser!PlacesOK, Browser!LoadsOK, Browser!Resolved, Browser!Places
  <2>4. Browser!HistoryOK(s7') /\ Browser!PointsAt(s7', Browser!Resolved(l.path))
    BY <2>1, <2>3, VisitRecorded, VisitLanded DEF Browser!HistoryInv
  <2>5. s3'.path = Browser!Resolved(l.path)
    BY <2>1
  <2>6. Browser!LoadsOK(s4') /\ Browser!LoadsOK(s19')
    BY <2>1, <2>2 DEF Browser!HistoryInv, Browser!PlacesOK, Browser!LoadsOK
  <2> QED BY <2>2, <2>3, <2>4, <2>5, <2>6 DEF Browser!HistoryInv, Browser!PlacesOK
<1>2. CASE Browser!DirectoryFailed
  <2>1. PICK l \in s4, error \in {"denied", "other"} :
          LET retry == {Browser!Load("none", 0, l.as, "none") : t \in {u \in {"fallback"} : l.then = u}} IN
          /\ s7' = IF l.index = 0 THEN s7 ELSE Browser!DropSftpHistoryEntry(s7, l.index)
          /\ s4' = (s4 \ {l}) \cup retry
          /\ s6' = IF retry = {} THEN [error |-> error, path |-> l.path] ELSE Browser!NoFailure
    BY <1>2 DEF Browser!DirectoryFailed, Browser!None
  <2>2. UNCHANGED <<s3, s11, s19>>
    BY <1>2 DEF Browser!DirectoryFailed
  <2>3. l.path \in Browser!Places /\ "none" \in Browser!Places
    BY <2>1 DEF Browser!HistoryInv, Browser!PlacesOK, Browser!LoadsOK, Browser!Places, Browser!None
  <2>4. s6'.path \in Browser!Places
    BY <2>1, <2>3 DEF Browser!NoFailure, Browser!None
  <2>5. Browser!LoadsOK(s4')
    <3>1. Browser!LoadsOK({Browser!Load("none", 0, l.as, "none")})
      BY <2>3, LoadOfPlace
    <3>2. \A x \in s4' : x \in s4 \/ x = Browser!Load("none", 0, l.as, "none")
      BY <2>1
    <3> QED BY <3>1, <3>2 DEF Browser!HistoryInv, Browser!PlacesOK, Browser!LoadsOK
  <2>6. Browser!HistoryOK(s7') /\ \A p : Browser!PointsAt(s7, p) => Browser!PointsAt(s7', p)
    BY <2>1, VisitDropped DEF Browser!HistoryInv
  <2> QED BY <2>2, <2>4, <2>5, <2>6 DEF Browser!HistoryInv, Browser!PlacesOK, Browser!Listed
<1> QED BY <1>1, <1>2

LEMMA BrowserShows ==
    ASSUME Browser!HistoryInv, [Browser!Next]_(Browser!vars) PROVE Browser!HistoryInv'
<1> USE DEF Browser!deleteVars, Browser!modeVars, Browser!folderVars
<1>0. ASSUME UNCHANGED <<s3, s4, s6, s7, s11, s19>> PROVE Browser!HistoryInv'
  BY <1>0 DEF Browser!HistoryInv, Browser!PlacesOK, Browser!Listed
<1>1. ASSUME NEW path \in Browser!Places, NEW index, NEW as, NEW then,
             Browser!Begin(Browser!Load(path, index, as, then)), UNCHANGED <<s7, s11, s19>>, s3'.path = s3.path
      PROVE  Browser!HistoryInv'
  <2>1. Browser!LoadsOK({Browser!Load(path, index, as, then)}) /\ Browser!LoadsOK(s19')
    BY <1>1, LoadOfPlace DEF Browser!HistoryInv, Browser!PlacesOK
  <2> QED BY <1>1, <2>1, LoadBegins
<1>2. /\ s3.path \in Browser!Places /\ s6.path \in Browser!Places /\ s11 \in Browser!Places
      /\ Home \in Browser!Places /\ Browser!None \in Browser!Places /\ Folders \subseteq Browser!Places
  BY DEF Browser!HistoryInv, Browser!PlacesOK, Browser!Places
<1>3. CASE Browser!DirectoryLoaded \/ Browser!DirectoryFailed
  BY <1>3, ListingAnswered
<1>4. CASE Browser!GoUp \/ Browser!SubmitPath \/ Browser!HandleOpenEntry \/ Browser!Refresh
           \/ Browser!TransferRefreshes \/ Browser!HandleReveal
  <2>1. /\ UNCHANGED <<s3, s7, s11, s19>>
        /\ \E path \in Folders \cup {Home, s3.path} : \E index, as, then :
               Browser!Begin(Browser!Load(path, index, as, then))
    BY <1>4 DEF Browser!GoUp, Browser!SubmitPath, Browser!HandleOpenEntry, Browser!Refresh,
       Browser!TransferRefreshes, Browser!HandleReveal, Browser!BeginLoad, Browser!Shown
  <2> QED BY <2>1, <1>1, <1>2
<1>5. CASE Browser!NavigateHistory
  <2>1. PICK step \in {-1, 1} :
            /\ Browser!SftpHistoryTarget(s7, step)
            /\ Browser!Begin(Browser!Load(s7.paths[s7.index + step], s7.index + step, Browser!Identity(s8), Browser!None))
    BY <1>5 DEF Browser!NavigateHistory, Browser!BeginLoad
  <2>2. UNCHANGED <<s3, s7, s11, s19>>
    BY <1>5 DEF Browser!NavigateHistory, Browser!BeginLoad
  <2>3. s7.paths[s7.index + step] \in Browser!Places
    BY <2>1 DEF Browser!SftpHistoryTarget, Browser!HistoryInv, Browser!HistoryOK
  <2> QED BY <2>1, <2>2, <2>3, <1>1
<1>6. CASE Browser!FirstListing \/ Browser!FollowTerminal \/ Browser!ToggleSudo \/ Browser!OpenAsRoot
  <2>1. /\ UNCHANGED <<s3, s7, s11, s19>>
        /\ \E path \in {s3.path, s6.path, s11, Browser!None} : \E index, as, then :
               Browser!Begin(Browser!Load(path, index, as, then))
    BY <1>6 DEF Browser!FirstListing, Browser!FollowTerminal, Browser!ToggleSudo, Browser!OpenAsRoot,
       Browser!ReloadOnSudoSwitch, Browser!SftpStartPath, Browser!BeginLoad, Browser!Shown
  <2> QED BY <2>1, <1>1, <1>2
<1>7. CASE Browser!ShellMoves
  <2>1. s11' \in Browser!Places /\ UNCHANGED <<s3, s4, s6, s7, s19>>
    BY <1>7 DEF Browser!ShellMoves, Browser!Places
  <2> QED BY <2>1 DEF Browser!HistoryInv, Browser!PlacesOK, Browser!Listed
<1>8. CASE Browser!ToggleFollow \/ Browser!ToggleDrawer \/ Browser!StartSearch \/ Browser!SearchAnswered
           \/ Browser!StopSearch \/ Browser!ClearQuery \/ Browser!TypeQuery \/ Browser!ToggleShowHidden
  <2>1. UNCHANGED <<s3, s4, s6, s7, s11, s19>>
    BY <1>8 DEF Browser!ToggleFollow, Browser!ToggleDrawer, Browser!StartSearch, Browser!SearchAnswered,
       Browser!StopSearch, Browser!ClearQuery, Browser!TypeQuery, Browser!ToggleShowHidden
  <2> QED BY <1>0, <2>1
<1>9. CASE Browser!ClickRow \/ Browser!SelectRange \/ Browser!SelectAll \/ Browser!ToggleSelectionMode
           \/ Browser!ClearSelection \/ Browser!ExitSelectionMode \/ Browser!OpenMenu \/ Browser!DismissMenu
  <2>1. UNCHANGED <<s3, s4, s6, s7, s11, s19>>
    BY <1>9 DEF Browser!ClickRow, Browser!SelectRange, Browser!SelectAll, Browser!ToggleSelectionMode,
       Browser!ClearSelection, Browser!ExitSelectionMode, Browser!OpenMenu, Browser!DismissMenu,
       Browser!Select
  <2> QED BY <1>0, <2>1
<1>10. CASE Browser!HandleCreateDirectory \/ Browser!HandleRename \/ Browser!HandlePermissions
           \/ Browser!HandleCompress \/ Browser!HandleExtract \/ Browser!HandleDelete
           \/ Browser!HandleDeleteSelection \/ Browser!CloseDialog
  <2>1. UNCHANGED <<s3, s4, s6, s7, s11, s19>>
    BY <1>10 DEF Browser!HandleCreateDirectory, Browser!HandleRename, Browser!HandlePermissions,
       Browser!HandleCompress, Browser!HandleExtract, Browser!HandleDelete,
       Browser!HandleDeleteSelection, Browser!OpenDialog, Browser!CloseDialog
  <2> QED BY <1>0, <2>1
<1>11. CASE Browser!HandleCreateDirectoryConfirm \/ Browser!HandleRenameConfirm
           \/ Browser!HandleApplyPermissions \/ Browser!ConfirmArchive
  <2>1. /\ UNCHANGED <<s3, s4, s7, s11>> /\ (s6' = s6 \/ s6' = Browser!NoFailure)
        /\ \E kind : s19' = s19 \cup {Browser!Captured(kind)}
    BY <1>11 DEF Browser!HandleCreateDirectoryConfirm, Browser!HandleRenameConfirm,
       Browser!HandleApplyPermissions, Browser!ConfirmArchive, Browser!Started
  <2>2. \A kind : Browser!LoadsOK({Browser!Captured(kind)})
    BY <1>2, LoadOfPlace DEF Browser!Captured, Browser!Shown
  <2>3. Browser!LoadsOK(s19')
    BY <2>1, <2>2, LoadsAdded DEF Browser!HistoryInv, Browser!PlacesOK
  <2>4. s6'.path \in Browser!Places
    BY <2>1, <1>2 DEF Browser!NoFailure
  <2> QED BY <2>1, <2>3, <2>4 DEF Browser!HistoryInv, Browser!PlacesOK, Browser!Listed
<1>12. CASE Browser!OperationAnswered \/ Browser!ArchiveAnswered
  <2>1. PICK o \in s19 : /\ s19' = s19 \ {o} /\ UNCHANGED <<s3, s7, s11>>
                         /\ \/ Browser!Begin([o EXCEPT !.then = Browser!None])
                            \/ s4' = s4 /\ (s6' = s6 \/ s6' = [error |-> "other", path |-> Browser!None])
    BY <1>12 DEF Browser!OperationAnswered, Browser!ArchiveAnswered, Browser!BeginLoad
  <2>2. Browser!LoadsOK(s19') /\ Browser!LoadsOK({[o EXCEPT !.then = Browser!None]})
    <3>1. Browser!LoadsOK(s19)
      BY DEF Browser!HistoryInv, Browser!PlacesOK
    <3>2. LET q == [o EXCEPT !.then = Browser!None]
          IN  DOMAIN q = {"path", "index", "as", "then"} /\ q.path = o.path /\ o.path \in Browser!Places
      BY <3>1 DEF Browser!LoadsOK
    <3> QED BY <2>1, <3>1, <3>2 DEF Browser!LoadsOK
  <2>3. CASE Browser!Begin([o EXCEPT !.then = Browser!None])
    BY <2>1, <2>2, <2>3, LoadBegins
  <2>4. CASE s4' = s4 /\ (s6' = s6 \/ s6' = [error |-> "other", path |-> Browser!None])
    <3>1. s6'.path \in Browser!Places
      BY <2>4, <1>2
    <3> QED BY <2>1, <2>2, <2>4, <3>1 DEF Browser!HistoryInv, Browser!PlacesOK, Browser!Listed
  <2> QED BY <2>1, <2>3, <2>4
<1>13. CASE Browser!HandleDeleteConfirm \/ Browser!PreviewAnswered \/ Browser!HandleCommandDeleteConfirm
            \/ Browser!DeleteFailed
  <2>1. /\ UNCHANGED <<s3, s4, s7, s11, s19>>
        /\ s6' = s6 \/ s6' = Browser!NoFailure \/ s6' = [error |-> "other", path |-> Browser!None]
    BY <1>13 DEF Browser!HandleDeleteConfirm, Browser!PreviewAnswered,
       Browser!HandleCommandDeleteConfirm, Browser!DeleteFailed
  <2>2. s6'.path \in Browser!Places
    BY <2>1, <1>2 DEF Browser!NoFailure
  <2> QED BY <2>1, <2>2 DEF Browser!HistoryInv, Browser!PlacesOK, Browser!Listed
<1>14. CASE Browser!DeleteAnswered
  <2>1. /\ UNCHANGED <<s7, s11, s19>> /\ \E es : s3' = [s3 EXCEPT !.entries = es]
        /\ IF Browser!Listed THEN Browser!Begin(Browser!Load(s3.path, 0, Browser!Identity(s8), Browser!None))
           ELSE UNCHANGED <<s4, s6>>
    BY <1>14 DEF Browser!DeleteAnswered, Browser!Shown
  <2>2. s3'.path = s3.path
    BY <2>1
  <2>3. CASE UNCHANGED <<s4, s6>>
    BY <2>1, <2>2, <2>3 DEF Browser!HistoryInv, Browser!PlacesOK, Browser!Listed
  <2> QED BY <2>1, <2>2, <2>3, <1>1, <1>2
<1>15. CASE UNCHANGED Browser!vars
  BY <1>0, <1>15 DEF Browser!vars
<1> QED BY <1>3, <1>4, <1>5, <1>6, <1>7, <1>8, <1>9, <1>10, <1>11, <1>12, <1>13, <1>14, <1>15
     DEF Browser!Next, Browser!Step

LEMMA ShownInHistory == ASSUME Browser!HistoryInv PROVE Browser!HistoryShowsListing
BY DEF Browser!HistoryInv, Browser!HistoryShowsListing, Browser!PointsAt

LEMMA HistoryStarts == ASSUME Browser!Init PROVE Browser!HistoryInv
BY DEF Browser!Init, Browser!HistoryInv, Browser!PlacesOK, Browser!LoadsOK, Browser!HistoryOK,
   Browser!Listed, Browser!NoListing, Browser!NoFailure, Browser!Places, Browser!None

-----------------------------------------------------------------------------
(* The theme: what is on screen is what is previewed or configured.        *)
Theme == INSTANCE Themes WITH CustomIds <- ThemeIds, MaxActs <- ThemeActs,
    MaxEvents <- ThemeEvents, config <- s1,
    isLoaded <- s2, favRef <- s3, db <- s4, customs <- s5, themesLoaded <- s6, catalog <- s7,
    cachedCatalog <- s8, os <- s9, sys <- s10, asks <- s11, preview <- s12, screen <- s13,
    cache <- s14, seen <- s15, choices <- s16, saves <- s17, loads <- s18, gallery <- s19,
    editor <- s20, importer <- s21, asked <- s22, astray <- s23, acts <- s24, events <- s25

\* The choices that wait: one more, or one less.
LEMMA ChoiceWaits ==
    ASSUME NEW q, NEW c, Theme!IsSeq(q)
    PROVE  /\ Theme!IsSeq(Append(q, c))
           /\ \A i \in DOMAIN q : i \in DOMAIN Append(q, c) /\ Append(q, c)[i] = q[i]
           /\ \E i \in DOMAIN Append(q, c) : Append(q, c)[i] = c
<1> DEFINE A == {q[i] : i \in DOMAIN q} \cup {c}
           u == Append(q, c)
           n == Len(q)
<1>1. q \in Seq(A)
  <2>1. q \in Seq({q[i] : i \in DOMAIN q})
    BY DEF Theme!IsSeq
  <2> QED BY <2>1
<1>2. c \in A
  OBVIOUS
<1> HIDE DEF A
<1>3. /\ u \in Seq(A) /\ n \in Nat /\ DOMAIN q = 1..n /\ DOMAIN u = 1..(n + 1)
      /\ \A i \in 1..n : u[i] = q[i]
      /\ u[n + 1] = c
  BY <1>1, <1>2
<1> HIDE DEF u
<1>4. Theme!IsSeq(u)
  <2>1. \A i \in 1..(n + 1) : u[i] \in {u[k] : k \in DOMAIN u}
    BY <1>3
  <2> DEFINE B == {u[k] : k \in DOMAIN u}
  <2> HIDE DEF B
  <2>2. u = [i \in 1..(n + 1) |-> u[i]]
    BY <1>3
  <2>3. [i \in 1..(n + 1) |-> u[i]] \in [1..(n + 1) -> B]
    BY <2>1 DEF B
  <2>4. [i \in 1..(n + 1) |-> u[i]] \in Seq(B)
    BY <2>3, <1>3
  <2>5. u \in Seq(B)
    BY <2>2, <2>4, Zenon
  <2> QED BY <2>5 DEF Theme!IsSeq, B
<1> QED BY <1>3, <1>4 DEF u

LEMMA ChoiceGone ==
    ASSUME NEW q, Theme!IsSeq(q), q # <<>>
    PROVE  /\ Theme!IsSeq(Tail(q)) /\ 1 \in DOMAIN q /\ Head(q) = q[1]
           /\ \A i \in DOMAIN q : i = 1 \/ (i - 1 \in DOMAIN Tail(q) /\ Tail(q)[i - 1] = q[i])
<1> DEFINE A == {q[i] : i \in DOMAIN q}
           u == Tail(q)
           n == Len(q)
<1>1. q \in Seq(A)
  BY DEF Theme!IsSeq
<1> HIDE DEF A
<1>3. /\ u \in Seq(A) /\ n \in Nat \ {0} /\ DOMAIN q = 1..n /\ DOMAIN u = 1..(n - 1)
      /\ \A i \in 1..(n - 1) : u[i] = q[i + 1]
      /\ Head(q) = q[1]
  BY <1>1
<1> HIDE DEF u
<1>4. Theme!IsSeq(u)
  <2>1. \A i \in 1..(n - 1) : u[i] \in {u[k] : k \in DOMAIN u}
    BY <1>3
  <2> DEFINE B == {u[k] : k \in DOMAIN u}
  <2> HIDE DEF B
  <2>2. u = [i \in 1..(n - 1) |-> u[i]]
    BY <1>3
  <2>3. [i \in 1..(n - 1) |-> u[i]] \in [1..(n - 1) -> B]
    BY <2>1 DEF B
  <2>4. [i \in 1..(n - 1) |-> u[i]] \in Seq(B)
    BY <2>3, <1>3
  <2>5. u \in Seq(B)
    BY <2>2, <2>4, Zenon
  <2> QED BY <2>5 DEF Theme!IsSeq, B
<1>5. \A i \in 1..n : i = 1 \/ (i - 1 \in 1..(n - 1) /\ (i - 1) + 1 = i)
  BY <1>3
<1> QED BY <1>3, <1>4, <1>5 DEF u

\* What the handler shows is what its choice will configure.
LEMMA ChosenSlot ==
    ASSUME NEW r, NEW h, NEW th, Theme!ShowsNow(r, h, th), h.follow = s1.follow, h.sys = s10
    PROVE  Theme!Slot \in DOMAIN Theme!Choice(r, h, th) /\ Theme!Choice(r, h, th)[Theme!Slot] = r.id
BY DEF Theme!Slot, Theme!ShowsNow, Theme!Choice

\* Rendered as it is, the layout effect does not run again.
LEMMA NothingPending == ASSUME s15 = Theme!Deps PROVE ~Theme!EffectRuns
<1> DEFINE d == Theme!Deps
<1>1. d.needs = Theme!NeedsCatalog /\ d = [k \in DOMAIN d |-> d[k]]
  BY DEF Theme!Deps
<1> HIDE DEF d
<1>2. [d EXCEPT !.needs = d.needs] = [k \in DOMAIN d |-> d[k]]
  OBVIOUS
<1>3. [d EXCEPT !.needs = d.needs] = d
  BY <1>1, <1>2
<1> QED BY <1>1, <1>3 DEF Theme!EffectRuns, d

\* Rendered as it is, nothing the layout effect depends on changes unseen.
LEMMA NothingUnseen ==
    ASSUME s15 = Theme!Deps, UNCHANGED s15, ~Theme!EffectRuns'
    PROVE  /\ ~Theme!EffectRuns
           /\ Theme!Known' = Theme!Known /\ Theme!Configured' = Theme!Configured /\ s12' = s12
           /\ Theme!Ready' = Theme!Ready
<1>1. ~Theme!EffectRuns
  BY NothingPending
<1>2. [s15 EXCEPT !.needs = Theme!NeedsCatalog'] = Theme!Deps'
  BY DEF Theme!EffectRuns
<1>3. \A f \in {"known", "settled", "theme", "loaded", "themes", "preview", "appearance"} :
          Theme!Deps'[f] = Theme!Deps[f]
  <2>1. DOMAIN s15 = {"known", "settled", "theme", "loaded", "themes", "preview", "appearance", "needs", "current"}
    BY DEF Theme!Deps
  <2>2. \A f \in {"known", "settled", "theme", "loaded", "themes", "preview", "appearance"} :
            [s15 EXCEPT !.needs = Theme!NeedsCatalog'][f] = s15[f]
    BY <2>1
  <2> QED BY <1>2, <2>2
<1>4. /\ Theme!Known' = Theme!Known /\ Theme!Configured' = Theme!Configured /\ s12' = s12
      /\ Theme!CatalogSettled' = Theme!CatalogSettled /\ s2' = s2 /\ s6' = s6
      /\ Theme!AppearanceSettled' = Theme!AppearanceSettled
  BY <1>3 DEF Theme!Deps
<1> QED BY <1>1, <1>4 DEF Theme!Ready

\* The screen and the themes are left alone, and a choice that is on it still waits.
LEMMA ScreenStays ==
    ASSUME Theme!ScreenInv, s15 = Theme!Deps, UNCHANGED <<s5, s13, s14, s15>>, Theme!ScreenTypeOK',
           ~s23' => ~s23 /\ (Theme!Choosing => Theme!Slot' = Theme!Slot),
           \A i \in DOMAIN s16 : \E j \in DOMAIN s16' : s16'[j] = s16[i]
    PROVE  Theme!ScreenInv'
<1> SUFFICES ASSUME Theme!Ready', ~Theme!EffectRuns', ~s23'
             PROVE  (\/ s13 = Theme!Displayed /\ (s12 = Theme!None => s14 = s13)
                     \/ \E i \in DOMAIN s16 : Theme!Brings(s16[i]))'
  BY DEF Theme!ScreenInv
<1>1. /\ ~Theme!EffectRuns /\ Theme!Ready /\ ~s23
      /\ Theme!Known' = Theme!Known /\ Theme!Configured' = Theme!Configured /\ s12' = s12
  BY NothingUnseen
<1>2. CASE s13 = Theme!Displayed /\ (s12 = Theme!None => s14 = s13)
  BY <1>1, <1>2 DEF Theme!Displayed, Theme!Resolve, Theme!None
<1>3. CASE \E i \in DOMAIN s16 : Theme!Brings(s16[i])
  <2>1. PICK i \in DOMAIN s16 : Theme!Brings(s16[i])
    BY <1>3
  <2>2. PICK j \in DOMAIN s16' : s16'[j] = s16[i]
    OBVIOUS
  <2>3. Theme!Slot' = Theme!Slot
    BY <2>1 DEF Theme!Brings, Theme!Choosing
  <2>4. Theme!Brings(s16[j])'
    BY <1>1, <2>1, <2>2, <2>3 DEF Theme!Brings, Theme!IsChoice, Theme!Resolve
  <2> QED BY <2>4
<1> QED BY <1>1, <1>2, <1>3 DEF Theme!ScreenInv

LEMMA SlotsStay ==
    ASSUME s1'.follow = s1.follow, ~s1.follow \/ s10' = s10 PROVE Theme!Slot' = Theme!Slot
BY DEF Theme!Slot

\* A choice is shown at once, or it is not for the appearance shown.
LEMMA Chosen ==
    ASSUME Theme!ScreenInv, s15 = Theme!Deps, NEW id, NEW kind, kind \in {"choose", "apply"},
           Theme!SetTheme(id, Theme!Held, s5, kind), UNCHANGED <<s1, s5, s7, s10, s15, s23>>
    PROVE  Theme!ScreenInv'
<1> DEFINE r == Theme!Resolve(id, s5, Theme!Held.known)
           c == [update |-> Theme!Choice(r, Theme!Held, s5), kind |-> kind, id |-> r.id]
<1>0. Theme!Held.known = Theme!Known /\ Theme!Held.follow = s1.follow /\ Theme!Held.sys = s10
  BY DEF Theme!Held
<1>1. PICK i0 : s16' = Append(s16, [update |-> Theme!Choice(r, Theme!Held, s5), kind |-> kind, id |-> i0])
  BY DEF Theme!SetTheme, Theme!SaveConfig
<1> DEFINE d == [update |-> Theme!Choice(r, Theme!Held, s5), kind |-> kind, id |-> i0]
<1>2. /\ Theme!IsSeq(s16') /\ \A i \in DOMAIN s16 : i \in DOMAIN s16' /\ s16'[i] = s16[i]
      /\ \E i \in DOMAIN s16' : s16'[i] = d
  BY <1>1, ChoiceWaits DEF Theme!ScreenInv, Theme!ScreenTypeOK
<1>3. Theme!ScreenTypeOK'
  BY <1>2 DEF Theme!ScreenInv, Theme!ScreenTypeOK, Theme!IsSeq
<1>4. Theme!Slot' = Theme!Slot
  BY SlotsStay
<1>5. CASE ~Theme!ShowsNow(r, Theme!Held, s5)
  <2>1. UNCHANGED <<s13, s14>>
    BY <1>5 DEF Theme!SetTheme
  <2> QED BY <2>1, <1>2, <1>3, <1>4, ScreenStays
<1>6. CASE Theme!ShowsNow(r, Theme!Held, s5)
  <2>1. s13' = Theme!Resolve(r.id, s5, Theme!Known) /\ s14' = s13'
    BY <1>0, <1>6 DEF Theme!SetTheme, Theme!ApplyAndCache
  <2>2. Theme!Slot \in DOMAIN d.update /\ d.update[Theme!Slot] = r.id /\ Theme!IsChoice(d)
    <3>1. d.update = Theme!Choice(r, Theme!Held, s5) /\ d.kind = kind
      OBVIOUS
    <3> HIDE DEF d, r
    <3>2. Theme!Slot \in DOMAIN Theme!Choice(r, Theme!Held, s5) /\ Theme!Choice(r, Theme!Held, s5)[Theme!Slot] = r.id
      BY <1>0, <1>6, ChosenSlot
    <3> QED BY <3>1, <3>2 DEF Theme!IsChoice
  <2> HIDE DEF d, r
  <2>3. PICK i \in DOMAIN s16' : s16'[i] = d
    BY <1>2
  <2>4. ASSUME ~Theme!EffectRuns' PROVE Theme!Brings(s16[i])'
    <3>1. Theme!Known' = Theme!Known
      BY <2>4, NothingUnseen
    <3> QED BY <2>1, <2>2, <2>3, <3>1, <1>4 DEF Theme!Brings, Theme!IsChoice, Theme!Resolve
  <2> QED BY <2>3, <2>4, <1>3 DEF Theme!ScreenInv
<1> QED BY <1>5, <1>6

\* A choice is answered: what it brought is configured, or it went astray.
LEMMA AnswerShown ==
    ASSUME Theme!ScreenInv, s15 = Theme!Deps, NEW ok \in BOOLEAN, Theme!ChoiceAnswered(ok)
    PROVE  Theme!ScreenInv'
<1> DEFINE c == Head(s16)
           saved == Theme!Changed(c.update)
<1>0. /\ {"theme", "light", "dark", "follow"} \subseteq DOMAIN s1 /\ Theme!IsSeq(s16)
      /\ DOMAIN s7 = {"at", "failed", "wanted"}
  BY DEF Theme!ScreenInv, Theme!ScreenTypeOK
<1>1. /\ s16 # <<>> /\ s16' = Tail(s16) /\ UNCHANGED <<s2, s5, s6, s7, s8, s10, s13, s14, s15>>
      /\ s1' = IF ok THEN saved ELSE s1
      /\ s12' = IF Theme!IsChoice(c) THEN Theme!None ELSE s12
      /\ s23' = (s23 \/ (~ok /\ Theme!IsChoice(c)) \/ (ok /\ saved.follow # s1.follow /\ Theme!Choosing))
  BY DEF Theme!ChoiceAnswered, Theme!themeVars, Theme!sysVars, Theme!libVars
<1>2. /\ Theme!IsSeq(s16') /\ 1 \in DOMAIN s16 /\ c = s16[1]
      /\ \A i \in DOMAIN s16 : i = 1 \/ (i - 1 \in DOMAIN s16' /\ s16'[i - 1] = s16[i])
  BY <1>0, <1>1, ChoiceGone
<1>3. DOMAIN saved = DOMAIN s1 /\ \A k \in DOMAIN s1 : saved[k] = IF k \in DOMAIN c.update THEN c.update[k] ELSE s1[k]
  BY DEF Theme!Changed
<1> HIDE DEF c, saved
<1>4. Theme!ScreenTypeOK'
  BY <1>0, <1>1, <1>2, <1>3 DEF Theme!ScreenTypeOK, Theme!IsSeq
<1> SUFFICES ASSUME Theme!Ready', ~Theme!EffectRuns', ~s23'
             PROVE  (\/ s13 = Theme!Displayed /\ (s12 = Theme!None => s14 = s13)
                     \/ \E i \in DOMAIN s16 : Theme!Brings(s16[i]))'
  BY <1>4 DEF Theme!ScreenInv
<1>5. /\ ~Theme!EffectRuns /\ Theme!Ready /\ ~s23
      /\ Theme!Known' = Theme!Known /\ Theme!Configured' = Theme!Configured /\ s12' = s12
  BY <1>1, NothingUnseen
<1>6. CASE s13 = Theme!Displayed /\ (s12 = Theme!None => s14 = s13)
  BY <1>1, <1>5, <1>6 DEF Theme!Displayed, Theme!Resolve, Theme!None
<1>7. CASE \E i \in DOMAIN s16 : Theme!Brings(s16[i])
  <2>1. PICK i \in DOMAIN s16 : Theme!Brings(s16[i])
    BY <1>7
  <2>2. Theme!Choosing /\ s1'.follow = s1.follow
    BY <1>1, <2>1 DEF Theme!Choosing, Theme!Brings
  <2>3. Theme!Slot' = Theme!Slot
    BY <1>1, <2>2, SlotsStay
  <2>4. CASE i # 1
    <3>1. i - 1 \in DOMAIN s16' /\ s16'[i - 1] = s16[i]
      BY <1>2, <2>4
    <3>2. Theme!Brings(s16[i - 1])'
      BY <1>1, <1>5, <2>1, <2>3, <3>1 DEF Theme!Brings, Theme!IsChoice, Theme!Resolve
    <3> QED BY <3>1, <3>2
  <2>5. CASE i = 1
    <3>1. Theme!IsChoice(c) /\ Theme!Slot \in DOMAIN c.update
          /\ s13 = Theme!Resolve(c.update[Theme!Slot], s5, Theme!Known) /\ s14 = s13
      BY <2>1, <2>5, <1>2 DEF Theme!Brings
    <3>2. ok /\ s1' = saved /\ s12' = Theme!None
      BY <3>1, <1>1
    <3>3. Theme!Slot \in DOMAIN s1 /\ Theme!Configured' = s1'[Theme!Slot']
      BY <2>3, <1>0 DEF Theme!Slot, Theme!Configured
    <3>4. Theme!Configured' = c.update[Theme!Slot]
      BY <2>3, <3>1, <3>2, <3>3, <1>3
    <3>5. (s13 = Theme!Displayed)' /\ (s14 = s13)'
      BY <1>1, <1>5, <3>1, <3>2, <3>4 DEF Theme!Displayed, Theme!Resolve, Theme!None
    <3> QED BY <3>5
  <2> QED BY <2>4, <2>5
<1> QED BY <1>5, <1>6, <1>7 DEF Theme!ScreenInv

\* A render shows what is to be shown, or nothing it depends on had changed.
LEMMA RenderShows == ASSUME Theme!ScreenInv, Theme!Rendered PROVE Theme!ScreenInv'
<1>1. /\ s15' = Theme!Deps /\ UNCHANGED <<s1, s2, s5, s6, s8, s10, s12, s16>>
      /\ IF Theme!EffectRuns /\ Theme!Ready THEN Theme!Show ELSE UNCHANGED <<s13, s14, s23>>
      /\ Theme!WantCatalog
  BY DEF Theme!Rendered, Theme!cfgVars, Theme!themeVars, Theme!sysVars
<1>2. /\ DOMAIN s7' = {"at", "failed", "wanted"} /\ s7'.failed = s7.failed
      /\ (s7'.at = "loaded") <=> (s7.at = "loaded")
  <2>0. DOMAIN s7 = {"at", "failed", "wanted"}
    BY DEF Theme!ScreenInv, Theme!ScreenTypeOK
  <2>1. CASE s7' = s7
    BY <2>0, <2>1
  <2>2. CASE s7' = [s7 EXCEPT !.at = IF @ = "loaded" THEN @ ELSE "loading", !.wanted = TRUE]
    <3>1. DOMAIN s7' = DOMAIN s7 /\ s7'.failed = s7.failed /\ s7'.at = IF s7.at = "loaded" THEN s7.at ELSE "loading"
      BY <2>0, <2>2
    <3> QED BY <2>0, <3>1
  <2> QED BY <1>1, <2>1, <2>2 DEF Theme!WantCatalog
<1>3. Theme!Known' = Theme!Known /\ Theme!Configured' = Theme!Configured
  BY <1>1, <1>2 DEF Theme!Known, Theme!Configured
<1>4. Theme!Ready' = Theme!Ready
  <2>1. Theme!NeedsCatalog' = Theme!NeedsCatalog
    BY <1>1, <1>2, <1>3 DEF Theme!NeedsCatalog
  <2>2. Theme!CatalogSettled' = Theme!CatalogSettled
    BY <1>2, <2>1 DEF Theme!CatalogSettled
  <2>3. Theme!AppearanceSettled' = Theme!AppearanceSettled
    BY <1>1 DEF Theme!AppearanceSettled
  <2> QED BY <1>1, <2>2, <2>3 DEF Theme!Ready
<1>5. Theme!ScreenTypeOK'
  BY <1>1, <1>2 DEF Theme!ScreenInv, Theme!ScreenTypeOK, Theme!IsSeq
<1>6. CASE Theme!EffectRuns /\ Theme!Ready
  <2>1. (s13 = Theme!Displayed)' /\ (s12 = Theme!None => s14 = s13)'
    BY <1>1, <1>3, <1>6 DEF Theme!Show, Theme!ApplyAndCache, Theme!Displayed, Theme!Resolve, Theme!None
  <2> QED BY <1>5, <2>1 DEF Theme!ScreenInv
<1>7. CASE ~Theme!Ready
  BY <1>4, <1>5, <1>7 DEF Theme!ScreenInv
<1>8. CASE ~Theme!EffectRuns /\ Theme!Ready
  <2>1. UNCHANGED <<s13, s14, s23>>
    BY <1>1, <1>8
  <2>2. CASE s23
    BY <1>5, <2>1, <2>2 DEF Theme!ScreenInv
  <2>3. CASE s13 = Theme!Displayed /\ (s12 = Theme!None => s14 = s13)
    <3>1. (s13 = Theme!Displayed)' /\ (s12 = Theme!None => s14 = s13)'
      BY <1>1, <1>3, <2>1, <2>3 DEF Theme!Displayed, Theme!Resolve, Theme!None
    <3> QED BY <1>5, <3>1 DEF Theme!ScreenInv
  <2>4. CASE \E i \in DOMAIN s16 : Theme!Brings(s16[i])
    <3>1. Theme!Slot' = Theme!Slot
      BY <1>1, SlotsStay
    <3>2. (\E i \in DOMAIN s16 : Theme!Brings(s16[i]))'
      BY <1>1, <1>3, <2>1, <2>4, <3>1 DEF Theme!Brings, Theme!IsChoice, Theme!Resolve
    <3> QED BY <1>5, <3>2 DEF Theme!ScreenInv
  <2> QED BY <1>8, <2>2, <2>3, <2>4 DEF Theme!ScreenInv
<1> QED BY <1>6, <1>7, <1>8

LEMMA ScreenSettled == ASSUME Theme!ScreenInv, [Theme!Next]_(Theme!vars) PROVE Theme!ScreenInv'
<1> USE DEF Theme!cfgVars, Theme!themeVars, Theme!shownVars, Theme!sysVars, Theme!libVars, Theme!dialogVars,
            Theme!bounds
<1>0. /\ {"theme", "light", "dark", "follow"} \subseteq DOMAIN s1 /\ Theme!IsSeq(s16)
      /\ DOMAIN s7 = {"at", "failed", "wanted"}
  BY DEF Theme!ScreenInv, Theme!ScreenTypeOK
<1>1. CASE Theme!Rendered
  BY <1>1, RenderShows
<1>2. CASE UNCHANGED Theme!vars
  <2>1. UNCHANGED <<s1, s2, s5, s6, s7, s8, s10, s12, s13, s14, s15, s16, s23>>
    BY <1>2 DEF Theme!vars
  <2> QED BY <2>1 DEF Theme!ScreenInv, Theme!ScreenTypeOK, Theme!IsSeq, Theme!Ready, Theme!EffectRuns, Theme!Deps,
      Theme!Brings, Theme!IsChoice, Theme!Slot, Theme!Displayed, Theme!Resolve, Theme!None, Theme!Known,
      Theme!Configured, Theme!CatalogSettled, Theme!NeedsCatalog, Theme!AppearanceSettled
<1>3. CASE ~Theme!RenderPending /\ Theme!Handle
  <2>0. s15 = Theme!Deps
    BY <1>3 DEF Theme!RenderPending
  \* The screen, the settings and the choices are left alone.
  <2>1. ASSUME UNCHANGED <<s1, s5, s10, s13, s14, s15, s16, s23>>, DOMAIN s7' = DOMAIN s7 PROVE Theme!ScreenInv'
    <3>1. Theme!ScreenTypeOK'
      BY <1>0, <2>1 DEF Theme!ScreenTypeOK, Theme!IsSeq
    <3>2. Theme!Slot' = Theme!Slot
      BY <2>1, SlotsStay
    <3>3. \A i \in DOMAIN s16 : \E j \in DOMAIN s16' : s16'[j] = s16[i]
      BY <2>1
    <3> QED BY <2>0, <2>1, <3>1, <3>2, <3>3, ScreenStays
  <2>2. CASE \/ \E id \in Theme!Ids : \/ Theme!HandleDeleteTheme(id) \/ Theme!HandleDuplicateTheme(id)
                                      \/ Theme!HandleResetPresetTheme(id)
             \/ Theme!SelectTheme \/ Theme!CloseGallery
             \/ \E id \in ThemeIds \cup {"default", "new"} : Theme!OpenEditor(id)
             \/ \E l \in Theme!Looks : Theme!EditTheme(l)
             \/ \E source \in Theme!Looks \cup {"broken"} : Theme!ChangeSource(source)
             \/ Theme!CloseEditor \/ Theme!OpenImport \/ Theme!CloseImport
             \/ Theme!LoadConfig
    <3>1. UNCHANGED <<s1, s5, s7, s10, s13, s14, s15, s16, s23>>
      BY <2>2 DEF Theme!HandleDeleteTheme, Theme!HandleDuplicateTheme, Theme!HandleResetPresetTheme,
         Theme!SelectTheme, Theme!CloseGallery, Theme!OpenEditor, Theme!EditTheme, Theme!ChangeSource,
         Theme!CloseEditor, Theme!OpenImport, Theme!CloseImport, Theme!LoadConfig
    <3> QED BY <2>1, <3>1
  <2>3. CASE \/ Theme!ImportThemes \/ Theme!EditorSave
             \/ \E yes \in BOOLEAN : Theme!Answer(yes)
             \/ \E i \in DOMAIN s17 : Theme!SaveThemesFails(i)
             \/ \E id \in ThemeIds, l \in Theme!Looks : Theme!SyncThemes(id, l)
    <3>1. UNCHANGED <<s1, s5, s7, s10, s13, s14, s15, s16, s23>>
      BY <2>3 DEF Theme!ImportThemes, Theme!EditorSave, Theme!Answer, Theme!SaveThemesFails, Theme!SyncThemes
    <3> QED BY <2>1, <3>1
  <2>4. CASE \/ Theme!OpenGallery \/ Theme!RetryCatalog \/ Theme!CatalogFor
             \/ \E ok \in BOOLEAN : Theme!CatalogAnswered(ok)
    <3>1. UNCHANGED <<s1, s5, s10, s13, s14, s15, s16, s23>>
      BY <2>4 DEF Theme!OpenGallery, Theme!RetryCatalog, Theme!CatalogFor, Theme!CatalogAnswered
    <3>2. DOMAIN s7' = DOMAIN s7
      <4>1. CASE Theme!OpenGallery \/ Theme!RetryCatalog \/ Theme!CatalogFor
        <5>1. \E a : s7' = [s7 EXCEPT !.at = a]
          BY <4>1 DEF Theme!OpenGallery, Theme!RetryCatalog, Theme!CatalogFor
        <5> QED BY <5>1
      <4>2. CASE \E ok \in BOOLEAN : Theme!CatalogAnswered(ok)
        <5>1. \E a, f : s7' = [at |-> a, failed |-> f, wanted |-> FALSE]
          BY <4>2 DEF Theme!CatalogAnswered
        <5>2. DOMAIN s7' = {"at", "failed", "wanted"}
          BY <5>1
        <5> QED BY <1>0, <5>2
      <4> QED BY <2>4, <4>1, <4>2
    <3> QED BY <2>1, <3>1, <3>2
  \* A save of another kind waits behind the choices.
  <2>5. CASE \/ \E id \in Theme!Ids, slot \in Theme!Looks : Theme!SetSystemTheme(slot, id)
             \/ Theme!SetFollowSystem \/ Theme!ToggleFavoriteTheme
    <3>1. UNCHANGED <<s1, s5, s7, s10, s13, s14, s15, s23>> /\ \E c : s16' = Append(s16, c)
      BY <2>5 DEF Theme!SetSystemTheme, Theme!SetFollowSystem, Theme!ToggleFavoriteTheme, Theme!SaveConfig
    <3>2. Theme!IsSeq(s16') /\ \A i \in DOMAIN s16 : i \in DOMAIN s16' /\ s16'[i] = s16[i]
      BY <1>0, <3>1, ChoiceWaits
    <3>3. Theme!ScreenTypeOK'
      BY <1>0, <3>1, <3>2 DEF Theme!ScreenTypeOK, Theme!IsSeq
    <3>4. Theme!Slot' = Theme!Slot
      BY <3>1, SlotsStay
    <3> QED BY <2>0, <3>1, <3>2, <3>3, <3>4, ScreenStays
  <2>6. CASE \E id \in Theme!Ids : Theme!HandleThemeChange(id)
    <3>1. PICK id \in Theme!Ids : Theme!SetTheme(id, Theme!Held, s5, "choose")
      BY <2>6 DEF Theme!HandleThemeChange
    <3>2. UNCHANGED <<s1, s5, s7, s10, s15, s23>>
      BY <2>6 DEF Theme!HandleThemeChange
    <3> QED BY <2>0, <3>1, <3>2, Chosen
  <2>7. CASE Theme!HandleGalleryApply
    <3>1. Theme!SetTheme(s19.selected, Theme!Held, s5, "apply")
      BY <2>7 DEF Theme!HandleGalleryApply
    <3>2. UNCHANGED <<s1, s5, s7, s10, s15, s23>>
      BY <2>7 DEF Theme!HandleGalleryApply
    <3> QED BY <2>0, <3>1, <3>2, Chosen
  <2>8. CASE \E ok \in BOOLEAN : Theme!ChoiceAnswered(ok)
    BY <2>0, <2>8, AnswerShown
  \* New themes: the layout effect is about to run.
  <2>9. CASE \E i \in DOMAIN s17 : Theme!SaveCustomThemes(i)
    <3>1. PICK i \in DOMAIN s17 : Theme!SaveCustomThemes(i)
      BY <2>9
    <3>2. UNCHANGED <<s1, s7>> /\ s15' = [s15 EXCEPT !.current = FALSE] /\ Theme!AfterSave(s17[i])
      BY <3>1 DEF Theme!SaveCustomThemes
    <3>3. s16' = s16 \/ \E c : s16' = Append(s16, c)
      <4>1. PICK s : s = s17[i]
        OBVIOUS
      <4>2. UNCHANGED s16 \/ \E u, k, id : Theme!SaveConfig(u, k, id)
        <5>1. CASE s.then \in {"update", "reset", "create"}
          BY <5>1, <4>1, <3>2 DEF Theme!AfterSave
        <5>2. CASE s.then = "delete"
          BY <5>2, <4>1, <3>2 DEF Theme!AfterSave
        <5>3. CASE s.then \in {"copied", "import"}
          <6>1. \E id, h, th, k : Theme!SetTheme(id, h, th, k)
            BY <5>3, <4>1, <3>2 DEF Theme!AfterSave
          <6> QED BY <6>1 DEF Theme!SetTheme
        <5>4. CASE s.then \notin {"update", "reset", "create", "delete", "copied", "import"}
          BY <5>4, <4>1, <3>2 DEF Theme!AfterSave
        <5> QED BY <5>1, <5>2, <5>3, <5>4
      <4> QED BY <4>2 DEF Theme!SaveConfig
    <3>4. Theme!ScreenTypeOK'
      <4>1. Theme!IsSeq(s16')
        <5>1. CASE s16' = s16
          BY <1>0, <5>1
        <5>2. ASSUME NEW c, s16' = Append(s16, c) PROVE Theme!IsSeq(s16')
          BY <1>0, <5>2, ChoiceWaits
        <5> QED BY <3>3, <5>1, <5>2
      <4> QED BY <1>0, <3>2, <4>1 DEF Theme!ScreenTypeOK, Theme!IsSeq
    <3>5. Theme!EffectRuns'
      BY <2>0, <3>2 DEF Theme!EffectRuns, Theme!Deps
    <3> QED BY <3>4, <3>5 DEF Theme!ScreenInv
  <2>10. CASE \E ok \in BOOLEAN : Theme!LoadCustomThemes(ok)
    <3>1. UNCHANGED <<s1, s7, s10, s13, s14, s16, s23>>
      BY <2>10 DEF Theme!LoadCustomThemes
    <3>2. UNCHANGED <<s5, s15>> \/ s15' = [s15 EXCEPT !.current = FALSE]
      BY <2>10 DEF Theme!LoadCustomThemes
    <3>3. Theme!ScreenTypeOK'
      BY <1>0, <3>1 DEF Theme!ScreenTypeOK, Theme!IsSeq
    <3>4. CASE UNCHANGED <<s5, s15>>
      BY <2>1, <3>1, <3>4
    <3>5. CASE s15' = [s15 EXCEPT !.current = FALSE]
      <4>1. Theme!EffectRuns'
        BY <2>0, <3>5 DEF Theme!EffectRuns, Theme!Deps
      <4> QED BY <3>3, <4>1 DEF Theme!ScreenInv
    <3> QED BY <3>2, <3>4, <3>5
  \* The settings come from elsewhere, or the system changes: no choice waits, or it goes astray.
  <2>11. CASE \E id \in Theme!Ids : Theme!SyncSettings(id)
    <3>1. /\ UNCHANGED <<s5, s7, s10, s13, s14, s15, s16, s23>> /\ s16 = <<>>
          /\ \E id : s1' = [s1 EXCEPT !.theme = id]
      BY <2>11 DEF Theme!SyncSettings
    <3>2. DOMAIN s1' = DOMAIN s1
      BY <3>1
    <3>3. Theme!ScreenTypeOK'
      BY <1>0, <3>1, <3>2 DEF Theme!ScreenTypeOK, Theme!IsSeq
    <3>4. ~Theme!Choosing
      BY <3>1 DEF Theme!Choosing
    <3> QED BY <2>0, <3>1, <3>3, <3>4, ScreenStays
  <2>12. CASE Theme!SystemChanges \/ Theme!SystemAsked
    <3>1. UNCHANGED <<s1, s5, s7, s13, s14, s15, s16>> /\ Theme!LosesChoices
      BY <2>12 DEF Theme!SystemChanges, Theme!SystemAsked
    <3>2. Theme!ScreenTypeOK'
      BY <1>0, <3>1 DEF Theme!ScreenTypeOK, Theme!IsSeq
    <3>3. ~s23' => ~s23 /\ (Theme!Choosing => Theme!Slot' = Theme!Slot)
      BY <3>1, SlotsStay DEF Theme!LosesChoices
    <3>4. \A i \in DOMAIN s16 : \E j \in DOMAIN s16' : s16'[j] = s16[i]
      BY <3>1
    <3> QED BY <2>0, <3>1, <3>2, <3>3, <3>4, ScreenStays
  <2>13. CASE Theme!Restart
    <3>1. /\ UNCHANGED <<s1, s16>> /\ ~s2' /\ s7' = [at |-> "none", failed |-> FALSE, wanted |-> FALSE]
      BY <2>13 DEF Theme!Restart
    <3>2. Theme!ScreenTypeOK'
      BY <1>0, <3>1 DEF Theme!ScreenTypeOK, Theme!IsSeq
    <3> QED BY <3>1, <3>2 DEF Theme!ScreenInv, Theme!Ready
  <2> QED BY <1>3, <2>2, <2>3, <2>4, <2>5, <2>6, <2>7, <2>8, <2>9, <2>10, <2>11, <2>12, <2>13 DEF Theme!Handle
<1> QED BY <1>1, <1>2, <1>3 DEF Theme!Next

LEMMA ThemeIsShown == ASSUME Theme!ScreenInv PROVE Theme!ScreenSettles
<1>1. ASSUME ~Theme!RenderPending PROVE ~Theme!EffectRuns
  BY <1>1, NothingPending DEF Theme!RenderPending
<1> QED BY <1>1 DEF Theme!ScreenInv, Theme!ScreenSettles, Theme!Choosing, Theme!Brings

LEMMA ThemeStarts == ASSUME Theme!Init PROVE Theme!ScreenInv
<1>1. /\ s16 = <<>> /\ ~s2 /\ DOMAIN s7 = {"at", "failed", "wanted"}
      /\ {"theme", "light", "dark", "follow"} \subseteq DOMAIN s1
  BY DEF Theme!Init
<1>2. Theme!IsSeq(s16)
  <2>1. <<>> \in Seq({<<>>[i] : i \in DOMAIN <<>>})
    OBVIOUS
  <2> QED BY <1>1, <2>1 DEF Theme!IsSeq
<1> QED BY <1>1, <1>2 DEF Theme!ScreenInv, Theme!ScreenTypeOK, Theme!Ready

-----------------------------------------------------------------------------
(* The window's look: tinted until a frame was drawn, and then as configured. *)
Look == INSTANCE Appearance WITH Levels <- SliderLevels, MaxActs <- LookActs,
    MaxFaults <- LookFaults, platform <- s1,
    config <- s2, isLoaded <- s3, blur <- s4, known <- s5, look <- s6, keys <- s7, native <- s8,
    sent <- s9, tab <- s10, domScale <- s11, waiting <- s12, visible <- s13, drawn <- s14,
    generation <- s15, tinted <- s16, watching <- s17, frames <- s18, drawing <- s19,
    acts <- s20, faults <- s21

\* Showing and hiding: tinted until a frame was drawn.
LEMMA LookTints == ASSUME Look!TintInv, [Look!Next]_(Look!vars) PROVE Look!TintInv'
<1> USE DEF Look!pageVars, Look!envVars, Look!winVars
<1>0. /\ s15 \in Nat /\ s18 \subseteq [gen : Nat, left : {1, 2}]
      /\ ~s13 => ~s14 /\ ~s19 /\ (s17 => s16)
      /\ ~s17 => s15 = 0 /\ s18 = {}
      /\ \A f \in s18 : f.gen <= s15 /\ (f.gen = s15 /\ f.left = 1 => s14 \/ s19)
      /\ s17 /\ s15 > 0 /\ ~s14 => s16
  BY DEF Look!TintInv, Look!TintUntilDrawn
<1>1. ASSUME UNCHANGED <<s13, s14, s15, s16, s17, s18, s19>> PROVE Look!TintInv'
  BY <1>1 DEF Look!TintInv, Look!TintUntilDrawn
<1>2. CASE Look!Draw
  <2>1. s19 /\ ~s19' /\ s14' /\ UNCHANGED <<s13, s15, s16, s17, s18>>
    BY <1>2 DEF Look!Draw
  <2> QED BY <1>0, <2>1 DEF Look!TintInv, Look!TintUntilDrawn
<1>3. ASSUME ~s19, Look!Hidden PROVE Look!TintInv'
  <2>1. /\ s13 /\ ~s13' /\ ~s14' /\ UNCHANGED <<s17, s18, s19>>
        /\ s17 => s15' = s15 + 1 /\ s16'
        /\ ~s17 => UNCHANGED <<s15, s16>>
    BY <1>3 DEF Look!Hidden, Look!SetWindowTinted
  <2>2. \A f \in s18 : f.gen <= s15' /\ f.gen # s15'
    BY <1>0, <2>1
  <2> QED BY <1>0, <2>1, <2>2, <1>3 DEF Look!TintInv, Look!TintUntilDrawn
<1>4. CASE Look!Shown
  <2>1. /\ ~s13 /\ s13' /\ UNCHANGED <<s14, s16, s17, s19>>
        /\ s17 => s15' = s15 + 1 /\ s18' = s18 \cup {[gen |-> s15 + 1, left |-> 2]}
        /\ ~s17 => UNCHANGED <<s15, s18>>
    BY <1>4 DEF Look!Shown
  <2>2. \A f \in s18' : f \in s18 \/ (s17 /\ f = [gen |-> s15 + 1, left |-> 2])
    BY <2>1
  <2>3. \A f \in s18' : f \in [gen : Nat, left : {1, 2}] /\ f.gen <= s15' /\ (f.gen = s15' /\ f.left = 1 => s14' \/ s19')
    <3> SUFFICES ASSUME NEW f \in s18' PROVE f \in [gen : Nat, left : {1, 2}] /\ f.gen <= s15' /\ (f.gen = s15' /\ f.left = 1 => s14' \/ s19')
      OBVIOUS
    <3>1. CASE f \in s18
      <4>1. f \in [gen : Nat, left : {1, 2}] /\ f.gen \in Nat /\ f.gen <= s15
        BY <3>1, <1>0
      <4>2. s15' = s15 \/ s15' = s15 + 1
        BY <2>1
      <4>3. s15' = s15 => s18 = {}
        BY <1>0, <2>1
      <4> QED BY <4>1, <4>2, <4>3, <3>1, <1>0
    <3>2. CASE s17 /\ f = [gen |-> s15 + 1, left |-> 2]
      BY <3>2, <2>1, <1>0
    <3> QED BY <3>1, <3>2, <2>2
  <2>4. s18' \subseteq [gen : Nat, left : {1, 2}]
    BY <2>3
  <2> QED BY <1>0, <2>1, <2>3, <2>4 DEF Look!TintInv, Look!TintUntilDrawn
<1>5. ASSUME ~s19, Look!Frame PROVE Look!TintInv'
  <2>1. /\ s13 /\ s19' /\ UNCHANGED <<s13, s14, s15, s17>>
        /\ s18' = {[f EXCEPT !.left = @ - 1] : f \in {g \in s18 : g.left > 1}}
        /\ s16' = s16 \/ Look!Untints
    BY <1>5 DEF Look!Frame, Look!SetWindowTinted, Look!Pending
  <2>2. Look!Untints => s14
    BY <1>0, <1>5 DEF Look!Untints, Look!Due, Look!IsCurrent
  <2>3. \A f \in s18 : f.left > 1 =>
            [f EXCEPT !.left = @ - 1] \in [gen : Nat, left : {1, 2}] /\ [f EXCEPT !.left = @ - 1].gen = f.gen
    <3> SUFFICES ASSUME NEW f \in s18, f.left > 1
                 PROVE  [f EXCEPT !.left = @ - 1] \in [gen : Nat, left : {1, 2}] /\ [f EXCEPT !.left = @ - 1].gen = f.gen
      OBVIOUS
    <3>1. f \in [gen : Nat, left : {1, 2}]
      BY <1>0
    <3>2. f.left - 1 = 1
      BY <3>1
    <3> QED BY <3>1, <3>2
  <2>4. \A f \in s18' : f \in [gen : Nat, left : {1, 2}] /\ f.gen <= s15
    BY <2>1, <2>3, <1>0
  <2>5. ~s17 => s18' = {}
    BY <2>1, <1>0
  <2>6. s18' \subseteq [gen : Nat, left : {1, 2}]
    BY <2>4
  <2> QED BY <1>0, <2>1, <2>2, <2>4, <2>5, <2>6 DEF Look!TintInv, Look!TintUntilDrawn
<1>6. CASE \E l \in {"l", "d"} : Look!ApplyThemeToDom(l)
  <2>1. s17' /\ (s16' <=> s16 \/ (~s17 /\ ~s13)) /\ UNCHANGED <<s13, s14, s15, s18, s19>>
    BY <1>6 DEF Look!ApplyThemeToDom
  <2> QED BY <1>0, <2>1 DEF Look!TintInv, Look!TintUntilDrawn
<1>7. CASE \/ \E ok \in BOOLEAN : Look!NativeAnswers(ok) \/ Look!SaveAnswered(ok)
           \/ Look!OpenTab \/ Look!CloseTab \/ Look!CommitUiScale \/ Look!LoadConfig
  <2>1. UNCHANGED <<s13, s14, s15, s16, s17, s18, s19>>
    BY <1>7 DEF Look!NativeAnswers, Look!SaveAnswered, Look!OpenTab, Look!CloseTab, Look!CommitUiScale,
       Look!LoadConfig
  <2> QED BY <1>1, <2>1
<1>8. CASE \/ \E s \in {"radius", "opacity"} : Look!Commit(s) \/ \E v \in SliderLevels : Look!MoveSlider(s, v)
           \/ \E on \in BOOLEAN : Look!SaveSwitch("blur", on)
           \/ \E m \in {"acrylic", "mica"} : Look!SaveSwitch("material", m)
           \/ \E v \in SliderLevels : Look!PreviewUiScale(v)
           \/ UNCHANGED Look!vars
  <2>1. UNCHANGED <<s13, s14, s15, s16, s17, s18, s19>>
    BY <1>8 DEF Look!Commit, Look!MoveSlider, Look!SaveSwitch, Look!PreviewUiScale, Look!vars
  <2> QED BY <1>1, <2>1
<1> QED BY <1>2, <1>3, <1>4, <1>5, <1>6, <1>7, <1>8 DEF Look!Next, Look!Handle

LEMMA IsSeqOf == ASSUME NEW S, NEW s \in Seq(S) PROVE Look!IsSeq(s)
<1> DEFINE A == {s[i] : i \in DOMAIN s}
<1>1. Len(s) \in Nat /\ DOMAIN s = 1..Len(s) /\ \A i \in 1..Len(s) : s[i] \in A
  OBVIOUS
<1> HIDE DEF A
<1>2. s = [i \in 1..Len(s) |-> s[i]]
  BY <1>1
<1>3. [i \in 1..Len(s) |-> s[i]] \in [1..Len(s) -> A]
  BY <1>1
<1>4. [i \in 1..Len(s) |-> s[i]] \in Seq(A)
  BY <1>1
<1>5. s \in Seq(A)
  BY <1>2, <1>4, Zenon
<1> QED BY <1>5 DEF Look!IsSeq, A

LEMMA SeqsJoined ==
    ASSUME NEW s, NEW t, Look!IsSeq(s), Look!IsSeq(t)
    PROVE  /\ Look!IsSeq(s \o t) /\ Len(s \o t) = Len(s) + Len(t) /\ Len(s) \in Nat /\ Len(t) \in Nat
           /\ \A i \in 1..Len(s) : (s \o t)[i] = s[i]
           /\ \A i \in 1..Len(t) : (s \o t)[Len(s) + i] = t[i]
<1> DEFINE A == {s[i] : i \in DOMAIN s}
           B == {t[i] : i \in DOMAIN t}
<1>1. s \in Seq(A) /\ t \in Seq(B)
  BY DEF Look!IsSeq
<1> HIDE DEF A, B
<1>2. s \in Seq(A \cup B) /\ t \in Seq(A \cup B)
  BY <1>1
<1>3. /\ s \o t \in Seq(A \cup B) /\ Len(s \o t) = Len(s) + Len(t) /\ Len(s) \in Nat /\ Len(t) \in Nat
      /\ \A i \in 1..Len(s) : (s \o t)[i] = s[i]
      /\ \A i \in 1..Len(t) : (s \o t)[Len(s) + i] = t[i]
  BY <1>2
<1> QED BY <1>3, IsSeqOf

LEMMA SeqTail ==
    ASSUME NEW s, Look!IsSeq(s), s # <<>>
    PROVE  /\ Look!IsSeq(Tail(s)) /\ Len(s) \in Nat \ {0} /\ Len(Tail(s)) = Len(s) - 1 /\ Head(s) = s[1]
           /\ \A i \in 1..(Len(s) - 1) : Tail(s)[i] = s[i + 1]
<1> DEFINE A == {s[i] : i \in DOMAIN s}
<1>1. s \in Seq(A)
  BY DEF Look!IsSeq
<1> HIDE DEF A
<1>3. /\ Tail(s) \in Seq(A) /\ Len(s) \in Nat \ {0} /\ Len(Tail(s)) = Len(s) - 1 /\ Head(s) = s[1]
      /\ \A i \in 1..(Len(s) - 1) : Tail(s)[i] = s[i + 1]
  BY <1>1
<1> QED BY <1>3, IsSeqOf

LEMMA ShortSeqs == Look!IsSeq(<<>>) /\ \A x : Look!IsSeq(<<x>>) /\ Len(<<x>>) = 1 /\ <<x>>[1] = x
<1>1. ASSUME NEW x PROVE Look!IsSeq(<<x>>) /\ Len(<<x>>) = 1 /\ <<x>>[1] = x
  <2>1. <<x>> \in Seq({x}) /\ DOMAIN <<x>> = {1} /\ <<x>>[1] = x /\ Len(<<x>>) = 1
    OBVIOUS
  <2>2. {<<x>>[i] : i \in DOMAIN <<x>>} = {x}
    BY <2>1
  <2> QED BY <2>1, <2>2 DEF Look!IsSeq
<1> QED BY <1>1 DEF Look!IsSeq

\* What is sent for the background leaves the blur alone; a call for the blur is the last.
LEMMA OthersSent ==
    ASSUME NEW q, NEW t, Look!CallsOK(q), Look!CallsOK(t), \A i \in 1..Len(t) : t[i].kind # "blur"
    PROVE  Look!CallsOK(q \o t) /\ \A v : Look!Brings(q, v) => Look!Brings(q \o t, v)
<1> DEFINE u == q \o t
           n == Len(q)
<1>1. /\ Look!IsSeq(u) /\ Len(u) = n + Len(t) /\ n \in Nat /\ Len(t) \in Nat
      /\ \A i \in 1..n : u[i] = q[i]
      /\ \A i \in 1..Len(t) : u[n + i] = t[i]
  BY SeqsJoined DEF Look!CallsOK
<1> HIDE DEF u
<1>2. \A i \in 1..Len(u) : i \in 1..n \/ (i - n \in 1..Len(t) /\ u[i] = t[i - n])
  <2> SUFFICES ASSUME NEW i \in 1..Len(u), i \notin 1..n PROVE i - n \in 1..Len(t) /\ u[i] = t[i - n]
    OBVIOUS
  <2>1. i - n \in 1..Len(t) /\ i = n + (i - n)
    BY <1>1
  <2> QED BY <2>1, <1>1
<1>3. Look!CallsOK(u)
  BY <1>1, <1>2 DEF Look!CallsOK
<1>4. ASSUME NEW v, Look!Brings(q, v) PROVE Look!Brings(u, v)
  <2>1. ASSUME NEW i \in 1..Len(u), u[i].kind = "blur", \A j \in (i + 1)..Len(u) : u[j].kind # "blur"
        PROVE  u[i].value = v
    <3>1. i \in 1..n
      BY <2>1, <1>2
    <3>2. \A j \in (i + 1)..n : q[j].kind # "blur"
      BY <2>1, <3>1, <1>1
    <3> QED BY <2>1, <3>1, <3>2, <1>1, <1>4 DEF Look!Brings
  <2>2. ASSUME \A i \in 1..Len(u) : u[i].kind # "blur" PROVE s8.blur = v
    <3>1. \A i \in 1..n : q[i].kind # "blur"
      BY <2>2, <1>1
    <3> QED BY <3>1, <1>4 DEF Look!Brings
  <2> QED BY <2>1, <2>2 DEF Look!Brings
<1> QED BY <1>3, <1>4 DEF u

LEMMA BlurSent ==
    ASSUME NEW q, NEW v, Look!CallsOK(q)
    PROVE  LET u == q \o <<[kind |-> "blur", value |-> v]>> IN Look!CallsOK(u) /\ Look!Brings(u, v)
<1> DEFINE t == <<[kind |-> "blur", value |-> v]>>
           u == q \o t
           n == Len(q)
<1>0. Look!IsSeq(t) /\ Len(t) = 1 /\ t[1] = [kind |-> "blur", value |-> v]
  BY ShortSeqs
<1> HIDE DEF t
<1>1. /\ Look!IsSeq(u) /\ Len(u) = n + 1 /\ n \in Nat /\ u[n + 1] = [kind |-> "blur", value |-> v]
      /\ \A i \in 1..n : u[i] = q[i]
  <2>1. /\ Look!IsSeq(u) /\ Len(u) = n + Len(t) /\ n \in Nat
        /\ \A i \in 1..n : u[i] = q[i]
        /\ \A i \in 1..Len(t) : u[n + i] = t[i]
    <3>1. Look!IsSeq(q) /\ Look!IsSeq(t)
      BY <1>0 DEF Look!CallsOK
    <3> QED BY <3>1, SeqsJoined
  <2>2. 1 \in 1..Len(t)
    BY <1>0
  <2> HIDE DEF u
  <2> QED BY <1>0, <2>1, <2>2
<1> HIDE DEF u
<1>2. Look!CallsOK(u)
  BY <1>1 DEF Look!CallsOK
<1>3. Look!Brings(u, v)
  <2>1. n + 1 \in 1..Len(u) /\ u[n + 1].kind = "blur" /\ u[n + 1].value = v
    BY <1>1
  <2>2. ASSUME NEW i \in 1..Len(u), \A j \in (i + 1)..Len(u) : u[j].kind # "blur" PROVE i = n + 1
    BY <2>1, <2>2, <1>1
  <2> QED BY <2>1, <2>2 DEF Look!Brings
<1> QED BY <1>2, <1>3 DEF u, t


LEMMA BackgroundCallsOK ==
    ASSUME NEW k, NEW key, NEW l
    PROVE  LET t == Look!BackgroundCalls(k, key, l)
           IN  Look!CallsOK(t) /\ \A i \in 1..Len(t) : t[i].kind # "blur"
<1> DEFINE save == [kind |-> "save", value |-> l]
           back == [kind |-> "background", value |-> key]
           a == IF l = k.saved THEN <<>> ELSE <<save>>
           b == IF s1 = "windows" THEN <<>> ELSE <<back>>
           Ok(t) == Look!CallsOK(t) /\ \A i \in 1..Len(t) : t[i].kind # "blur"
<1>1. Ok(<<>>) /\ Ok(<<save>>) /\ Ok(<<back>>)
  BY ShortSeqs DEF Look!CallsOK
<1>2. Ok(a) /\ Ok(b)
  BY <1>1
<1> HIDE DEF a, b
<1>3. Ok(a \o b)
  <2> DEFINE u == a \o b
             n == Len(a)
  <2>1. /\ Look!IsSeq(u) /\ Len(u) = n + Len(b) /\ n \in Nat /\ Len(b) \in Nat
        /\ \A i \in 1..n : u[i] = a[i]
        /\ \A i \in 1..Len(b) : u[n + i] = b[i]
    BY <1>2, SeqsJoined DEF Look!CallsOK
  <2> HIDE DEF u
  <2>2. ASSUME NEW i \in 1..Len(u) PROVE u[i].kind \in {"background", "save"}
    <3>1. CASE i \in 1..n
      BY <3>1, <2>1, <1>2 DEF Look!CallsOK
    <3>2. CASE i \notin 1..n
      <4>1. i - n \in 1..Len(b) /\ i = n + (i - n)
        BY <3>2, <2>1
      <4>2. u[i] = b[i - n]
        BY <4>1, <2>1
      <4> QED BY <4>1, <4>2, <1>2 DEF Look!CallsOK
    <3> QED BY <3>1, <3>2
  <2>3. Ok(u)
    BY <2>1, <2>2 DEF Look!CallsOK
  <2> QED BY <2>3 DEF u
<1> QED BY <1>1, <1>3 DEF Look!BackgroundCalls, a, b

\* What is in force of the window: calls on their way, and the key that is remembered.
LEMMA SyncSends ==
    ASSUME Look!LookInv, NEW b, NEW isKnown \in BOOLEAN, NEW l, NEW t, Look!Sync(b, isKnown, l, t),
           UNCHANGED <<s1, s8>>
    PROVE  /\ DOMAIN s7' = {"background", "blur", "saved"} /\ Look!CallsOK(s9)'
           /\ (s7.blur # Look!Unknown => Look!Brings(s9, s7.blur))'
           /\ s7'.blur = IF isKnown THEN Look!BlurKey(b, l) ELSE s7.blur
<1> DEFINE back == Look!BackgroundKey(b, l, t)
           key == Look!BlurKey(b, l)
           first == s9 \o Look!BackgroundCalls(s7, back, l)
<1>1. /\ s9' = first \o Look!BlurCalls(s7, key, isKnown)
      /\ s7' = [background |-> back, saved |-> l, blur |-> IF isKnown THEN key ELSE s7.blur]
  BY DEF Look!Sync
<1>2. Look!CallsOK(first) /\ \A v : Look!Brings(s9, v) => Look!Brings(first, v)
  <2>1. Look!CallsOK(s9)
    BY DEF Look!LookInv, Look!LookTypeOK
  <2> QED BY <2>1, BackgroundCallsOK, OthersSent
<1> HIDE DEF back, key, first
<1>3. DOMAIN s7' = {"background", "blur", "saved"} /\ s7'.blur = IF isKnown THEN key ELSE s7.blur
  BY <1>1
<1>4. CASE ~isKnown \/ key = s7.blur
  <2>1. s9' = first \o <<>> /\ s7'.blur = s7.blur
    BY <1>1, <1>3, <1>4 DEF Look!BlurCalls
  <2>2. Look!CallsOK(s9') /\ \A v : Look!Brings(first, v) => Look!Brings(s9', v)
    <3>1. Look!CallsOK(<<>>) /\ \A i \in 1..Len(<<>>) : <<>>[i].kind # "blur"
      BY ShortSeqs DEF Look!CallsOK
    <3> QED BY <2>1, <3>1, <1>2, OthersSent
  <2>3. s7.blur # Look!Unknown => Look!Brings(s9', s7'.blur)
    BY <2>1, <2>2, <1>2 DEF Look!LookInv
  <2> QED BY <1>3, <2>1, <2>2, <2>3 DEF key, Look!CallsOK, Look!Brings, Look!IsSeq, Look!Unknown
<1>5. CASE isKnown /\ key # s7.blur
  <2>1. s9' = first \o <<[kind |-> "blur", value |-> key]>> /\ s7'.blur = key
    BY <1>1, <1>3, <1>5 DEF Look!BlurCalls
  <2>2. Look!CallsOK(s9') /\ Look!Brings(s9', s7'.blur)
    BY <2>1, <1>2, BlurSent
  <2> QED BY <1>3, <2>1, <2>2 DEF key, Look!CallsOK, Look!Brings, Look!IsSeq
<1> QED BY <1>4, <1>5

LEMMA BackgroundSent ==
    ASSUME Look!LookInv, NEW t, Look!SetWindowTinted(t), UNCHANGED s8
    PROVE  /\ DOMAIN s7' = {"background", "blur", "saved"} /\ Look!CallsOK(s9)'
           /\ (s7.blur # Look!Unknown => Look!Brings(s9, s7.blur))'
           /\ s7'.blur = s7.blur
<1>0. DOMAIN s7 = {"background", "blur", "saved"} /\ Look!CallsOK(s9)
  BY DEF Look!LookInv, Look!LookTypeOK
<1>1. CASE UNCHANGED <<s7, s9>>
  BY <1>0, <1>1 DEF Look!LookInv, Look!CallsOK, Look!Brings, Look!IsSeq, Look!Unknown
<1>2. CASE Look!SyncBackground(t)
  <2> DEFINE back == Look!BackgroundKey(s4, s6, t)
  <2>1. /\ s9' = s9 \o Look!BackgroundCalls(s7, back, s6)
        /\ s7' = [s7 EXCEPT !.background = back, !.saved = s6]
    BY <1>2 DEF Look!SyncBackground
  <2>2. Look!CallsOK(s9') /\ \A v : Look!Brings(s9, v) => Look!Brings(s9', v)
    BY <1>0, <2>1, BackgroundCallsOK, OthersSent
  <2>3. DOMAIN s7' = {"background", "blur", "saved"} /\ s7'.blur = s7.blur
    BY <1>0, <2>1
  <2>4. s7.blur # Look!Unknown => Look!Brings(s9', s7'.blur)
    BY <2>2, <2>3 DEF Look!LookInv
  <2> QED BY <2>2, <2>3, <2>4 DEF Look!CallsOK, Look!Brings, Look!IsSeq, Look!Unknown
<1> QED BY <1>1, <1>2 DEF Look!SetWindowTinted

LEMMA BlurSet ==
    ASSUME Look!LookInv, NEW b, Look!SetWindowBlur(b), UNCHANGED <<s1, s6, s8>>
    PROVE  /\ DOMAIN s7' = {"background", "blur", "saved"} /\ Look!CallsOK(s9)'
           /\ (s7.blur # Look!Unknown => Look!Brings(s9, s7.blur))'
           /\ (s7.blur \in {Look!Unknown, Look!BlurKey(s4, s6)})' /\ s4' = b /\ s5'
<1>1. s4' = b /\ s5'
  BY DEF Look!SetWindowBlur
<1>2. CASE s5 /\ b = s4
  <2>1. UNCHANGED <<s4, s7, s9>>
    BY <1>1, <1>2 DEF Look!SetWindowBlur
  <2> QED BY <1>1, <1>2, <2>1 DEF Look!LookInv, Look!LookTypeOK, Look!CallsOK, Look!Brings, Look!IsSeq,
      Look!Unknown, Look!BlurKey
<1>3. CASE ~(s5 /\ b = s4)
  <2>1. Look!Sync(b, TRUE, s6, s16)
    BY <1>3 DEF Look!SetWindowBlur
  <2>2. /\ DOMAIN s7' = {"background", "blur", "saved"} /\ Look!CallsOK(s9)'
        /\ (s7.blur # Look!Unknown => Look!Brings(s9, s7.blur))'
        /\ s7'.blur = Look!BlurKey(b, s6)
    BY <2>1, SyncSends
  <2>3. (s7.blur \in {Look!Unknown, Look!BlurKey(s4, s6)})'
    BY <1>1, <2>2 DEF Look!BlurKey, Look!Unknown
  <2> QED BY <1>1, <2>2, <2>3
<1> QED BY <1>2, <1>3

\* The first call is answered: the window has it, or its key is forgotten.
LEMMA NativeKeeps ==
    ASSUME Look!LookInv, NEW ok \in BOOLEAN, Look!NativeAnswers(ok) PROVE Look!LookInv'
<1> DEFINE c == Head(s9)
           n == Len(s9)
<1>0. /\ Look!IsSeq(s9) /\ s9 # <<>> /\ s9' = Tail(s9)
      /\ \A i \in 1..n : s9[i].kind \in {"background", "blur", "save"}
  BY DEF Look!LookInv, Look!LookTypeOK, Look!CallsOK, Look!NativeAnswers
<1>1. /\ Look!IsSeq(s9') /\ n \in Nat \ {0} /\ Len(s9') = n - 1 /\ c = s9[1]
      /\ \A i \in 1..(n - 1) : s9'[i] = s9[i + 1]
  BY <1>0, SeqTail
<1>2. c.kind \in {"background", "blur", "save"} /\ Look!CallsOK(s9')
  BY <1>0, <1>1 DEF Look!CallsOK
<1>3. UNCHANGED <<s1, s2, s3, s4, s5, s6, s10, s11, s12>>
  BY DEF Look!NativeAnswers, Look!pageVars
<1>4. CASE ok
  <2>1. s7' = s7 /\ s8' = [s8 EXCEPT ![c.kind] = c.value]
    BY <1>4 DEF Look!NativeAnswers
  <2>2. DOMAIN s8' = DOMAIN s8 /\ s8'.blur = IF c.kind = "blur" THEN c.value ELSE s8.blur
    BY <2>1 DEF Look!LookInv, Look!LookTypeOK
  <2>3. ASSUME s7.blur # Look!Unknown PROVE Look!Brings(s9, s7.blur)'
    <3>1. Look!Brings(s9, s7.blur)
      BY <2>3 DEF Look!LookInv
    <3>2. ASSUME NEW i \in 1..Len(s9'), s9'[i].kind = "blur", \A j \in (i + 1)..Len(s9') : s9'[j].kind # "blur"
          PROVE  s9'[i].value = s7.blur
      <4>1. i + 1 \in 1..n /\ s9'[i] = s9[i + 1]
        BY <3>2, <1>1
      <4>2. \A j \in (i + 2)..n : j - 1 \in (i + 1)..Len(s9') /\ s9'[j - 1] = s9[j]
        BY <1>1
      <4>3. \A j \in (i + 2)..n : s9[j].kind # "blur"
        BY <3>2, <4>2
      <4> QED BY <3>1, <3>2, <4>1, <4>3 DEF Look!Brings
    <3>3. ASSUME \A i \in 1..Len(s9') : s9'[i].kind # "blur" PROVE s8'.blur = s7.blur
      <4>1. \A j \in 2..n : j - 1 \in 1..Len(s9') /\ s9'[j - 1] = s9[j]
        BY <1>1
      <4>2. \A j \in 2..n : s9[j].kind # "blur"
        BY <3>3, <4>1
      <4>3. CASE c.kind = "blur"
        <5>1. s9[1].value = s7.blur
          BY <3>1, <4>2, <4>3, <1>1 DEF Look!Brings
        <5> QED BY <5>1, <4>3, <2>2, <1>1
      <4>4. CASE c.kind # "blur"
        <5>1. \A j \in 1..n : j = 1 \/ j \in 2..n
          BY <1>1
        <5>2. \A j \in 1..n : s9[j].kind # "blur"
          BY <4>2, <4>4, <5>1, <1>1
        <5> QED BY <5>2, <4>4, <3>1, <2>2 DEF Look!Brings
      <4> QED BY <4>3, <4>4
    <3> QED BY <3>2, <3>3, <2>1 DEF Look!Brings
  <2> QED BY <1>2, <1>3, <2>1, <2>2, <2>3 DEF Look!LookInv, Look!LookTypeOK, Look!CallsOK, Look!IsSeq,
      Look!BlurKey, Look!Unknown, Look!BlurOf, Look!Off, Look!Closed
<1>5. CASE ~ok
  <2>1. s8' = s8 /\ s7' = CASE c.kind = "blur" -> [s7 EXCEPT !.blur = Look!Unknown]
                             [] c.kind = "background" -> [s7 EXCEPT !.background = Look!Unknown]
                             [] c.kind = "save" -> [s7 EXCEPT !.background = Look!Unknown, !.saved = Look!NoColor]
    BY <1>5 DEF Look!NativeAnswers
  <2>2. DOMAIN s7' = DOMAIN s7 /\ s7'.blur = IF c.kind = "blur" THEN Look!Unknown ELSE s7.blur
    BY <2>1, <1>2 DEF Look!LookInv, Look!LookTypeOK
  <2>3. ASSUME s7'.blur # Look!Unknown PROVE Look!Brings(s9, s7.blur)'
    <3>0. c.kind # "blur" /\ s7'.blur = s7.blur
      BY <2>2, <2>3
    <3>1. Look!Brings(s9, s7.blur)
      BY <2>3, <3>0 DEF Look!LookInv
    <3>2. ASSUME NEW i \in 1..Len(s9'), s9'[i].kind = "blur", \A j \in (i + 1)..Len(s9') : s9'[j].kind # "blur"
          PROVE  s9'[i].value = s7.blur
      <4>1. i + 1 \in 1..n /\ s9'[i] = s9[i + 1]
        BY <3>2, <1>1
      <4>2. \A j \in (i + 2)..n : j - 1 \in (i + 1)..Len(s9') /\ s9'[j - 1] = s9[j]
        BY <1>1
      <4>3. \A j \in (i + 2)..n : s9[j].kind # "blur"
        BY <3>2, <4>2
      <4> QED BY <3>1, <3>2, <4>1, <4>3 DEF Look!Brings
    <3>3. ASSUME \A i \in 1..Len(s9') : s9'[i].kind # "blur" PROVE s8.blur = s7.blur
      <4>1. \A j \in 2..n : j - 1 \in 1..Len(s9') /\ s9'[j - 1] = s9[j]
        BY <1>1
      <4>2. \A j \in 1..n : j = 1 \/ j \in 2..n
        BY <1>1
      <4>3. \A j \in 1..n : s9[j].kind # "blur"
        BY <3>0, <3>3, <4>1, <4>2, <1>1
      <4> QED BY <4>3, <3>1 DEF Look!Brings
    <3> QED BY <3>0, <3>2, <3>3, <2>1 DEF Look!Brings
  <2> QED BY <1>2, <1>3, <2>1, <2>2, <2>3 DEF Look!LookInv, Look!LookTypeOK, Look!CallsOK, Look!IsSeq,
      Look!BlurKey, Look!Unknown, Look!BlurOf, Look!Off, Look!Closed
<1> QED BY <1>4, <1>5

\* The rest of the page, when only the tint changes or nothing of it does.
LEMMA LookLeft ==
    ASSUME Look!LookInv, UNCHANGED <<s1, s2, s3, s4, s5, s6, s8, s10, s11, s12>>,
           UNCHANGED <<s7, s9>> \/ \E t \in BOOLEAN : Look!SetWindowTinted(t)
    PROVE  Look!LookInv'
<1>1. /\ DOMAIN s7' = {"background", "blur", "saved"} /\ Look!CallsOK(s9)'
      /\ (s7.blur # Look!Unknown => Look!Brings(s9, s7.blur))' /\ s7'.blur = s7.blur
  <2>1. CASE UNCHANGED <<s7, s9>>
    BY <2>1 DEF Look!LookInv, Look!LookTypeOK, Look!CallsOK, Look!Brings, Look!IsSeq, Look!Unknown
  <2>2. CASE \E t \in BOOLEAN : Look!SetWindowTinted(t)
    BY <2>2, BackgroundSent
  <2> QED BY <2>1, <2>2
<1>2. (s5 => s7.blur \in {Look!Unknown, Look!BlurKey(s4, s6)})'
  BY <1>1 DEF Look!LookInv, Look!BlurKey, Look!Unknown
<1>3. (s3 /\ ~s10.open => s4 = Look!BlurOf(s2) /\ s11 = s2.scale)'
  BY DEF Look!LookInv, Look!BlurOf, Look!Off
<1> QED BY <1>1, <1>2, <1>3 DEF Look!LookInv, Look!LookTypeOK, Look!Closed, Look!IsSeq

\* A save is asked for: the page shows what it showed.
LEMMA SaveAsked ==
    ASSUME Look!LookInv, UNCHANGED <<s1, s2, s3, s4, s5, s6, s7, s8, s9>>,
           DOMAIN s10' = DOMAIN s10, s10'.open = s10.open, s10.open \/ s11' = s11,
           s12' = s12 \/ \E w : s12' = Append(s12, w) /\ w.key \in {"blur", "material", "radius", "opacity", "scale"}
    PROVE  Look!LookInv'
<1>1. Look!IsSeq(s12') /\ \A i \in 1..Len(s12') : s12'[i].key \in {"blur", "material", "radius", "opacity", "scale"}
  <2>1. Look!IsSeq(s12) /\ \A i \in 1..Len(s12) : s12[i].key \in {"blur", "material", "radius", "opacity", "scale"}
    BY DEF Look!LookInv, Look!LookTypeOK
  <2>2. CASE \E w : s12' = Append(s12, w) /\ w.key \in {"blur", "material", "radius", "opacity", "scale"}
    <3>1. PICK w : s12' = Append(s12, w) /\ w.key \in {"blur", "material", "radius", "opacity", "scale"}
      BY <2>2
    <3> DEFINE S == {s12[i] : i \in DOMAIN s12} \cup {w}
    <3>2. s12 \in Seq(S)
      BY <2>1 DEF Look!IsSeq
    <3> HIDE DEF S
    <3>3. w \in S
      BY DEF S
    <3>4. s12' \in Seq(S) /\ \A i \in 1..Len(s12') : (i \in 1..Len(s12) /\ s12'[i] = s12[i]) \/ s12'[i] = w
      BY <3>1, <3>2, <3>3
    <3> QED BY <3>1, <3>4, <2>1, IsSeqOf
  <2> QED BY <2>1, <2>2
<1>2. Look!LookTypeOK'
  BY <1>1 DEF Look!LookInv, Look!LookTypeOK, Look!Closed, Look!CallsOK, Look!IsSeq
<1>3. (s7.blur # Look!Unknown => Look!Brings(s9, s7.blur))'
  BY DEF Look!LookInv, Look!Unknown, Look!Brings
<1>4. (s5 => s7.blur \in {Look!Unknown, Look!BlurKey(s4, s6)})'
  BY DEF Look!LookInv, Look!BlurKey, Look!Unknown
<1>5. (s3 /\ ~s10.open => s4 = Look!BlurOf(s2) /\ s11 = s2.scale)'
  BY DEF Look!LookInv, Look!BlurOf, Look!Off
<1> QED BY <1>2, <1>3, <1>4, <1>5 DEF Look!LookInv

\* The window is set to a blur: the configured one, once the page is closed.
LEMMA BlurKeeps ==
    ASSUME Look!LookInv, NEW b, Look!SetWindowBlur(b), UNCHANGED <<s1, s6, s8>>,
           DOMAIN s2' = DOMAIN s2, DOMAIN s10' = DOMAIN s10, s12' = s12 \/ (s12 # <<>> /\ s12' = Tail(s12)),
           s10'.open => s3', s3' /\ ~s10'.open => b = Look!BlurOf(s2)' /\ s11' = s2'.scale
    PROVE  Look!LookInv'
<1>1. /\ DOMAIN s7' = {"background", "blur", "saved"} /\ Look!CallsOK(s9)'
      /\ (s7.blur # Look!Unknown => Look!Brings(s9, s7.blur))'
      /\ (s7.blur \in {Look!Unknown, Look!BlurKey(s4, s6)})' /\ s4' = b /\ s5'
  BY BlurSet
<1>2. Look!IsSeq(s12') /\ \A i \in 1..Len(s12') : s12'[i].key \in DOMAIN s2
  <2>1. Look!IsSeq(s12) /\ \A i \in 1..Len(s12) : s12[i].key \in DOMAIN s2
    BY DEF Look!LookInv, Look!LookTypeOK
  <2>2. CASE s12 # <<>> /\ s12' = Tail(s12)
    BY <2>1, <2>2, SeqTail
  <2> QED BY <2>1, <2>2
<1>3. s5' \in BOOLEAN
  BY DEF Look!SetWindowBlur
<1>4. Look!LookTypeOK'
  BY <1>1, <1>2, <1>3 DEF Look!LookInv, Look!LookTypeOK, Look!Closed, Look!IsSeq
<1> QED BY <1>1, <1>4 DEF Look!LookInv

\* A save was answered: what it changes is what the window and the page take over.
LEMMA SavesAnswered == ASSUME Look!LookInv, NEW ok \in BOOLEAN, Look!SaveAnswered(ok) PROVE Look!LookInv'
<1> DEFINE w == Head(s12)
<1> USE DEF Look!pageVars, Look!winVars
<1>0. /\ DOMAIN s10 = {"open", "radius", "opacity", "scale", "saving", "mount"} /\ (s10.open => s3)
      /\ DOMAIN s2 = {"blur", "material", "radius", "opacity", "scale"}
      /\ s3 /\ ~s10.open => s4 = Look!BlurOf(s2) /\ s11 = s2.scale
      /\ Look!IsSeq(s12) /\ \A i \in 1..Len(s12) : s12[i].key \in {"blur", "material", "radius", "opacity", "scale"}
  BY DEF Look!LookInv, Look!LookTypeOK, Look!Closed
<1>1. /\ UNCHANGED <<s1, s3, s6, s8>> /\ s12 # <<>> /\ s12' = Tail(s12)
      /\ IF ok THEN Look!Saved(w) ELSE Look!Refused(w)
  BY DEF Look!SaveAnswered
<1>2. w.key \in {"blur", "material", "radius", "opacity", "scale"}
  <2>1. w = s12[1] /\ Len(s12) \in Nat \ {0}
    BY <1>0, <1>1, SeqTail
  <2> QED BY <2>1, <1>0
\* Nothing of the window changes.
<1>3. ASSUME UNCHANGED <<s4, s5, s7, s9>>, DOMAIN s2' = DOMAIN s2, DOMAIN s10' = DOMAIN s10, s10'.open = s10.open,
             ~s10.open => Look!BlurOf(s2)' = Look!BlurOf(s2) /\ (s3 => s11' = s2'.scale)
      PROVE  Look!LookInv'
  <2>1. Look!IsSeq(s12') /\ \A i \in 1..Len(s12') : s12'[i].key \in {"blur", "material", "radius", "opacity", "scale"}
    BY <1>0, <1>1, SeqTail
  <2>2. Look!LookTypeOK'
    BY <2>1, <1>1, <1>3 DEF Look!LookInv, Look!LookTypeOK, Look!Closed, Look!CallsOK, Look!IsSeq
  <2>3. (s7.blur # Look!Unknown => Look!Brings(s9, s7.blur))'
    BY <1>1, <1>3 DEF Look!LookInv, Look!Unknown, Look!Brings
  <2>4. (s5 => s7.blur \in {Look!Unknown, Look!BlurKey(s4, s6)})'
    BY <1>1, <1>3 DEF Look!LookInv, Look!BlurKey, Look!Unknown
  <2>5. (s3 /\ ~s10.open => s4 = Look!BlurOf(s2) /\ s11 = s2.scale)'
    BY <1>1, <1>3 DEF Look!LookInv
  <2>6. (s3 => s5)' /\ (s10.open => s3)'
    BY <1>1, <1>3 DEF Look!LookInv
  <2> QED BY <2>2, <2>3, <2>4, <2>5, <2>6 DEF Look!LookInv
<1>4. CASE ok
  <2> DEFINE c == [s2 EXCEPT ![w.key] = w.value]
  <2>1. /\ s2' = c /\ s11' = IF w.key = "scale" /\ c # s2 THEN c.scale ELSE s11
        /\ IF w.key # "scale" /\ c # s2 THEN Look!SetWindowBlur(Look!BlurOf(c)) ELSE UNCHANGED <<s4, s5, s7, s9>>
    BY <1>1, <1>4 DEF Look!Saved
  <2>2. DOMAIN s10' = DOMAIN s10 /\ s10'.open = s10.open
    BY <1>0, <1>1, <1>4 DEF Look!Saved
  <2>3. DOMAIN s2' = DOMAIN s2 /\ Look!BlurOf(c) = Look!BlurOf(s2)' /\ s2'.scale = IF w.key = "scale" THEN w.value ELSE s2.scale
    BY <2>1, <1>0 DEF Look!BlurOf, Look!Off
  <2>4. CASE w.key # "scale" /\ c # s2
    BY <1>0, <1>1, <2>1, <2>2, <2>3, <2>4, BlurKeeps
  <2>5. CASE ~(w.key # "scale" /\ c # s2)
    <3>1. Look!BlurOf(s2)' = Look!BlurOf(s2)
      BY <2>1, <2>5, <1>0 DEF Look!BlurOf, Look!Off
    <3>2. ~s10.open /\ s3 => s11' = s2'.scale
      BY <2>1, <2>5, <1>0
    <3> QED BY <1>3, <2>1, <2>2, <2>3, <2>5, <3>1, <3>2
  <2> QED BY <2>4, <2>5
<1>5. CASE ~ok
  <2>1. s2' = s2
    BY <1>1, <1>5 DEF Look!Refused
  <2>2. Look!BlurOf(s2)' = Look!BlurOf(s2)
    BY <2>1 DEF Look!BlurOf, Look!Off
  <2>3. CASE ~Look!Mounted(w) \/ w.key \in {"blur", "material"}
    <3>1. UNCHANGED <<s10, s4, s5, s7, s9, s11>>
      BY <1>1, <1>2, <1>5, <2>3 DEF Look!Refused
    <3> QED BY <1>0, <1>3, <2>1, <2>2, <3>1
  <2>4. CASE Look!Mounted(w) /\ w.key = "scale"
    <3>1. s10' = [s10 EXCEPT !.saving = FALSE, !.scale = w.radius] /\ UNCHANGED <<s4, s5, s7, s9>> /\ s10.open
      BY <1>1, <1>5, <2>4 DEF Look!Refused, Look!Mounted
    <3>2. DOMAIN s10' = DOMAIN s10 /\ s10'.open = s10.open
      BY <3>1, <1>0
    <3> QED BY <1>3, <2>1, <3>1, <3>2
  <2>5. CASE Look!Mounted(w) /\ w.key \in {"radius", "opacity"}
    <3>1. PICK b : /\ s10' = [s10 EXCEPT !.radius = w.radius, !.opacity = w.opacity] /\ s10.open
                   /\ Look!SetWindowBlur(b)
      BY <1>1, <1>5, <2>5 DEF Look!Refused, Look!Mounted, Look!PreviewWindowBlur
    <3>2. DOMAIN s10' = DOMAIN s10 /\ s10'.open
      BY <3>1, <1>0
    <3> QED BY <1>0, <1>1, <2>1, <3>1, <3>2, BlurKeeps
  <2> QED BY <1>2, <2>3, <2>4, <2>5
<1> QED BY <1>4, <1>5

LEMMA LookSettles == ASSUME Look!LookInv, [Look!Next]_(Look!vars) PROVE Look!LookInv'
<1> USE DEF Look!pageVars, Look!envVars, Look!winVars
<1>0. /\ DOMAIN s10 = {"open", "radius", "opacity", "scale", "saving", "mount"} /\ (s10.open => s3)
      /\ DOMAIN s2 = {"blur", "material", "radius", "opacity", "scale"}
      /\ s3 /\ ~s10.open => s4 = Look!BlurOf(s2) /\ s11 = s2.scale
      /\ \A i \in 1..Len(s12) : s12[i].key \in {"blur", "material", "radius", "opacity", "scale"}
  BY DEF Look!LookInv, Look!LookTypeOK, Look!Closed
<1>1. CASE Look!Draw \/ Look!Hidden \/ Look!Shown \/ Look!Frame \/ UNCHANGED Look!vars
  <2>1. /\ UNCHANGED <<s1, s2, s3, s4, s5, s6, s8, s10, s11, s12>>
        /\ UNCHANGED <<s7, s9>> \/ \E t \in BOOLEAN : Look!SetWindowTinted(t)
    BY <1>1 DEF Look!Draw, Look!Hidden, Look!Shown, Look!Frame, Look!vars
  <2> QED BY <2>1, LookLeft
<1>2. CASE \E ok \in BOOLEAN : Look!NativeAnswers(ok)
  BY <1>2, NativeKeeps
<1>3. CASE \E l \in {"l", "d"} : Look!ApplyThemeToDom(l)
  <2>1. PICK l \in {"l", "d"} : Look!Sync(s4, s5, l, s16') /\ s6' = l
    BY <1>3 DEF Look!ApplyThemeToDom
  <2>2. UNCHANGED <<s1, s2, s3, s4, s5, s8, s10, s11, s12>>
    BY <1>3 DEF Look!ApplyThemeToDom
  <2>3. s5 \in BOOLEAN
    BY DEF Look!LookInv, Look!LookTypeOK
  <2>4. /\ DOMAIN s7' = {"background", "blur", "saved"} /\ Look!CallsOK(s9)'
        /\ (s7.blur # Look!Unknown => Look!Brings(s9, s7.blur))'
        /\ s7'.blur = IF s5 THEN Look!BlurKey(s4, l) ELSE s7.blur
    BY <2>1, <2>2, <2>3, SyncSends
  <2>5. (s5 => s7.blur \in {Look!Unknown, Look!BlurKey(s4, s6)})'
    BY <2>1, <2>2, <2>4 DEF Look!BlurKey, Look!Unknown
  <2>6. (s3 /\ ~s10.open => s4 = Look!BlurOf(s2) /\ s11 = s2.scale)'
    BY <2>2 DEF Look!LookInv, Look!BlurOf, Look!Off
  <2> QED BY <2>2, <2>4, <2>5, <2>6 DEF Look!LookInv, Look!LookTypeOK, Look!Closed, Look!IsSeq
<1>4. CASE Look!OpenTab
  <2>1. /\ UNCHANGED <<s1, s2, s3, s4, s5, s6, s7, s8, s9, s11, s12>> /\ s3
        /\ DOMAIN s10' = DOMAIN s10 /\ s10'.open
    BY <1>4, <1>0 DEF Look!OpenTab, Look!Act
  <2> QED BY <2>1 DEF Look!LookInv, Look!LookTypeOK, Look!Closed, Look!CallsOK, Look!IsSeq,
      Look!Brings, Look!BlurKey, Look!Unknown
<1>5. CASE Look!CloseTab
  <2>1. /\ Look!SetWindowBlur(Look!BlurOf(s2)) /\ UNCHANGED <<s1, s2, s3, s6, s8, s12>> /\ s11' = s2.scale
        /\ s10' = [Look!Closed EXCEPT !.mount = s10.mount]
    BY <1>5 DEF Look!CloseTab
  <2>2. DOMAIN s10' = DOMAIN s10 /\ ~s10'.open
    <3>1. DOMAIN Look!Closed = DOMAIN s10 /\ ~Look!Closed.open
      BY <1>0 DEF Look!Closed
    <3> QED BY <2>1, <3>1
  <2>3. Look!BlurOf(s2) = Look!BlurOf(s2)'
    BY <2>1 DEF Look!BlurOf, Look!Off
  <2> QED BY <2>1, <2>2, <2>3, BlurKeeps
<1>6. CASE \E s \in {"radius", "opacity"} : \E v \in SliderLevels : Look!MoveSlider(s, v)
  <2>1. PICK b, r, o : Look!SetWindowBlur(b) /\ s10' = [s10 EXCEPT !.radius = r, !.opacity = o]
    BY <1>6 DEF Look!MoveSlider, Look!PreviewWindowBlur
  <2>2. UNCHANGED <<s1, s2, s3, s6, s8, s12>> /\ s10.open
    BY <1>6 DEF Look!MoveSlider, Look!SliderOffered
  <2>3. DOMAIN s10' = DOMAIN s10 /\ s10'.open
    BY <2>1, <2>2, <1>0
  <2> QED BY <2>1, <2>2, <2>3, <1>0, BlurKeeps
<1>7. CASE \/ \E s \in {"radius", "opacity"} : Look!Commit(s)
           \/ \E on \in BOOLEAN : Look!SaveSwitch("blur", on)
           \/ \E m \in {"acrylic", "mica"} : Look!SaveSwitch("material", m)
           \/ \E v \in SliderLevels : Look!PreviewUiScale(v)
           \/ Look!CommitUiScale
  <2>1. UNCHANGED <<s1, s2, s3, s4, s5, s6, s7, s8, s9>> /\ s10.open
    BY <1>7 DEF Look!Commit, Look!SaveSwitch, Look!PreviewUiScale, Look!CommitUiScale, Look!SliderOffered
  <2>2. s12' = s12 \/ \E w : s12' = Append(s12, w) /\ w.key \in {"blur", "material", "radius", "opacity", "scale"}
    <3>1. CASE \E s \in {"radius", "opacity"} : Look!Commit(s)
      <4>1. PICK s \in {"radius", "opacity"} : Look!Commit(s)
        BY <3>1
      <4> DEFINE w == [key |-> s, value |-> s10[s], mount |-> s10.mount,
                       radius |-> IF s = "radius" THEN s2.radius ELSE s10.radius,
                       opacity |-> IF s = "opacity" THEN s2.opacity ELSE s10.opacity]
      <4>2. s12' = Append(s12, w)
        BY <4>1 DEF Look!Commit
      <4>3. w.key \in {"blur", "material", "radius", "opacity", "scale"}
        OBVIOUS
      <4> HIDE DEF w
      <4> QED BY <4>2, <4>3
    <3>2. ASSUME NEW key \in {"blur", "material"}, NEW v, Look!SaveSwitch(key, v)
          PROVE  \E w : s12' = Append(s12, w) /\ w.key \in {"blur", "material", "radius", "opacity", "scale"}
      <4> DEFINE w == [key |-> key, value |-> v, mount |-> s10.mount, radius |-> s10.radius, opacity |-> s10.opacity]
      <4>2. s12' = Append(s12, w)
        BY <3>2 DEF Look!SaveSwitch
      <4>3. w.key \in {"blur", "material", "radius", "opacity", "scale"}
        OBVIOUS
      <4> HIDE DEF w
      <4> QED BY <4>2, <4>3
    <3>3. CASE Look!CommitUiScale
      <4> DEFINE w == [key |-> "scale", value |-> s10.scale, mount |-> s10.mount, radius |-> s2.scale, opacity |-> s2.scale]
      <4>2. s12' = Append(s12, w)
        BY <3>3 DEF Look!CommitUiScale
      <4>3. w.key \in {"blur", "material", "radius", "opacity", "scale"}
        OBVIOUS
      <4> HIDE DEF w
      <4> QED BY <4>2, <4>3
    <3>4. ASSUME NEW v, Look!PreviewUiScale(v) PROVE s12' = s12
      BY <3>4 DEF Look!PreviewUiScale
    <3> QED BY <1>7, <3>1, <3>2, <3>3, <3>4
  <2>3. s10' = s10 \/ (\E v : s10' = [s10 EXCEPT !.scale = v]) \/ s10' = [s10 EXCEPT !.saving = TRUE]
    BY <1>7 DEF Look!Commit, Look!SaveSwitch, Look!PreviewUiScale, Look!CommitUiScale
  <2>4. DOMAIN s10' = DOMAIN s10 /\ s10'.open = s10.open
    <3>1. ASSUME NEW v, s10' = [s10 EXCEPT !.scale = v] PROVE DOMAIN s10' = DOMAIN s10 /\ s10'.open = s10.open
      BY <3>1, <1>0
    <3>2. ASSUME s10' = [s10 EXCEPT !.saving = TRUE] PROVE DOMAIN s10' = DOMAIN s10 /\ s10'.open = s10.open
      BY <3>2, <1>0
    <3> QED BY <2>3, <3>1, <3>2
  <2> QED BY <2>1, <2>2, <2>4, SaveAsked
<1>8. CASE Look!LoadConfig
  <2>1. /\ Look!SetWindowBlur(Look!BlurOf(s2)) /\ UNCHANGED <<s1, s2, s6, s8, s10, s12>> /\ s3' /\ s11' = s2.scale
    BY <1>8 DEF Look!LoadConfig
  <2>2. Look!BlurOf(s2) = Look!BlurOf(s2)'
    BY <2>1 DEF Look!BlurOf, Look!Off
  <2> QED BY <2>1, <2>2, BlurKeeps
<1>9. CASE \E ok \in BOOLEAN : Look!SaveAnswered(ok)
  BY <1>9, SavesAnswered
<1> QED BY <1>1, <1>2, <1>3, <1>4, <1>5, <1>6, <1>7, <1>8, <1>9 DEF Look!Next, Look!Handle

LEMMA LookIsShown ==
    ASSUME Look!TintInv, Look!LookInv PROVE Look!TintUntilDrawn /\ Look!AppearanceSettles
<1>1. Look!TintUntilDrawn
  BY DEF Look!TintInv
<1>2. s9 = <<>> /\ s7.blur # Look!Unknown => s8.blur = s7.blur
  BY DEF Look!LookInv, Look!Brings
<1> QED BY <1>1, <1>2 DEF Look!LookInv, Look!AppearanceSettles

LEMMA LookStarts == ASSUME Look!Init PROVE Look!TintInv /\ Look!LookInv
<1>1. Look!TintInv
  BY DEF Look!Init, Look!TintInv, Look!TintUntilDrawn
<1>2. s4.enabled \in BOOLEAN /\ s5 = ~s4.enabled /\ (~s4.enabled => s4 = Look!Off)
  BY DEF Look!Init, Look!BlurOf, Look!Off
<1>3. s9 = <<>> /\ s12 = <<>> /\ ~s3 /\ ~s10.open
  BY DEF Look!Init, Look!Closed
<1>4. Look!LookTypeOK
  BY <1>2, <1>3, ShortSeqs DEF Look!Init, Look!LookTypeOK, Look!CallsOK
<1>5. s5 => s7.blur = <<"off">> /\ Look!BlurKey(s4, s6) = <<"off">>
  BY <1>2 DEF Look!Init, Look!BlurKey
<1>6. s7.blur # Look!Unknown => s8.blur = s7.blur
  <2>1. s7.blur # Look!Unknown => ~s4.enabled /\ s7.blur = <<"off">>
    BY DEF Look!Init
  <2>2. ~s4.enabled => ~Look!BlurOf(s2).enabled
    BY DEF Look!Init, Look!BlurOf, Look!Off
  <2>3. s8.blur = Look!BlurKey(Look!BlurOf(s2), "d")
    BY DEF Look!Init
  <2> QED BY <2>1, <2>2, <2>3 DEF Look!BlurKey
<1> QED BY <1>1, <1>3, <1>4, <1>5, <1>6 DEF Look!LookInv, Look!Brings

-----------------------------------------------------------------------------
(* The groups of connections: what is stored stays a forest.               *)
Groups == INSTANCE ProfileGroups WITH ProfileIds <- Connections, GroupIds <- ConnectionGroups,
    Matching <- Sought, MaxCommands <- GroupCommands, MaxListings <- GroupListings,
    MaxTouches <- GroupTouches, saved <- s1, page <- s2, selectedIds <- s3, searching <- s4,
    groupBusy <- s5, selectionBusy <- s6, renameDrafts <- s7, batch <- s8, sent <- s9,
    listings <- s10, touches <- s11

\* A lineage is closed, and in every closed set that has where it starts.
LEMMA LineageIsClosed ==
    ASSUME NEW p, NEW g \in ConnectionGroups
    PROVE  /\ Groups!Lineage(p, g) \subseteq ConnectionGroups
           /\ g \in Groups!Lineage(p, g)
           /\ Groups!Closed(p, Groups!Lineage(p, g))
BY DEF Groups!Lineage, Groups!Closed

LEMMA LineageIsLeast ==
    ASSUME NEW p, NEW s \in SUBSET ConnectionGroups, Groups!Closed(p, s), NEW g \in s
    PROVE  Groups!Lineage(p, g) \subseteq s
BY DEF Groups!Lineage

\* move_group: what the group rises from is none of what it goes into.
LEMMA MovedStaysForest ==
    ASSUME NEW p \in [ConnectionGroups -> ConnectionGroups \cup {Groups!Top, Groups!Gone}],
           Groups!Forest(p), NEW g \in Groups!Exists(p),
           NEW t \in Groups!Exists(p) \cup {Groups!Top},
           t \in ConnectionGroups => g \notin Groups!Lineage(p, t)
    PROVE  /\ Groups!Forest([p EXCEPT ![g] = t])
           /\ Groups!Exists([p EXCEPT ![g] = t]) = Groups!Exists(p)
<1> DEFINE q == [p EXCEPT ![g] = t]
           above(x) == Groups!Lineage(p, x)
           over == IF t \in ConnectionGroups THEN above(t) ELSE {}
<1>0. /\ g \in ConnectionGroups /\ q[g] = t /\ \A x \in ConnectionGroups \ {g} : q[x] = p[x]
      /\ Groups!Top # Groups!Gone /\ Groups!Top \notin ConnectionGroups
      /\ Groups!Gone \notin ConnectionGroups
      /\ q \in [ConnectionGroups -> ConnectionGroups \cup {Groups!Top, Groups!Gone}]
  BY GroupsAssumption DEF Groups!Exists, Groups!Top, Groups!Gone
<1>1. Groups!Exists(q) = Groups!Exists(p)
  BY <1>0 DEF Groups!Exists
<1>2. /\ over \subseteq ConnectionGroups /\ g \notin over /\ (t \in ConnectionGroups => t \in over)
      /\ Groups!Closed(p, over)
  BY LineageIsClosed DEF Groups!Closed
<1> HIDE DEF q, over
<1>3. Groups!Closed(q, over)
  BY <1>0, <1>2 DEF Groups!Closed
<1>4. t \in ConnectionGroups => g \notin Groups!Lineage(q, t)
  BY <1>2, <1>3, LineageIsLeast
<1>5. ASSUME NEW x \in Groups!Exists(p), x # g, p[x] \in ConnectionGroups
      PROVE  x \notin Groups!Lineage(q, p[x])
  <2>1. /\ x \notin above(p[x]) /\ above(p[x]) \subseteq ConnectionGroups /\ p[x] \in above(p[x])
        /\ Groups!Closed(p, above(p[x])) /\ x \in ConnectionGroups
    BY <1>5, LineageIsClosed DEF Groups!Forest, Groups!Exists
  <2>2. CASE g \notin above(p[x])
    <3>1. Groups!Closed(q, above(p[x]))
      BY <1>0, <2>1, <2>2 DEF Groups!Closed
    <3> QED BY <2>1, <3>1, LineageIsLeast
  <2>3. CASE g \in above(p[x])
    <3>1. x \notin over
      <4>1. SUFFICES ASSUME x \in over PROVE FALSE
        OBVIOUS
      <4>2. p[x] \in over
        BY <1>2, <1>5, <4>1 DEF Groups!Closed
      <4> QED BY <1>2, <2>3, <4>2, LineageIsLeast
    <3>2. Groups!Closed(q, above(p[x]) \cup over)
      <4> SUFFICES ASSUME NEW y \in above(p[x]) \cup over, q[y] \in ConnectionGroups
                   PROVE  q[y] \in above(p[x]) \cup over
        BY DEF Groups!Closed
      <4>1. CASE y = g
        BY <1>0, <1>2, <4>1
      <4>2. CASE y # g
        <5>1. q[y] = p[y]
          BY <1>0, <1>2, <2>1, <4>2
        <5> QED BY <1>2, <2>1, <5>1 DEF Groups!Closed
      <4> QED BY <4>1, <4>2
    <3>3. above(p[x]) \cup over \in SUBSET ConnectionGroups /\ p[x] \in above(p[x]) \cup over
      BY <1>2, <2>1
    <3> HIDE DEF above
    <3> QED BY <2>1, <3>1, <3>2, <3>3, LineageIsLeast
  <2> QED BY <2>2, <2>3
<1>6. ASSUME NEW x \in Groups!Exists(q)
      PROVE  /\ q[x] \in Groups!Exists(q) \cup {Groups!Top}
             /\ q[x] \in ConnectionGroups => x \notin Groups!Lineage(q, q[x])
  <2>1. CASE x = g
    BY <1>0, <1>1, <1>4, <2>1
  <2>2. CASE x # g
    <3>1. q[x] = p[x] /\ x \in Groups!Exists(p)
      BY <1>0, <1>1, <2>2 DEF Groups!Exists
    <3> QED BY <1>1, <1>5, <2>2, <3>1 DEF Groups!Forest
  <2> QED BY <2>1, <2>2
<1> QED BY <1>1, <1>6 DEF Groups!Forest, q

\* create_group: nothing that exists leads to the new group.
LEMMA CreatedStaysForest ==
    ASSUME NEW p \in [ConnectionGroups -> ConnectionGroups \cup {Groups!Top, Groups!Gone}],
           Groups!Forest(p), NEW g \in ConnectionGroups, p[g] = Groups!Gone,
           NEW t \in Groups!Exists(p) \cup {Groups!Top}
    PROVE  /\ Groups!Forest([p EXCEPT ![g] = t])
           /\ Groups!Exists([p EXCEPT ![g] = t]) = Groups!Exists(p) \cup {g}
<1> DEFINE q == [p EXCEPT ![g] = t]
<1>0. /\ q[g] = t /\ \A x \in ConnectionGroups \ {g} : q[x] = p[x]
      /\ Groups!Top # Groups!Gone /\ Groups!Top \notin ConnectionGroups
      /\ Groups!Gone \notin ConnectionGroups
      /\ q \in [ConnectionGroups -> ConnectionGroups \cup {Groups!Top, Groups!Gone}]
  BY GroupsAssumption DEF Groups!Exists, Groups!Top, Groups!Gone
<1>1. /\ Groups!Exists(q) = Groups!Exists(p) \cup {g} /\ g \notin Groups!Exists(p)
      /\ Groups!Exists(p) \subseteq ConnectionGroups
  BY <1>0 DEF Groups!Exists
<1> HIDE DEF q
<1>2. ASSUME NEW x \in Groups!Exists(p), NEW y \in Groups!Exists(p), x \notin Groups!Lineage(p, y)
      PROVE  x \notin Groups!Lineage(q, y)
  <2> DEFINE s == Groups!Lineage(p, y) \cap Groups!Exists(p)
  <2>1. y \in s /\ x \notin s /\ s \in SUBSET ConnectionGroups
    BY <1>1, <1>2, LineageIsClosed
  <2>2. Groups!Closed(q, s)
    <3> SUFFICES ASSUME NEW z \in s, q[z] \in ConnectionGroups PROVE q[z] \in s
      BY DEF Groups!Closed
    <3>1. q[z] = p[z] /\ p[z] \in Groups!Exists(p)
      BY <1>0, <1>1 DEF Groups!Forest
    <3>2. p[z] \in Groups!Lineage(p, y)
      BY <1>1, <3>1, LineageIsClosed DEF Groups!Closed
    <3> QED BY <3>1, <3>2
  <2> HIDE DEF s
  <2> QED BY <2>1, <2>2, LineageIsLeast
<1>3. t \in ConnectionGroups => g \notin Groups!Lineage(q, t)
  <2>1. Groups!Closed(q, Groups!Exists(p))
    BY <1>0, <1>1 DEF Groups!Closed, Groups!Forest
  <2> QED BY <1>0, <1>1, <2>1, LineageIsLeast
<1>4. ASSUME NEW x \in Groups!Exists(q)
      PROVE  /\ q[x] \in Groups!Exists(q) \cup {Groups!Top}
             /\ q[x] \in ConnectionGroups => x \notin Groups!Lineage(q, q[x])
  <2>1. CASE x = g
    BY <1>0, <1>1, <1>3, <2>1
  <2>2. CASE x # g
    <3>1. q[x] = p[x] /\ x \in Groups!Exists(p)
      BY <1>0, <1>1, <2>2
    <3>2. /\ p[x] \in Groups!Exists(p) \cup {Groups!Top}
          /\ p[x] \in ConnectionGroups => x \notin Groups!Lineage(p, p[x])
      BY <3>1 DEF Groups!Forest
    <3> QED BY <1>0, <1>1, <1>2, <3>1, <3>2
  <2> QED BY <2>1, <2>2
<1> QED BY <1>1, <1>4 DEF Groups!Forest, q

\* delete_group: what was in it moves to what it was in.
LEMMA DeletedStaysForest ==
    ASSUME NEW p \in [ConnectionGroups -> ConnectionGroups \cup {Groups!Top, Groups!Gone}],
           Groups!Forest(p), NEW g \in Groups!Exists(p), NEW q, q = [x \in ConnectionGroups |->
               IF x = g THEN Groups!Gone ELSE IF p[x] = g THEN p[g] ELSE p[x]]
    PROVE  /\ Groups!Forest(q) /\ Groups!Exists(q) = Groups!Exists(p) \ {g}
           /\ p[g] \in Groups!Exists(q) \cup {Groups!Top}
<1>0. /\ g \in ConnectionGroups /\ q[g] = Groups!Gone
      /\ \A x \in ConnectionGroups \ {g} : q[x] = IF p[x] = g THEN p[g] ELSE p[x]
      /\ Groups!Top # Groups!Gone /\ Groups!Top \notin ConnectionGroups
      /\ Groups!Gone \notin ConnectionGroups
      /\ Groups!Exists(p) \subseteq ConnectionGroups
  BY GroupsAssumption DEF Groups!Exists, Groups!Top, Groups!Gone
<1>1. p[g] \in (Groups!Exists(p) \ {g}) \cup {Groups!Top}
  <2>1. /\ p[g] \in Groups!Exists(p) \cup {Groups!Top}
        /\ p[g] \in ConnectionGroups => g \notin Groups!Lineage(p, p[g])
    BY DEF Groups!Forest
  <2> QED BY <1>0, <2>1, LineageIsClosed
<1>2. Groups!Exists(q) = Groups!Exists(p) \ {g}
  BY <1>0, <1>1 DEF Groups!Exists
<1>3. ASSUME NEW x \in Groups!Exists(q)
      PROVE  /\ q[x] \in Groups!Exists(q) \cup {Groups!Top}
             /\ q[x] \in ConnectionGroups => x \notin Groups!Lineage(q, q[x])
  <2>1. /\ x \in ConnectionGroups \ {g} /\ p[x] \in Groups!Exists(p) \cup {Groups!Top}
        /\ p[x] \in ConnectionGroups => x \notin Groups!Lineage(p, p[x])
    BY <1>0, <1>2 DEF Groups!Forest
  <2>2. q[x] \in Groups!Exists(q) \cup {Groups!Top}
    BY <1>0, <1>1, <1>2, <2>1
  <2>3. ASSUME q[x] \in ConnectionGroups PROVE x \notin Groups!Lineage(q, q[x])
    <3> DEFINE above == Groups!Lineage(p, p[x])
    <3>1. p[x] \in ConnectionGroups
      BY <1>0, <2>1, <2>3
    <3>2. /\ above \subseteq ConnectionGroups /\ p[x] \in above /\ x \notin above
          /\ \A y \in above : p[y] \in ConnectionGroups => p[y] \in above
      BY <2>1, <3>1, LineageIsClosed DEF Groups!Closed
    <3> HIDE DEF above
    <3>3. Groups!Closed(q, above \ {g})
      <4> SUFFICES ASSUME NEW y \in above \ {g}, q[y] \in ConnectionGroups
                   PROVE  q[y] \in above \ {g}
        BY DEF Groups!Closed
      <4>1. CASE p[y] = g
        <5>1. q[y] = p[g] /\ g \in above
          BY <1>0, <3>2, <4>1
        <5> QED BY <1>0, <1>1, <3>2, <5>1
      <4>2. CASE p[y] # g
        BY <1>0, <3>2, <4>2
      <4> QED BY <4>1, <4>2
    <3>4. q[x] \in above \ {g}
      <4>1. CASE p[x] = g
        BY <1>0, <1>1, <2>1, <2>3, <3>2, <4>1
      <4>2. CASE p[x] # g
        BY <1>0, <2>1, <3>2, <4>2
      <4> QED BY <4>1, <4>2
    <3> QED BY <3>2, <3>3, <3>4, LineageIsLeast
  <2> QED BY <2>2, <2>3
<1> QED BY <1>1, <1>2, <1>3 DEF Groups!Forest

\* What may have been sent.
LEMMA GroupSequences ==
    /\ \A S, s : s \in Seq(S) => s \in Seq(Groups!ToSet(s)) /\ Groups!ToSet(s) \subseteq S
    /\ \A S, s, e : s \in Seq(S) => /\ Append(s, e) \in Seq(S \cup {e})
                                    /\ DOMAIN Append(s, e) = DOMAIN s \cup {Len(s) + 1}
                                    /\ \A i \in DOMAIN s : Append(s, e)[i] = s[i]
                                    /\ Append(s, e)[Len(s) + 1] = e
    /\ \A S, s, e : \A i \in DOMAIN s : s \in Seq(S) => [s EXCEPT ![i] = e] \in Seq(S \cup {e})
<1>1. ASSUME NEW S, NEW s \in Seq(S)
      PROVE  s \in Seq(Groups!ToSet(s)) /\ Groups!ToSet(s) \subseteq S
  BY DEF Groups!ToSet
<1>2. ASSUME NEW S, NEW e, NEW s \in Seq(S)
      PROVE  /\ Append(s, e) \in Seq(S \cup {e})
             /\ DOMAIN Append(s, e) = DOMAIN s \cup {Len(s) + 1}
             /\ \A i \in DOMAIN s : Append(s, e)[i] = s[i]
             /\ Append(s, e)[Len(s) + 1] = e
  <2>1. s \in Seq(S \cup {e})
    OBVIOUS
  <2> QED BY <2>1
<1>3. ASSUME NEW S, NEW e, NEW s \in Seq(S), NEW i \in DOMAIN s
      PROVE  [s EXCEPT ![i] = e] \in Seq(S \cup {e})
  OBVIOUS
<1> QED BY <1>1, <1>2, <1>3

LEMMA GroupsStart == ASSUME Groups!Init PROVE Groups!ForestInv
<1>1. /\ DOMAIN s1 = {"order", "group", "parent"}
      /\ s1.parent = [g \in ConnectionGroups |-> Groups!Top]
      /\ s1.group = [p \in Connections |-> Groups!Top]
  BY DEF Groups!Init
<1>2. Groups!Top # Groups!Gone /\ Groups!Top \notin ConnectionGroups
  BY GroupsAssumption DEF Groups!Top, Groups!Gone
<1>3. Groups!GroupsAreForest
  BY <1>1, <1>2 DEF Groups!GroupsAreForest, Groups!Forest, Groups!Exists
<1>4. s9 \in Seq(Groups!ToSet(s9)) /\ \A i \in DOMAIN s9 : Groups!CommandOK(s9[i])
  BY DEF Groups!Init, Groups!ToSet
<1>5. DOMAIN s8 = {"kind", "ids", "group", "parent", "at"} /\ s8.kind # "group"
  BY DEF Groups!Init, Groups!NoBatch
<1> QED BY <1>1, <1>2, <1>3, <1>4, <1>5 DEF Groups!ForestInv

\* A command that is sent joins the others; one that goes on stays one.
LEMMA CommandSent ==
    ASSUME Groups!ForestInv,
           NEW op \in Groups!GroupOps \cup {"move_profiles", "delete_profile", "delete_profiles"},
           NEW ids, NEW g, NEW t, op \in {"move_group", "delete_group"} => g \in ConnectionGroups,
           Groups!Send(op, ids, g, t)
    PROVE  s9' \in Seq(Groups!ToSet(s9')) /\ \A i \in DOMAIN s9' : Groups!CommandOK(s9'[i])
<1> DEFINE c == Groups!Command(op, ids, g, t)
<1>1. Groups!CommandOK(c)
  BY DEF Groups!CommandOK, Groups!Command, Groups!GroupOps
<1>2. /\ s9' = Append(s9, c) /\ s9 \in Seq(Groups!ToSet(s9))
      /\ \A i \in DOMAIN s9 : Groups!CommandOK(s9[i])
  BY DEF Groups!Send, Groups!ForestInv
<1> HIDE DEF c
<1>3. s9' \in Seq(Groups!ToSet(s9) \cup {c})
  BY <1>2, GroupSequences
<1>4. s9' \in Seq(Groups!ToSet(s9'))
  BY <1>3, GroupSequences
<1>5. /\ DOMAIN s9' = DOMAIN s9 \cup {Len(s9) + 1}
      /\ (\A i \in DOMAIN s9 : s9'[i] = s9[i]) /\ s9'[Len(s9) + 1] = c
  BY <1>2, GroupSequences
<1>6. \A i \in DOMAIN s9' : Groups!CommandOK(s9'[i])
  BY <1>1, <1>2, <1>5
<1> QED BY <1>4, <1>6

\* A command that is answered, or fails, is one of those sent.
LEMMA CommandChanged ==
    ASSUME Groups!ForestInv, NEW i \in DOMAIN s9, NEW c, Groups!CommandOK(c),
           s9' = [s9 EXCEPT ![i] = c]
    PROVE  s9' \in Seq(Groups!ToSet(s9')) /\ \A j \in DOMAIN s9' : Groups!CommandOK(s9'[j])
<1>1. s9 \in Seq(Groups!ToSet(s9)) /\ \A j \in DOMAIN s9 : Groups!CommandOK(s9[j])
  BY DEF Groups!ForestInv
<1>2. s9' \in Seq(Groups!ToSet(s9) \cup {c})
  BY <1>1, GroupSequences
<1>3. s9' \in Seq(Groups!ToSet(s9'))
  BY <1>2, GroupSequences
<1>4. DOMAIN s9' = DOMAIN s9 /\ \A j \in DOMAIN s9 : s9'[j] = IF j = i THEN c ELSE s9[j]
  OBVIOUS
<1> QED BY <1>1, <1>3, <1>4

\* What a transaction that is not refused makes of the database is a forest again.
LEMMA DoneStaysForest ==
    ASSUME Groups!ForestInv, NEW c, Groups!CommandOK(c), c.op # "none", ~Groups!Refused(c),
           NEW t, t = Groups!Done(c)
    PROVE  /\ DOMAIN t = {"order", "group", "parent"}
           /\ t.group \in [Connections -> ConnectionGroups \cup {Groups!Top}]
           /\ t.parent \in [ConnectionGroups -> ConnectionGroups \cup {Groups!Top, Groups!Gone}]
           /\ Groups!Forest(t.parent)
           /\ \A p \in Connections : t.group[p] \in Groups!Exists(t.parent) \cup {Groups!Top}
<1> DEFINE parent == s1.parent
           group == s1.group
<1>0. /\ DOMAIN s1 = {"order", "group", "parent"}
      /\ group \in [Connections -> ConnectionGroups \cup {Groups!Top}]
      /\ parent \in [ConnectionGroups -> ConnectionGroups \cup {Groups!Top, Groups!Gone}]
      /\ Groups!Forest(parent)
      /\ \A p \in Connections : group[p] \in Groups!Exists(parent) \cup {Groups!Top}
      /\ Groups!Exists(parent) \subseteq ConnectionGroups
  BY DEF Groups!ForestInv, Groups!GroupsAreForest, Groups!Exists
<1>1. CASE c.op = "move_profiles"
  <2>1. t = Groups!MoveProfilesInList(s1, c.ids, c.group, c.target)
    BY <1>1 DEF Groups!Done
  <2>2. c.group \in Groups!Exists(parent) \cup {Groups!Top}
    BY <1>1 DEF Groups!Refused
  <2>3. /\ DOMAIN t = DOMAIN s1 /\ t.parent = parent
        /\ t.group = [p \in Connections |->
               IF p \in c.ids \cap Groups!ToSet(s1.order) THEN c.group ELSE group[p]]
    BY <1>0, <2>1 DEF Groups!MoveProfilesInList
  <2> HIDE DEF parent, group
  <2> QED BY <1>0, <2>2, <2>3
<1>2. CASE c.op \in {"delete_profile", "delete_profiles"}
  <2>1. DOMAIN t = DOMAIN s1 /\ t.parent = parent /\ t.group = group
    BY <1>0, <1>2 DEF Groups!Done
  <2> HIDE DEF parent, group
  <2> QED BY <1>0, <2>1
<1>3. CASE c.op = "move_group"
  <2>1. /\ c.group \in Groups!Exists(parent) /\ c.target \in Groups!Exists(parent) \cup {Groups!Top}
        /\ c.target \in ConnectionGroups => c.group \notin Groups!Lineage(parent, c.target)
    BY <1>3 DEF Groups!Refused, Groups!MovesGroup, Groups!CommandOK, Groups!Exists
  <2>2. t = [s1 EXCEPT !.parent[c.group] = c.target]
    BY <1>3 DEF Groups!Done
  <2>3. DOMAIN t = DOMAIN s1 /\ t.group = group /\ t.parent = [parent EXCEPT ![c.group] = c.target]
    BY <1>0, <2>2
  <2> HIDE DEF parent, group
  <2>4. /\ Groups!Forest([parent EXCEPT ![c.group] = c.target])
        /\ Groups!Exists([parent EXCEPT ![c.group] = c.target]) = Groups!Exists(parent)
    BY <1>0, <2>1, MovedStaysForest
  <2> QED BY <1>0, <2>1, <2>3, <2>4
<1>4. CASE c.op = "create_group"
  <2> DEFINE new == CHOOSE g \in ConnectionGroups : parent[g] = Groups!Gone
  <2>1. /\ c.group \in Groups!Exists(parent) \cup {Groups!Top}
        /\ Groups!Exists(parent) # ConnectionGroups
    BY <1>4 DEF Groups!Refused
  <2>2. new \in ConnectionGroups /\ parent[new] = Groups!Gone
    BY <2>1 DEF Groups!Exists
  <2>3. t = [s1 EXCEPT !.parent[new] = c.group]
    BY <1>4 DEF Groups!Done
  <2> HIDE DEF new
  <2>4. DOMAIN t = DOMAIN s1 /\ t.group = group /\ t.parent = [parent EXCEPT ![new] = c.group]
    BY <1>0, <2>3
  <2> HIDE DEF parent, group
  <2>5. /\ Groups!Forest([parent EXCEPT ![new] = c.group])
        /\ Groups!Exists([parent EXCEPT ![new] = c.group]) = Groups!Exists(parent) \cup {new}
    BY <1>0, <2>1, <2>2, CreatedStaysForest
  <2> QED BY <1>0, <2>1, <2>2, <2>4, <2>5
<1>5. CASE c.op = "rename_group"
  <2>1. t = s1
    BY <1>5 DEF Groups!Done
  <2> QED BY <1>0, <2>1
<1>6. CASE c.op = "delete_group"
  <2> DEFINE rise(f) == [x \in DOMAIN f |-> IF f[x] = c.group THEN parent[c.group] ELSE f[x]]
  <2>1. c.group \in Groups!Exists(parent)
    BY <1>6 DEF Groups!Refused, Groups!CommandOK, Groups!Exists
  <2>2. t = [s1 EXCEPT !.group = rise(@), !.parent = [rise(@) EXCEPT ![c.group] = Groups!Gone]]
    BY <1>6 DEF Groups!Done
  <2>3. /\ DOMAIN t = DOMAIN s1 /\ t.group = rise(group)
        /\ t.parent = [rise(parent) EXCEPT ![c.group] = Groups!Gone]
    BY <1>0, <2>2
  <2> HIDE DEF parent, group
  <2>4. t.group = [p \in Connections |-> IF group[p] = c.group THEN parent[c.group] ELSE group[p]]
    BY <1>0, <2>3
  <2>5. t.parent = [x \in ConnectionGroups |-> IF x = c.group THEN Groups!Gone
                       ELSE IF parent[x] = c.group THEN parent[c.group] ELSE parent[x]]
    BY <1>0, <2>1, <2>3
  <2>6. /\ Groups!Forest(t.parent) /\ Groups!Exists(t.parent) = Groups!Exists(parent) \ {c.group}
        /\ parent[c.group] \in Groups!Exists(t.parent) \cup {Groups!Top}
    BY <1>0, <2>1, <2>5, DeletedStaysForest
  <2> QED BY <1>0, <2>1, <2>3, <2>4, <2>5, <2>6
<1> QED BY <1>1, <1>2, <1>3, <1>4, <1>5, <1>6 DEF Groups!CommandOK, Groups!GroupOps

\* The rest of the invariant follows a step that leaves what is stored alone.
LEMMA StoredKept ==
    ASSUME Groups!ForestInv, s1' = s1, DOMAIN s8' = {"kind", "ids", "group", "parent", "at"},
           s8'.kind = "group" => s8'.group \in ConnectionGroups,
           s9' \in Seq(Groups!ToSet(s9')), \A i \in DOMAIN s9' : Groups!CommandOK(s9'[i])
    PROVE  Groups!ForestInv'
BY DEF Groups!ForestInv, Groups!GroupsAreForest, Groups!Forest, Groups!Exists, Groups!Lineage,
   Groups!Closed, Groups!CommandOK

\* A transaction commits.
LEMMA CommitStaysForest ==
    ASSUME Groups!ForestInv, NEW i \in DOMAIN s9, Groups!Commit(i)
    PROVE  Groups!ForestInv'
<1> DEFINE c == s9[i]
           done == [c EXCEPT !.at = "ok", !.groups = s1'.parent]
<1>1. Groups!CommandOK(c) /\ c.at = "sent" /\ ~Groups!Refused(c) /\ s1' = Groups!Done(c) /\ s8' = s8
      /\ s9' = [s9 EXCEPT ![i] = done]
  BY DEF Groups!Commit, Groups!ForestInv
<1>2. Groups!CommandOK(done) /\ c.op # "none"
  BY <1>1 DEF Groups!CommandOK
<1> HIDE DEF done
<1>3. s9' \in Seq(Groups!ToSet(s9')) /\ \A j \in DOMAIN s9' : Groups!CommandOK(s9'[j])
  BY <1>1, <1>2, CommandChanged
<1> HIDE DEF c
<1>4. /\ DOMAIN s1' = {"order", "group", "parent"}
      /\ s1'.group \in [Connections -> ConnectionGroups \cup {Groups!Top}]
      /\ s1'.parent \in [ConnectionGroups -> ConnectionGroups \cup {Groups!Top, Groups!Gone}]
      /\ Groups!Forest(s1'.parent)
      /\ \A p \in Connections : s1'.group[p] \in Groups!Exists(s1'.parent) \cup {Groups!Top}
  BY <1>1, <1>2, DoneStaysForest
<1>5. Groups!GroupsAreForest'
  BY <1>4 DEF Groups!GroupsAreForest, Groups!Forest, Groups!Exists, Groups!Lineage, Groups!Closed
<1>6. DOMAIN s8' = {"kind", "ids", "group", "parent", "at"}
      /\ (s8'.kind = "group" => s8'.group \in ConnectionGroups)
  BY <1>1 DEF Groups!ForestInv
<1> QED BY <1>3, <1>4, <1>5, <1>6 DEF Groups!ForestInv, Groups!CommandOK

\* Every step keeps the invariant: all but a commit leave what is stored alone.
LEMMA GroupsStayForest ==
    ASSUME Groups!ForestInv, [Groups!Next]_(Groups!vars) PROVE Groups!ForestInv'
<1>0. /\ DOMAIN s8 = {"kind", "ids", "group", "parent", "at"}
      /\ s8.kind = "group" => s8.group \in ConnectionGroups
      /\ s9 \in Seq(Groups!ToSet(s9)) /\ \A i \in DOMAIN s9 : Groups!CommandOK(s9[i])
  BY DEF Groups!ForestInv
<1>kept. ASSUME UNCHANGED <<s1, s8, s9>> PROVE Groups!ForestInv'
  BY <1>0, <1>kept, StoredKept
<1>asked. ASSUME UNCHANGED <<s1, s9>>, DOMAIN s8' = {"kind", "ids", "group", "parent", "at"},
             s8'.kind = "group" => s8'.group \in ConnectionGroups
      PROVE  Groups!ForestInv'
  BY <1>0, <1>asked, StoredKept
<1>sends. ASSUME NEW op \in Groups!GroupOps
                                \cup {"move_profiles", "delete_profile", "delete_profiles"},
             NEW ids, NEW g, NEW t, op \in {"move_group", "delete_group"} => g \in ConnectionGroups,
             Groups!Send(op, ids, g, t), s1' = s1, DOMAIN s8' = DOMAIN s8, s8'.kind = s8.kind,
             s8'.group = s8.group
      PROVE  Groups!ForestInv'
  <2>1. s9' \in Seq(Groups!ToSet(s9')) /\ \A i \in DOMAIN s9' : Groups!CommandOK(s9'[i])
    BY <1>sends, CommandSent
  <2> QED BY <1>0, <1>sends, <2>1, StoredKept
<1>answers. ASSUME NEW i \in DOMAIN s9, NEW c, Groups!CommandOK(c),
                   s9' = [s9 EXCEPT ![i] = c], s1' = s1, s8' \in {s8, Groups!NoBatch}
      PROVE  Groups!ForestInv'
  <2>1. s9' \in Seq(Groups!ToSet(s9')) /\ \A j \in DOMAIN s9' : Groups!CommandOK(s9'[j])
    BY <1>answers, CommandChanged
  <2>2. /\ DOMAIN s8' = {"kind", "ids", "group", "parent", "at"}
        /\ s8'.kind = "group" => s8'.group \in ConnectionGroups
    BY <1>0, <1>answers DEF Groups!NoBatch
  <2> QED BY <1>answers, <2>1, <2>2, StoredKept
<1>1. CASE UNCHANGED Groups!vars
  BY <1>1, <1>kept DEF Groups!vars
<1>2. CASE Groups!Refresh \/ Groups!SetQuery \/ Groups!SelectMatches \/ Groups!ClearSelection
  BY <1>2, <1>kept DEF Groups!Refresh, Groups!SetQuery, Groups!SelectMatches, Groups!ClearSelection
<1>3. ASSUME NEW i \in DOMAIN s10,
             \/ Groups!ReadGroups(i) \/ Groups!ReadProfiles(i)
             \/ Groups!ShowListing(i) \/ Groups!ListingFailed(i)
      PROVE  Groups!ForestInv'
  BY <1>3, <1>kept DEF Groups!ReadGroups, Groups!ReadProfiles, Groups!ShowListing, Groups!ListingFailed
<1>4. ASSUME NEW p \in Connections, Groups!ToggleSelected(p) PROVE Groups!ForestInv'
  BY <1>4, <1>kept DEF Groups!ToggleSelected
<1>5. ASSUME NEW p \in Connections, Groups!DropProfile(p) PROVE Groups!ForestInv'
  <2>1. ASSUME NEW g, NEW t, Groups!MoveProfilesTo(p, g, t) PROVE Groups!ForestInv'
    BY <2>1, <1>sends DEF Groups!MoveProfilesTo
  <2> QED BY <1>5, <2>1 DEF Groups!DropProfile
<1>6. ASSUME NEW g \in ConnectionGroups,
             \/ \E parent \in ConnectionGroups \cup {Groups!Top} : Groups!DropGroup(g, parent)
             \/ Groups!OpenRename(g) \/ Groups!CancelRename(g) \/ Groups!RenameGroup(g)
             \/ Groups!DeleteGroup(g)
      PROVE  Groups!ForestInv'
  <2>1. ASSUME NEW parent, Groups!DropGroup(g, parent) PROVE Groups!ForestInv'
    BY <2>1, <1>sends DEF Groups!DropGroup, Groups!GroupOps
  <2>2. CASE Groups!OpenRename(g) \/ Groups!CancelRename(g)
    BY <2>2, <1>kept DEF Groups!OpenRename, Groups!CancelRename
  <2>3. CASE Groups!RenameGroup(g)
    BY <2>3, <1>sends DEF Groups!RenameGroup, Groups!GroupOps
  <2>4. CASE Groups!DeleteGroup(g)
    BY <2>4, <1>asked DEF Groups!DeleteGroup
  <2> QED BY <1>6, <2>1, <2>2, <2>3, <2>4
<1>7. ASSUME NEW parent, Groups!AddGroup(parent) PROVE Groups!ForestInv'
  BY <1>7, <1>sends DEF Groups!AddGroup, Groups!GroupOps
<1>8. CASE Groups!DeleteSome
  <2>1. ASSUME NEW kind \in {"profile", "selected"}, NEW ids, Groups!DeleteProfiles(kind, ids)
        PROVE  Groups!ForestInv'
    BY <2>1, <1>asked DEF Groups!DeleteProfiles, Groups!NoBatch
  <2> QED BY <1>8, <2>1 DEF Groups!DeleteSome
<1>9. CASE Groups!TunnelsKnown
  BY <1>0, <1>9, <1>asked DEF Groups!TunnelsKnown
<1>10. ASSUME NEW yes \in BOOLEAN, Groups!AnswerDelete(yes) PROVE Groups!ForestInv'
  <2>1. CASE ~yes
    BY <1>10, <2>1, <1>asked DEF Groups!AnswerDelete, Groups!NoBatch
  <2>2. CASE yes
    <3>1. s8' = [s8 EXCEPT !.at = "sent"] /\ s1' = s1
      BY <1>10, <2>2 DEF Groups!AnswerDelete
    <3>2. DOMAIN s8' = DOMAIN s8 /\ s8'.kind = s8.kind /\ s8'.group = s8.group
      BY <1>0, <3>1
    <3>3. CASE s8.kind = "group"
      <4>1. Groups!Send("delete_group", {}, s8.group, s8.parent)
        BY <1>10, <2>2, <3>3 DEF Groups!AnswerDelete
      <4> QED BY <1>0, <3>1, <3>2, <3>3, <4>1, <1>sends DEF Groups!GroupOps
    <3>4. CASE s8.kind # "group"
      <4>1. \E op \in {"delete_profile", "delete_profiles"} :
                Groups!Send(op, s8.ids, Groups!Top, "none")
        BY <1>10, <2>2, <3>4 DEF Groups!AnswerDelete
      <4> QED BY <3>1, <3>2, <4>1, <1>sends
    <3> QED BY <3>3, <3>4
  <2> QED BY <2>1, <2>2
<1>11. ASSUME NEW i \in DOMAIN s9, Groups!Commit(i) PROVE Groups!ForestInv'
  BY <1>11, CommitStaysForest
<1>12. ASSUME NEW i \in DOMAIN s9, Groups!Fail(i) PROVE Groups!ForestInv'
  <2> DEFINE c == [s9[i] EXCEPT !.at = "failed"]
  <2>1. Groups!CommandOK(c)
    BY <1>0, <1>12 DEF Groups!CommandOK, Groups!Fail
  <2>2. s9' = [s9 EXCEPT ![i] = c] /\ s1' = s1 /\ s8' = s8
    BY <1>12 DEF Groups!Fail
  <2> HIDE DEF c
  <2> QED BY <2>1, <2>2, <1>answers
<1>13. ASSUME NEW i \in DOMAIN s9, Groups!Answered(i) PROVE Groups!ForestInv'
  <2>1. Groups!CommandOK(Groups!Finished)
    BY DEF Groups!CommandOK, Groups!Finished
  <2>2. s9' = [s9 EXCEPT ![i] = Groups!Finished] /\ s1' = s1 /\ s8' \in {s8, Groups!NoBatch}
    BY <1>13 DEF Groups!Answered
  <2> QED BY <2>1, <2>2, <1>answers
<1> QED BY <1>1, <1>2, <1>3, <1>4, <1>5, <1>6, <1>7, <1>8, <1>9, <1>10, <1>11, <1>12, <1>13
        DEF Groups!Next

-----------------------------------------------------------------------------
(* A session log replayed: TLC alone checks it.                            *)
Replay == INSTANCE LogReplay WITH Recording <- Session, IdleLimit <- 1, Speeds <- {1, 2},
    MaxActs <- 3, frames <- s1, skipIdle <- s2, speed <- s3, engine <- s4, playing <- s5,
    queue <- s6, screen <- s7, size <- s8, view <- s9, acts <- s10

-----------------------------------------------------------------------------
(* What is asked before tabs close.                                        *)
Closes == INSTANCE Closing WITH Sessions <- TerminalTabs, Files <- EditorTabs, open <- s1,
    together <- s2, modified <- s3, saving <- s4, busy <- s5, closing <- s6, dialog <- s7,
    preflight <- s8, atStake <- s9, promptOpen <- s10, quit <- s11

LEMMA ClosingStarts == Closes!Init => Closes!ClosingInv
BY DEF Closes!Init, Closes!ClosingInv

\* Whatever is closed leaves nothing unsaved behind that was not named.
LEMMA RemovedIsGone ==
    ASSUME NEW targets, Closes!Remove(targets), s3 \subseteq s1
    PROVE  Closes!ClosingInv'
BY DEF Closes!Remove, Closes!ClosingInv

\* A question stands on screen with what it named.
LEMMA AskedIsNamed ==
    ASSUME NEW stage \in {"split", "unsaved", "transfers"}, NEW targets, NEW discarded,
           NEW transfers, Closes!Ask(stage, targets, discarded, transfers), s3 \subseteq s1,
           stage # "split" => s3 \cap targets \subseteq discarded
    PROVE  Closes!ClosingInv' /\ s1' = s1
BY DEF Closes!Ask, Closes!Confirm, Closes!ClosingInv

\* The flow of a closing: it asks about what is unsaved, asks about transfers, or is done.
LEMMA UnsavedAsked ==
    ASSUME NEW targets, NEW transfers, Closes!ThenUnsaved(targets, transfers), s3 \subseteq s1
    PROVE  /\ Closes!ClosingInv'
           /\ s1' = s1 \/ (s1' = s1 \ targets /\ (s3 \cup transfers) \cap targets = {})
<1>1. CASE s3 \cap targets # {}
  BY <1>1, AskedIsNamed DEF Closes!ThenUnsaved
<1>2. CASE s3 \cap targets = {} /\ transfers \cap targets # {}
  BY <1>2, AskedIsNamed DEF Closes!ThenUnsaved, Closes!ThenTransfers
<1>3. CASE s3 \cap targets = {} /\ transfers \cap targets = {}
  <2>1. Closes!Remove(targets)
    BY <1>3 DEF Closes!ThenUnsaved, Closes!ThenTransfers
  <2>2. s1' = s1 \ targets
    BY <2>1 DEF Closes!Remove
  <2> QED BY <1>3, <2>1, <2>2, RemovedIsGone
<1> QED BY <1>1, <1>2, <1>3

\* An answer goes on with the closing, ends it, or gives it up.
LEMMA AnswerCloses ==
    ASSUME Closes!ClosingInv, Closes!AnswerClosing
    PROVE  /\ Closes!ClosingInv'
           /\ s1' = s1 \/ s1' = s1 \ s6.targets
           /\ \A f \in s3 \ s1' : s6.stage # "split" /\ f \in s6.discarded
<1>0. s3 \subseteq s1 /\ s7 = "closing"
  BY DEF Closes!ClosingInv, Closes!AnswerClosing
<1>1. CASE s6.stage = "split" /\ Closes!ThenUnsaved(s6.targets, s6.transfers)
  BY <1>0, <1>1, UnsavedAsked
<1>2. CASE s6.stage = "unsaved" /\ Closes!ThenTransfers(s6.targets, s6.discarded, s6.transfers)
  <2>0. s3 \cap s6.targets \subseteq s6.discarded
    BY <1>0, <1>2 DEF Closes!ClosingInv
  <2>1. CASE Closes!Ask("transfers", s6.targets, s6.discarded, s6.transfers)
    BY <1>0, <2>0, <2>1, AskedIsNamed
  <2>2. CASE Closes!Remove(s6.targets)
    <3>1. s1' = s1 \ s6.targets
      BY <2>2 DEF Closes!Remove
    <3> QED BY <1>0, <1>2, <2>0, <2>2, <3>1, RemovedIsGone
  <2> QED BY <1>2, <2>1, <2>2 DEF Closes!ThenTransfers
<1>3. CASE s6.stage = "transfers" /\ Closes!Remove(s6.targets)
  <2>0. s3 \cap s6.targets \subseteq s6.discarded
    BY <1>0, <1>3 DEF Closes!ClosingInv
  <2>1. s1' = s1 \ s6.targets
    BY <1>3 DEF Closes!Remove
  <2> QED BY <1>0, <1>3, <2>0, <2>1, RemovedIsGone
<1>4. CASE s7' = "none" /\ UNCHANGED <<s1, s3>>
  BY <1>0, <1>4 DEF Closes!ClosingInv
<1> QED BY <1>1, <1>2, <1>3, <1>4 DEF Closes!AnswerClosing

\* A closing that starts asks first, or finds nothing to ask about.
LEMMA ClosingStartsAsking ==
    ASSUME Closes!ClosingInv, Closes!RemoveTab \/ Closes!CloseTab \/ Closes!CloseTabsOfBar
    PROVE  /\ Closes!ClosingInv' /\ s7 = "none"
           /\ s1' = s1 \/ ((s1 \ s1') \cap (s3 \cup s5) = {} /\ s3 \subseteq s1')
<1>0. s3 \subseteq s1 /\ s7 = "none"
  BY DEF Closes!ClosingInv, Closes!RemoveTab, Closes!CloseTab, Closes!CloseTabsOfBar,
     Closes!UserActs
<1>1. ASSUME NEW targets, Closes!ThenUnsaved(targets, s5)
      PROVE  /\ Closes!ClosingInv'
             /\ s1' = s1 \/ ((s1 \ s1') \cap (s3 \cup s5) = {} /\ s3 \subseteq s1')
  BY <1>0, <1>1, UnsavedAsked
<1>2. ASSUME NEW targets, Closes!Ask("split", targets, {}, s5)
      PROVE  Closes!ClosingInv' /\ s1' = s1
  BY <1>0, <1>2, AskedIsNamed
<1>3. CASE Closes!RemoveTab
  BY <1>0, <1>1, <1>3 DEF Closes!RemoveTab
<1>4. CASE Closes!CloseTab
  <2>1. PICK targets : Closes!Ask("split", targets, {}, s5) \/ Closes!ThenUnsaved(targets, s5)
    BY <1>4 DEF Closes!CloseTab
  <2> QED BY <1>0, <1>1, <1>2, <2>1
<1>5. CASE Closes!CloseTabsOfBar
  <2>1. PICK targets : Closes!ThenUnsaved(targets, s5)
    BY <1>5 DEF Closes!CloseTabsOfBar
  <2> QED BY <1>0, <1>1, <2>1
<1> QED BY <1>3, <1>4, <1>5

\* No other step closes a tab or finds the question on screen out of date.
LEMMA OthersCloseNothing ==
    ASSUME Closes!ClosingInv, [Closes!Next]_(Closes!vars), ~Closes!Closings
    PROVE  Closes!ClosingInv' /\ s1' = s1
<1>1. CASE Closes!Edit
  BY <1>1 DEF Closes!Edit, Closes!UserActs, Closes!ClosingInv
<1>2. CASE Closes!Save \/ Closes!StartTransfer \/ Closes!TransferEnds
  BY <1>2 DEF Closes!Save, Closes!StartTransfer, Closes!TransferEnds, Closes!ClosingInv
<1>3. CASE Closes!SaveEnds
  <2>1. s3' \subseteq s3 /\ UNCHANGED <<s1, s6, s7>>
    BY <1>3 DEF Closes!SaveEnds
  <2> QED BY <2>1 DEF Closes!ClosingInv
<1>4. CASE Closes!StartBroadcast \/ Closes!BlockersChange \/ Closes!RequestQuit \/ UNCHANGED Closes!vars
  BY <1>4 DEF Closes!StartBroadcast, Closes!BlockersChange, Closes!RequestQuit, Closes!vars,
     Closes!ClosingInv
<1>5. CASE Closes!BroadcastAsks \/ Closes!BroadcastAnswered \/ Closes!QuitAsks \/ Closes!QuitAnswered
  <2>1. s7' # "closing" /\ UNCHANGED <<s1, s3>>
    BY <1>5 DEF Closes!BroadcastAsks, Closes!BroadcastAnswered, Closes!QuitAsks,
       Closes!QuitAnswered, Closes!Confirm
  <2> QED BY <2>1 DEF Closes!ClosingInv
<1> QED BY <1>1, <1>2, <1>3, <1>4, <1>5 DEF Closes!Next

LEMMA ClosingsAnswered ==
    ASSUME Closes!ClosingInv, [Closes!Next]_(Closes!vars)
    PROVE  /\ Closes!ClosingInv'
           /\ Closes!UnsavedNeverDropped /\ Closes!AnsweredClosingsOnly
<1>1. CASE Closes!RemoveTab \/ Closes!CloseTab \/ Closes!CloseTabsOfBar
  BY <1>1, ClosingStartsAsking
     DEF Closes!ClosingInv, Closes!UnsavedNeverDropped, Closes!AnsweredClosingsOnly
<1>2. CASE Closes!AnswerClosing
  <2>1. s7 = "closing"
    BY <1>2 DEF Closes!AnswerClosing
  <2> QED BY <1>2, <2>1, AnswerCloses
          DEF Closes!UnsavedNeverDropped, Closes!AnsweredClosingsOnly
<1>3. CASE ~Closes!Closings
  BY <1>3, OthersCloseNothing
     DEF Closes!ClosingInv, Closes!UnsavedNeverDropped, Closes!AnsweredClosingsOnly
<1> QED BY <1>1, <1>2, <1>3 DEF Closes!Closings

-----------------------------------------------------------------------------
(* The shortcuts' settings page, on macOS.                                 *)
Keys == INSTANCE Keymap WITH IsMac <- TRUE, MaxActs <- KeymapActs, config <- s1, saves <- s2,
    recordingAction <- s3, conflict <- s4, recordingError <- s5, suppressed <- s6, acts <- s7

\* The registry names every action once.
LEMMA RegistryOfActions ==
    /\ DOMAIN Keys!KeymapActions = 1..4
    /\ Keys!Actions = {"newTab", "nextTab", "switchToNth", "reset"}
    /\ \A a \in Keys!Actions : \E i \in 1..4 : Keys!KeymapActions[i] = a
    /\ \A i \in 1..4 : Keys!KeymapActions[i] \in Keys!Actions
    /\ Keys!None \notin Keys!Actions
BY DEF Keys!KeymapActions, Keys!Actions, Keys!None

\* Overrides that no one may save were never in effect.
LEMMA DefaultsAreSound == [a \in Keys!Actions |-> Keys!Default] \in Keys!SoundBindings
<1> DEFINE b == [a \in Keys!Actions |-> Keys!Default]
<1>1. b \in [Keys!Actions -> Keys!Overrides]
  BY DEF Keys!Default, Keys!Overrides
<1>2. Keys!ResolveEffectiveKeymap(b) = Keys!DefaultBindings
  BY DEF Keys!ResolveEffectiveKeymap, Keys!Default, Keys!DefaultBindings
<1>3. /\ Keys!DefaultBindings["newTab"] = {[mods |-> {"mod"}, key |-> "t"]}
      /\ Keys!DefaultBindings["nextTab"] = {[mods |-> {"ctrl"}, key |-> "tab"]}
      /\ Keys!DefaultBindings["switchToNth"] = {[mods |-> {"mod"}, key |-> d] : d \in {"1", "2"}}
      /\ Keys!DefaultBindings["reset"] = {}
  BY RegistryOfActions DEF Keys!DefaultBindings, Keys!Chord, Keys!DigitChords, Keys!Digits
<1>4. \A c \in Keys!DefaultBindings["newTab"] : c.key = "t"
  BY <1>3
<1>5. \A c \in Keys!DefaultBindings["nextTab"] : c.key = "tab"
  BY <1>3
<1>6. \A c \in Keys!DefaultBindings["switchToNth"] : c.key \in {"1", "2"}
  BY <1>3
<1>7. ASSUME NEW c, NEW i \in Keys!Owners(Keys!DefaultBindings, c),
             NEW j \in Keys!Owners(Keys!DefaultBindings, c)
      PROVE  i = j
  <2>1. /\ i \in 1..4 /\ c \in Keys!DefaultBindings[Keys!KeymapActions[i]]
        /\ j \in 1..4 /\ c \in Keys!DefaultBindings[Keys!KeymapActions[j]]
    BY RegistryOfActions DEF Keys!Owners
  <2>2. /\ Keys!KeymapActions[1] = "newTab" /\ Keys!KeymapActions[2] = "nextTab"
        /\ Keys!KeymapActions[3] = "switchToNth" /\ Keys!KeymapActions[4] = "reset"
    BY DEF Keys!KeymapActions
  <2> QED BY <2>1, <2>2, <1>3, <1>4, <1>5, <1>6
<1>8. Keys!FindKeymapConflicts(b) = {}
  BY <1>2, <1>7 DEF Keys!FindKeymapConflicts
<1> QED BY <1>1, <1>8 DEF Keys!SoundBindings

\* What an event is recorded as.
LEMMA EventsAreChords == \A e \in Keys!Events : Keys!EventToChord(e) \in Keys!Chords
BY DEF Keys!Events, Keys!EventToChord, Keys!Chord, Keys!Chords

LEMMA KeymapStarts == Keys!Init => Keys!KeymapInv
<1> SUFFICES ASSUME Keys!Init PROVE Keys!KeymapInv
  OBVIOUS
<1>1. s1 \in Keys!SoundBindings /\ s2 = <<>> /\ s3 = Keys!None /\ s6 = FALSE
  BY DefaultsAreSound DEF Keys!Init
<1>2. s2 \in Seq(Keys!SoundSaves)
  BY <1>1
<1>3. s3 \in Keys!Actions \cup {Keys!None} /\ s6 = (s3 # Keys!None)
  BY <1>1
<1> QED BY <1>1, <1>2, <1>3 DEF Keys!KeymapInv

LEMMA PersistsSoundOnly ==
    ASSUME Keys!KeymapInv, NEW a \in Keys!Actions, NEW o \in Keys!Overrides, NEW r \in BOOLEAN,
           Keys!UpdateBinding(a, o, r)
    PROVE  s2' \in Seq(Keys!SoundSaves)
<1> DEFINE b == [s1 EXCEPT ![a] = o]
<1>1. b \in [Keys!Actions -> Keys!Overrides]
  BY DEF Keys!KeymapInv, Keys!SoundBindings
<1>2. CASE Keys!FindKeymapConflicts(b) # {}
  BY <1>2 DEF Keys!UpdateBinding, Keys!PersistKeymap, Keys!KeymapInv
<1>3. CASE Keys!FindKeymapConflicts(b) = {}
  <2>1. b \in Keys!SoundBindings
    BY <1>1, <1>3 DEF Keys!SoundBindings
  <2>2. s2' = Append(s2, [bindings |-> b, recorded |-> r])
    BY <1>3 DEF Keys!UpdateBinding, Keys!PersistKeymap
  <2>3. s2 \in Seq(Keys!SoundSaves)
    BY DEF Keys!KeymapInv
  <2>4. [bindings |-> b, recorded |-> r] \in Keys!SoundSaves
    BY <2>1 DEF Keys!SoundSaves
  <2> HIDE DEF b
  <2> QED BY <2>2, <2>3, <2>4
<1> QED BY <1>2, <1>3

LEMMA KeymapStaysSound ==
    ASSUME Keys!KeymapInv, [Keys!Next]_(Keys!vars)
    PROVE  Keys!KeymapInv'
<1>0. /\ s1 \in Keys!SoundBindings
      /\ s2 \in Seq(Keys!SoundSaves)
      /\ s3 \in Keys!Actions \cup {Keys!None} /\ s6 = (s3 # Keys!None)
  BY DEF Keys!KeymapInv
<1>1. CASE Keys!ToggleRecording
  BY <1>0, <1>1, RegistryOfActions DEF Keys!ToggleRecording, Keys!KeymapInv
<1>2. CASE Keys!StopRecording
  BY <1>0, <1>2 DEF Keys!StopRecording, Keys!KeymapInv
<1>3. CASE Keys!RecordUnbound
  <2>1. Keys!Unbound \in Keys!Overrides
    BY DEF Keys!Unbound, Keys!Overrides
  <2> QED BY <1>0, <1>3, <2>1, PersistsSoundOnly DEF Keys!RecordUnbound, Keys!KeymapInv
<1>4. CASE Keys!Record
  <2>0. s3 \in Keys!Actions
    BY <1>0, <1>4 DEF Keys!Record
  <2>1. \A cs \in SUBSET Keys!Chords : Keys!Bound(cs) \in Keys!Overrides
    BY DEF Keys!Bound, Keys!Overrides
  <2>2. PICK e \in Keys!Events :
            \/ UNCHANGED s2
            \/ Keys!UpdateBinding(s3, Keys!Bound(
                   IF s3 = "switchToNth" THEN {[Keys!EventToChord(e) EXCEPT !.key = d] : d \in Keys!Digits}
                   ELSE {Keys!EventToChord(e)}), TRUE)
    BY <1>4 DEF Keys!Record
  <2>3. Keys!EventToChord(e) \in Keys!Chords
    BY EventsAreChords
  <2>4. {[Keys!EventToChord(e) EXCEPT !.key = d] : d \in Keys!Digits} \subseteq Keys!Chords
    BY <2>3 DEF Keys!Chords
  <2>5. s2' \in Seq(Keys!SoundSaves)
    BY <1>0, <2>0, <2>1, <2>2, <2>3, <2>4, PersistsSoundOnly
  <2> QED BY <1>0, <1>4, <2>5 DEF Keys!Record, Keys!KeymapInv
<1>5. CASE Keys!ClearBinding
  <2>1. Keys!Unbound \in Keys!Overrides
    BY DEF Keys!Unbound, Keys!Overrides
  <2> QED BY <1>0, <1>5, <2>1, PersistsSoundOnly DEF Keys!ClearBinding, Keys!KeymapInv
<1>6. CASE Keys!RestoreDefault
  <2>1. Keys!Default \in Keys!Overrides
    BY DEF Keys!Default, Keys!Overrides
  <2> QED BY <1>0, <1>6, <2>1, PersistsSoundOnly DEF Keys!RestoreDefault, Keys!KeymapInv
<1>7. CASE Keys!HandleResetOverrides
  <2> DEFINE b == [a \in Keys!Actions |-> Keys!Default]
  <2>1. [bindings |-> b, recorded |-> FALSE] \in Keys!SoundSaves
    BY DefaultsAreSound DEF Keys!SoundSaves
  <2>2. s2' = Append(s2, [bindings |-> b, recorded |-> FALSE]) /\ UNCHANGED <<s1, s3, s6>>
    BY <1>7 DEF Keys!HandleResetOverrides
  <2> HIDE DEF b
  <2>3. s2' \in Seq(Keys!SoundSaves)
    BY <1>0, <2>1, <2>2
  <2> QED BY <1>0, <2>2, <2>3 DEF Keys!KeymapInv
<1>8. CASE Keys!SaveLands \/ Keys!SaveFails
  <2>1. /\ s2 # <<>> /\ s2' = Tail(s2)
        /\ s1' = Head(s2).bindings \/ s1' = s1
        /\ (s3' = Keys!None /\ s6' = FALSE) \/ UNCHANGED <<s3, s6>>
    BY <1>8 DEF Keys!SaveLands, Keys!SaveFails
  <2>2. Head(s2) \in Keys!SoundSaves
    BY <1>0, <2>1
  <2>3. s2' \in Seq(Keys!SoundSaves)
    BY <1>0, <2>1
  <2>4. Head(s2).bindings \in Keys!SoundBindings
    BY <2>2 DEF Keys!SoundSaves
  <2> QED BY <1>0, <2>1, <2>3, <2>4 DEF Keys!KeymapInv
<1>9. CASE UNCHANGED Keys!vars
  BY <1>0, <1>9 DEF Keys!vars, Keys!KeymapInv
<1> QED BY <1>1, <1>2, <1>3, <1>4, <1>5, <1>6, <1>7, <1>8, <1>9 DEF Keys!Next

\* The chord an action has is looked up as that action.
LEMMA ChordHasOneOwner ==
    ASSUME Keys!FindKeymapConflicts(s1) = {}, NEW a \in Keys!Actions,
           NEW c \in Keys!ResolveEffectiveKeymap(s1)[a]
    PROVE  Keys!ChordIndex(Keys!ResolveEffectiveKeymap(s1), c) = a
<1> DEFINE eff == Keys!ResolveEffectiveKeymap(s1)
           owners == Keys!Owners(eff, c)
<1>1. PICK i \in 1..4 : Keys!KeymapActions[i] = a
  BY RegistryOfActions
<1>2. i \in owners
  BY <1>1, RegistryOfActions DEF Keys!Owners
<1>3. \A j \in owners : j = i
  <2>1. c \in UNION {eff[x] : x \in Keys!Actions}
    OBVIOUS
  <2> QED BY <1>2, <2>1 DEF Keys!FindKeymapConflicts
<1>4. owners = {i}
  BY <1>2, <1>3
<1>5. (CHOOSE x \in owners : \A y \in owners : x <= y) = i
  BY <1>4
<1> QED BY <1>1, <1>4, <1>5 DEF Keys!ChordIndex

\* The keys a label names are the chord it is of.
LEMMA LabelNamesChord ==
    ASSUME NEW c \in Keys!Chords
    PROVE  Keys!EventToChord(Keys!LabelledKeys(c)) = c
<1> DEFINE held == {IF m = "mod" THEN "meta" ELSE m : m \in c.mods}
<1>1. c = [mods |-> c.mods, key |-> c.key] /\ c.mods \subseteq {"mod", "ctrl", "alt"}
  BY DEF Keys!Chords
<1>2. Keys!LabelledKeys(c).mods = held /\ Keys!LabelledKeys(c).key = c.key
  BY DEF Keys!LabelledKeys
<1>3. /\ "meta" \in held <=> "mod" \in c.mods
      /\ "ctrl" \in held <=> "ctrl" \in c.mods
      /\ "alt" \in held <=> "alt" \in c.mods
  BY <1>1
<1> HIDE DEF held
<1>4. (IF "meta" \in held THEN {"mod"} ELSE {}) \cup (IF "ctrl" \in held THEN {"ctrl"} ELSE {})
          \cup (held \cap {"alt"}) = c.mods
  BY <1>1, <1>3
<1> QED BY <1>1, <1>2, <1>4 DEF Keys!EventToChord, Keys!Chord

LEMMA LabelsAreTrue == Keys!KeymapInv => Keys!LabelsTellTheTruth
<1> SUFFICES ASSUME Keys!KeymapInv, NEW a \in Keys!Actions, NEW c \in Keys!ResolveEffectiveKeymap(s1)[a]
             PROVE  Keys!DispatchKeydownEvent(Keys!ResolveEffectiveKeymap(s1), Keys!LabelledKeys(c))
                        = IF s3 = Keys!None THEN a ELSE Keys!None
  BY DEF Keys!LabelsTellTheTruth
<1>0. /\ s1 \in [Keys!Actions -> Keys!Overrides] /\ Keys!FindKeymapConflicts(s1) = {}
      /\ s6 = (s3 # Keys!None)
  BY DEF Keys!KeymapInv, Keys!SoundBindings
<1>1. c \in Keys!Chords
  <2>1. CASE s1[a].kind = "default"
    <3>1. c \in Keys!DefaultBindings[a]
      BY <2>1 DEF Keys!ResolveEffectiveKeymap
    <3>2. /\ a = "newTab" => c = [mods |-> {"mod"}, key |-> "t"]
          /\ a = "nextTab" => c = [mods |-> {"ctrl"}, key |-> "tab"]
          /\ a = "switchToNth" => c \in {[mods |-> {"mod"}, key |-> d] : d \in {"1", "2"}}
          /\ a # "reset"
      BY <3>1, RegistryOfActions DEF Keys!DefaultBindings, Keys!Chord, Keys!DigitChords, Keys!Digits
    <3> QED BY <3>2, RegistryOfActions DEF Keys!Chords, Keys!Digits
  <2>2. CASE s1[a].kind # "default"
    BY <1>0, <2>2 DEF Keys!ResolveEffectiveKeymap, Keys!Overrides
  <2> QED BY <2>1, <2>2
<1>2. Keys!EventToChord(Keys!LabelledKeys(c)) = c
  BY <1>1, LabelNamesChord
<1>3. Keys!ChordIndex(Keys!ResolveEffectiveKeymap(s1), c) = a /\ a # Keys!None
  BY <1>0, ChordHasOneOwner, RegistryOfActions
<1> QED BY <1>0, <1>2, <1>3 DEF Keys!DispatchKeydownEvent

-----------------------------------------------------------------------------
(* A behaviour is one of a single part.                                    *)
\* The slots a part does not use.
Idle25 == s25 = 0
Idle24 == s24 = 0 /\ Idle25
Idle23 == s23 = 0 /\ Idle24
Idle22 == s22 = 0 /\ Idle23
Idle21 == s21 = 0 /\ Idle22
Idle20 == s20 = 0 /\ Idle21
Idle19 == s19 = 0 /\ Idle20
Idle18 == s18 = 0 /\ Idle19
Idle17 == s17 = 0 /\ Idle18
Idle16 == s16 = 0 /\ Idle17
Idle15 == s15 = 0 /\ Idle16
Idle14 == s14 = 0 /\ Idle15
Idle13 == s13 = 0 /\ Idle14
Idle12 == s12 = 0 /\ Idle13
Idle11 == s11 = 0 /\ Idle12
Idle10 == s10 = 0 /\ Idle11
Idle9 == s9 = 0 /\ Idle10
Idle8 == s8 = 0 /\ Idle9

Init ==
    \/ part = "transfers" /\ List!Init /\ Idle13
    \/ part = "browser" /\ Browser!Init /\ Idle22
    \/ part = "tunnels" /\ Tunnel!Init /\ Idle15
    \/ part = "connection" /\ Connection!Init /\ Idle11
    \/ part = "groups" /\ Groups!Init /\ Idle12
    \/ part = "import" /\ Importer!Init /\ Idle17
    \/ part = "library" /\ Library!Init /\ Idle15
    \/ part = "backups" /\ Backup!Init /\ Idle11
    \/ part = "updater" /\ Update!Init /\ Idle19
    \/ part = "themes" /\ Theme!Init
    \/ part = "appearance" /\ Look!Init /\ Idle22
    \/ part = "logs" /\ Logs!Init /\ Idle20
    \/ part = "replay" /\ Replay!Init /\ Idle11
    \/ part = "closing" /\ Closes!Init /\ Idle12
    \/ part = "keymap" /\ Keys!Init /\ Idle8

Next ==
    \/ /\ part = "transfers" /\ List!Next
       /\ UNCHANGED <<part, s13, s14, s15, s16, s17, s18, s19, s20, s21, s22, s23, s24, s25>>
    \/ part = "browser" /\ Browser!Next /\ UNCHANGED <<part, s22, s23, s24, s25>>
    \/ /\ part = "tunnels" /\ Tunnel!Next
       /\ UNCHANGED <<part, s15, s16, s17, s18, s19, s20, s21, s22, s23, s24, s25>>
    \/ /\ part = "connection" /\ Connection!Next
       /\ UNCHANGED <<part, s11, s12, s13, s14, s15, s16, s17, s18, s19, s20, s21, s22, s23,
                      s24, s25>>
    \/ /\ part = "groups" /\ Groups!Next
       /\ UNCHANGED <<part, s12, s13, s14, s15, s16, s17, s18, s19, s20, s21, s22, s23, s24,
                      s25>>
    \/ /\ part = "import" /\ Importer!Next
       /\ UNCHANGED <<part, s17, s18, s19, s20, s21, s22, s23, s24, s25>>
    \/ /\ part = "library" /\ Library!Next
       /\ UNCHANGED <<part, s15, s16, s17, s18, s19, s20, s21, s22, s23, s24, s25>>
    \/ /\ part = "backups" /\ Backup!Next
       /\ UNCHANGED <<part, s11, s12, s13, s14, s15, s16, s17, s18, s19, s20, s21, s22, s23,
                      s24, s25>>
    \/ part = "updater" /\ Update!Next /\ UNCHANGED <<part, s19, s20, s21, s22, s23, s24, s25>>
    \/ part = "themes" /\ Theme!Next /\ UNCHANGED <<part>>
    \/ part = "appearance" /\ Look!Next /\ UNCHANGED <<part, s22, s23, s24, s25>>
    \/ part = "logs" /\ Logs!Next /\ UNCHANGED <<part, s20, s21, s22, s23, s24, s25>>
    \/ /\ part = "replay" /\ Replay!Next
       /\ UNCHANGED <<part, s11, s12, s13, s14, s15, s16, s17, s18, s19, s20, s21, s22, s23,
                      s24, s25>>
    \/ /\ part = "closing" /\ Closes!Next
       /\ UNCHANGED <<part, s12, s13, s14, s15, s16, s17, s18, s19, s20, s21, s22, s23, s24,
                      s25>>
    \/ /\ part = "keymap" /\ Keys!Next
       /\ UNCHANGED <<part, s8, s9, s10, s11, s12, s13, s14, s15, s16, s17, s18, s19, s20, s21,
                      s22, s23, s24, s25>>

Spec == Init /\ [][Next]_vars

-----------------------------------------------------------------------------
\* Nothing is left waiting: once the backend has no work no transfer is pending, a busy
\* updater has an operation in flight, and the server runs no search but the one on screen
\* (TransferContext, updater.ts, useSftpSearch).
NothingStaysBusy ==
    /\ part = "transfers" => List!TypeOK /\ List!TransfersSettle
    /\ part = "updater" => Update!BusyMeansWork
    /\ part = "browser" => Browser!SearchesStop

\* What is deleted, inserted or imported is what the user confirmed: files, backups and
\* logs that stood ticked, the version of a command that was agreed to, and the hosts
\* ticked in the preview (useSftpDeleteActions, WebDavBackupPanel, LogsPanel,
\* useCommandInsertion, SshConfigImportDialog).
DoneAsConfirmed ==
    [][/\ part = "browser" => Browser!DeletesAsConfirmed'
       /\ part = "backups" => Backup!DeletesWhatIsTicked'
       /\ part = "logs" => Logs!DeletesWhatStoodTicked
       /\ part = "library" => Library!InsertedAsConfirmed'
       /\ part = "import" => Importer!ImportsTickedOnly]_vars

\* What is on screen is what it stands for, once nothing is under way: the theme and the
\* window's look are the chosen ones, a replayed terminal shows what was played, the
\* history points at the folder listed, the title counts the tunnels that run, and the
\* connections ticked and the groups being renamed are on the page (ThemeContext, windowBlur,
\* useReplayPlayer, useSftpHistory, useRunningTunnelCount, ProfileGroupsSettingsTab).
ShownIsTrue ==
    /\ part = "themes" => Theme!ScreenSettles
    /\ part = "appearance" => Look!TintUntilDrawn /\ Look!AppearanceSettles
    /\ part = "replay" => Replay!TypeOK /\ Replay!ScreenShowsPlayed
    /\ part = "browser" => Browser!HistoryShowsListing
    /\ part = "tunnels" => Tunnel!CountSettles
    /\ part = "groups" => Groups!TypeOK

\* What a dialog saves is what takes effect: a connection's save keeps the secrets the form
\* showed as saved and removes those it was told to forget, and once an edited tunnel was
\* restarted no task runs an older rule (useConnectionSubmit, store_profile,
\* useTunnelActions).
SavesAsShown ==
    [][/\ part = "connection" => Connection!SecretsAsShown
       /\ part = "tunnels" => Tunnel!EditsReachTheTunnel']_vars

\* What is stored stays a tree that holds every connection, whatever was sent from a page
\* that showed an older one (useProfileGroupActions, groups.rs).
GroupsAreForest == part = "groups" => Groups!GroupsAreForest

\* A remote file with unsaved changes is closed only after a question that named it, and
\* nothing but the answer to its own question closes what was asked about (useTabClosing,
\* useQuitGuard).
ClosesAsAnswered == [][part = "closing" => Closes!UnsavedNeverDropped /\ Closes!AnsweredClosingsOnly]_vars

\* On macOS, the keys a shortcut's label names run that action, whatever was recorded,
\* cleared, restored or reset before (keymap.ts, dispatcher.ts).
LabelsTellTheTruth == part = "keymap" => Keys!LabelsTellTheTruth

-----------------------------------------------------------------------------
(* What is confirmed stays so from the question to the deed.               *)

ConfirmedSoFar ==
    /\ part = "browser" => Browser!ConfirmInv
    /\ part = "backups" => Backup!TickedInv
    /\ part = "logs" => Logs!StoodInv
    /\ part = "library" => Library!InsertInv
    /\ part = "import" => Importer!TickInv

LEMMA NothingConfirmedYet == Init => ConfirmedSoFar
<1> SUFFICES ASSUME Init PROVE ConfirmedSoFar
  OBVIOUS
<1>1. CASE part = "browser"
  BY <1>1 DEF Init, ConfirmedSoFar, Browser!Init, Browser!ConfirmInv
<1>2. CASE part = "backups"
  BY <1>2 DEF Init, ConfirmedSoFar, Backup!Init, Backup!TickedInv, Backup!SelectedIsListed,
     Backup!DeletesWhatIsTicked, Backup!Panel0
<1>3. CASE part = "logs"
  BY <1>3 DEF Init, ConfirmedSoFar, Logs!Init, Logs!StoodInv
<1>4. CASE part = "library"
  BY <1>4 DEF Init, ConfirmedSoFar, Library!Init, Library!InsertInv, Library!InsertedAsConfirmed,
     Library!NoInsert, Library!None
<1>5. CASE part = "import"
  BY <1>5 DEF Init, ConfirmedSoFar, Importer!Init, Importer!TickInv
<1> QED BY <1>1, <1>2, <1>3, <1>4, <1>5 DEF ConfirmedSoFar

\* A step is a step, or a stutter, of the one part that is shown.
LEMMA PartSteps ==
    ASSUME [Next]_vars
    PROVE  /\ part' = part
           /\ part = "browser" => [Browser!Next]_(Browser!vars)
           /\ part = "backups" => [Backup!Next]_(Backup!vars)
           /\ part = "logs" => [Logs!Next]_(Logs!vars)
           /\ part = "library" => [Library!Next]_(Library!vars)
           /\ part = "import" => [Importer!Next]_(Importer!vars)
           /\ part = "connection" => [Connection!Next]_(Connection!vars)
           /\ part = "tunnels" => [Tunnel!Next]_(Tunnel!vars)
           /\ part = "transfers" => [List!Next]_(List!vars)
           /\ part = "updater" => [Update!Next]_(Update!vars)
           /\ part = "themes" => [Theme!Next]_(Theme!vars)
           /\ part = "appearance" => [Look!Next]_(Look!vars)
           /\ part = "groups" => [Groups!Next]_(Groups!vars)
           /\ part = "closing" => [Closes!Next]_(Closes!vars)
           /\ part = "keymap" => [Keys!Next]_(Keys!vars)
<1>1. CASE Next
  BY <1>1 DEF Next
<1>2. CASE UNCHANGED vars
  BY <1>2 DEF vars, slots, Browser!vars, Browser!folderVars, Browser!modeVars, Browser!deleteVars,
     Backup!vars, Logs!vars, Logs!pageVars, Logs!diskVars, Logs!callVars, Library!vars,
     Library!libVars, Library!flowVars, Importer!vars, Importer!dialogVars, Importer!callVars,
     Importer!storeVars, Connection!vars, Tunnel!vars, List!vars, Update!vars, Update!memVars,
     Update!opVars, Update!timerVars, Update!envVars, Theme!vars, Theme!cfgVars, Theme!themeVars,
     Theme!shownVars, Theme!sysVars, Theme!libVars, Theme!dialogVars, Theme!bounds, Look!vars,
     Look!winVars, Look!pageVars, Look!envVars, Groups!vars, Closes!vars, Keys!vars
<1> QED BY <1>1, <1>2

\* Browsing, ticking, answering: whatever interleaves, files, backups and logs are
\* deleted, commands inserted and hosts imported as the user confirmed them
\* (DoneAsConfirmed), for every bound and any number of each.
THEOREM ThingsDoneAsConfirmed == Spec => DoneAsConfirmed
<1>1. ConfirmedSoFar /\ [Next]_vars => ConfirmedSoFar'
  BY PartSteps, BrowserConfirms, BackupsTick, LogsStand, LibraryInserts, ImportTicks
     DEF ConfirmedSoFar
<1>2. ConfirmedSoFar /\ ConfirmedSoFar' /\ [Next]_vars =>
          [/\ part = "browser" => Browser!DeletesAsConfirmed'
           /\ part = "backups" => Backup!DeletesWhatIsTicked'
           /\ part = "logs" => Logs!DeletesWhatStoodTicked
           /\ part = "library" => Library!InsertedAsConfirmed'
           /\ part = "import" => Importer!ImportsTickedOnly]_vars
  <2> SUFFICES ASSUME ConfirmedSoFar, ConfirmedSoFar', [Next]_vars
               PROVE  /\ part = "browser" => Browser!DeletesAsConfirmed'
                      /\ part = "backups" => Backup!DeletesWhatIsTicked'
                      /\ part = "logs" => Logs!DeletesWhatStoodTicked
                      /\ part = "library" => Library!InsertedAsConfirmed'
                      /\ part = "import" => Importer!ImportsTickedOnly
    OBVIOUS
  <2>1. part = "browser" => Browser!DeletesAsConfirmed'
    BY PartSteps DEF ConfirmedSoFar, Browser!ConfirmInv, Browser!DeletesAsConfirmed
  <2>2. part = "backups" => Backup!DeletesWhatIsTicked'
    BY PartSteps DEF ConfirmedSoFar, Backup!TickedInv
  <2>3. part = "logs" => Logs!DeletesWhatStoodTicked
    BY PartSteps, LogsDelete DEF ConfirmedSoFar
  <2>4. part = "library" => Library!InsertedAsConfirmed'
    BY PartSteps DEF ConfirmedSoFar, Library!InsertInv
  <2>5. part = "import" => Importer!ImportsTickedOnly
    BY PartSteps, ImportWrites DEF ConfirmedSoFar
  <2> QED BY <2>1, <2>2, <2>3, <2>4, <2>5
<1> QED BY NothingConfirmedYet, <1>1, <1>2, PTL DEF Spec, DoneAsConfirmed

-----------------------------------------------------------------------------
(* What a dialog saves is what takes effect.                               *)

SavedSoFar ==
    /\ part = "connection" => Connection!SecretInv
    /\ part = "tunnels" => Tunnel!RestartInv

LEMMA NothingSavedYet == Init => SavedSoFar
<1> SUFFICES ASSUME Init PROVE SavedSoFar
  OBVIOUS
<1>1. ASSUME part = "connection" PROVE Connection!SecretInv
  <2>1. Connection!Init
    BY <1>1 DEF Init
  <2>0. Connection!InitProfile /\ Connection!InitSecrets
    BY <2>1 DEF Connection!Init
  <2>2. s2.jumps \in Seq(Connection!JumpHosts) /\ Connection!NamedOnce(s2.jumps)
    <3>1. <<>> \in Seq(Connection!JumpHosts) /\ Connection!NamedOnce(<<>>)
      BY DEF Connection!NamedOnce
    <3>2. s2.jumps = <<>> \/ \E h \in Hops, a \in Connection!Auths : s2.jumps = <<Connection!Jump(h, a)>>
      <4>1. PICK auth \in Connection!Auths, jumps \in Connection!Chains :
                s2 = IF s1 = "new" THEN Connection!Saved(FALSE, "password", <<>>)
                     ELSE Connection!Saved(TRUE, auth, jumps)
        BY <2>0 DEF Connection!InitProfile
      <4>2. jumps = <<>> \/ \E h \in Hops, a \in Connection!Auths : jumps = <<Connection!Jump(h, a)>>
        BY DEF Connection!Chains
      <4>3. s2.jumps = <<>> \/ s2.jumps = jumps
        BY <4>1 DEF Connection!Saved
      <4> QED BY <4>2, <4>3
    <3> QED BY <3>1, <3>2, OneNamedOnce
  <2>3. /\ s4.jumps = s2.jumps /\ s4.type = "ssh"
        /\ DOMAIN s4 = DOMAIN Connection!BuildInitialForm(s2)
    BY <2>1 DEF Connection!Init, Connection!BuildInitialForm
  <2>4. s3.jumps \subseteq Connection!PasswordHops(s2.jumps)
    <3>0. \E target, sudo \in BOOLEAN, jumps \in SUBSET Hops :
              /\ s3 = [target |-> target, jumps |-> jumps, sudo |-> sudo]
              /\ target => s1 = "edit" /\ s2.auth = "password"
              /\ sudo => s1 = "edit"
              /\ jumps \subseteq (IF s1 = "edit" THEN Connection!PasswordHops(s2.jumps) ELSE {})
      BY <2>0 DEF Connection!InitSecrets
    <3>1. PICK target \in BOOLEAN, sudo \in BOOLEAN, jumps \in SUBSET Hops :
              /\ s3 = [target |-> target, jumps |-> jumps, sudo |-> sudo]
              /\ jumps \subseteq (IF s1 = "edit" THEN Connection!PasswordHops(s2.jumps) ELSE {})
      BY <3>0
    <3>2. s3.jumps = jumps
      BY <3>1
    <3> QED BY <3>1, <3>2
  <2>5. s5 = Connection!NothingKnown /\ s8 = {} /\ s1 \in {"edit", "quick", "new"}
    BY <2>1 DEF Connection!Init
  <2> QED BY <2>2, <2>3, <2>4, <2>5 DEF Connection!SecretInv, Connection!TypeOK,
      Connection!NothingKnown
<1>2. ASSUME part = "tunnels" PROVE Tunnel!RestartInv
  <2>1. Tunnel!Init
    BY <1>2 DEF Init
  <2>2. Tunnel!PageTypeOK
    BY <2>1 DEF Tunnel!Init, Tunnel!PageTypeOK, Tunnel!Form, Tunnel!Flow, Tunnel!None
  <2>3. Tunnel!RestartTypeOK
    BY <2>1, RulesAssumption DEF Tunnel!Init, Tunnel!RestartTypeOK
  <2>4. \A t \in Rules : ~Tunnel!IsTunnelActive(s2[t]) /\ s1[t] = 1 /\ s13[t] = 0
    BY <2>1 DEF Tunnel!Init, Tunnel!IsTunnelActive
  <2>5. s8 = {} /\ s11 = {}
    BY <2>1 DEF Tunnel!Init
  <2> QED BY <2>2, <2>3, <2>4, <2>5 DEF Tunnel!RestartInv, Tunnel!OneSave,
      Tunnel!EditsReachTheTunnel
<1> QED BY <1>1, <1>2 DEF SavedSoFar

\* Whatever lookups, edits, saves, starts and stops interleave, a connection's save keeps
\* the secrets its form showed as saved and removes those it was told to forget, and a
\* tunnel restarted after an edit runs no older rule (SavesAsShown).
THEOREM SavesTakeEffect == Spec => SavesAsShown
<1>1. SavedSoFar /\ [Next]_vars => SavedSoFar'
  BY PartSteps, ConnectionSecrets, TunnelRestarts DEF SavedSoFar
<1>2. SavedSoFar /\ SavedSoFar' /\ [Next]_vars =>
          [/\ part = "connection" => Connection!SecretsAsShown
           /\ part = "tunnels" => Tunnel!EditsReachTheTunnel']_vars
  <2> SUFFICES ASSUME SavedSoFar, SavedSoFar', [Next]_vars
               PROVE  /\ part = "connection" => Connection!SecretsAsShown
                      /\ part = "tunnels" => Tunnel!EditsReachTheTunnel'
    OBVIOUS
  <2>1. part = "connection" => Connection!SecretsAsShown
    BY PartSteps, StoresAsShown DEF SavedSoFar
  <2>2. part = "tunnels" => Tunnel!EditsReachTheTunnel'
    BY PartSteps DEF SavedSoFar, Tunnel!RestartInv
  <2> QED BY <2>1, <2>2
<1> QED BY NothingSavedYet, <1>1, <1>2, PTL DEF Spec, SavesAsShown

-----------------------------------------------------------------------------
(* What is under way is what the page waits for.                           *)

WorkSoFar ==
    /\ part = "transfers" => List!SettleInv
    /\ part = "updater" => Update!BusyInv
    /\ part = "browser" => Browser!SearchesStop

LEMMA NothingAtWork == Init => WorkSoFar
<1> SUFFICES ASSUME Init PROVE WorkSoFar
  OBVIOUS
<1>1. ASSUME part = "transfers" PROVE List!SettleInv
  <2>1. List!Init
    BY <1>1 DEF Init
  <2> QED BY <2>1, ListStarts
<1>2. ASSUME part = "updater" PROVE Update!BusyInv
  <2>1. Update!Init
    BY <1>2 DEF Init
  <2> QED BY <2>1, UpdaterStarts
<1>3. ASSUME part = "browser" PROVE Browser!SearchesStop
  <2>1. Browser!Init
    BY <1>3 DEF Init
  <2> QED BY <2>1 DEF Browser!Init, Browser!SearchesStop
<1> QED BY <1>1, <1>2, <1>3 DEF WorkSoFar

\* Whatever is cancelled, removed, retried and reported, whichever update operations
\* overlap and however searches replace each other, nothing is left waiting for work
\* nobody does (NothingStaysBusy), for every bound on runs, files, retries, reports,
\* channels, releases and clicks.
THEOREM NothingHangs == Spec => []NothingStaysBusy
<1>1. WorkSoFar /\ [Next]_vars => WorkSoFar'
  <2> SUFFICES ASSUME WorkSoFar, [Next]_vars PROVE WorkSoFar'
    OBVIOUS
  <2>1. part' = part
    BY PartSteps
  <2>2. part = "transfers" => List!SettleInv'
    BY PartSteps, ListKeeps DEF WorkSoFar
  <2>3. part = "updater" => Update!BusyInv'
    BY PartSteps, UpdaterKeeps DEF WorkSoFar
  <2>4. part = "browser" => Browser!SearchesStop'
    BY PartSteps, SearchesReplaced DEF WorkSoFar
  <2> QED BY <2>1, <2>2, <2>3, <2>4 DEF WorkSoFar
<1>2. WorkSoFar => NothingStaysBusy
  BY ListSettles DEF WorkSoFar, NothingStaysBusy, Update!BusyInv
<1> QED BY NothingAtWork, <1>1, <1>2, PTL DEF Spec

-----------------------------------------------------------------------------
(* What is on screen is what it stands for.                                *)

ShownSoFar ==
    /\ part = "themes" => Theme!ScreenInv
    /\ part = "appearance" => Look!TintInv /\ Look!LookInv
    /\ part = "browser" => Browser!HistoryInv
    /\ part = "tunnels" => Tunnel!RestartInv /\ Tunnel!CountInv

LEMMA NothingShownYet == Init => ShownSoFar
<1> SUFFICES ASSUME Init PROVE ShownSoFar
  OBVIOUS
<1>1. ASSUME part = "themes" PROVE Theme!ScreenInv
  <2>1. Theme!Init
    BY <1>1 DEF Init
  <2> QED BY <2>1, ThemeStarts
<1>2. ASSUME part = "appearance" PROVE Look!TintInv /\ Look!LookInv
  <2>1. Look!Init
    BY <1>2 DEF Init
  <2> QED BY <2>1, LookStarts
<1>3. ASSUME part = "browser" PROVE Browser!HistoryInv
  <2>1. Browser!Init
    BY <1>3 DEF Init
  <2> QED BY <2>1, HistoryStarts
<1>4. ASSUME part = "tunnels" PROVE Tunnel!RestartInv /\ Tunnel!CountInv
  <2>1. Tunnel!Init
    BY <1>4 DEF Init
  <2>2. Tunnel!RestartInv
    BY <1>4, NothingSavedYet DEF SavedSoFar
  <2> QED BY <2>1, <2>2, CountStarts
<1> QED BY <1>1, <1>2, <1>3, <1>4 DEF ShownSoFar

\* Whatever choices, saves, loads, events and answers interleave, the theme and the window
\* are the chosen ones, the history points at the folder listed and the title counts the
\* tunnels that run (ShownIsTrue, but for the replayed terminal and the groups page), for
\* every bound on them.
THEOREM ScreenIsTrue == Spec => [](part \notin {"replay", "groups"} => ShownIsTrue)
<1>1. ShownSoFar /\ [Next]_vars => ShownSoFar'
  <2> SUFFICES ASSUME ShownSoFar, [Next]_vars PROVE ShownSoFar'
    OBVIOUS
  <2>1. part' = part
    BY PartSteps
  <2>2. part = "themes" => Theme!ScreenInv'
    BY PartSteps, ScreenSettled DEF ShownSoFar
  <2>3. part = "appearance" => Look!TintInv' /\ Look!LookInv'
    BY PartSteps, LookTints, LookSettles DEF ShownSoFar
  <2>4. part = "browser" => Browser!HistoryInv'
    BY PartSteps, BrowserShows DEF ShownSoFar
  <2>5. part = "tunnels" => Tunnel!RestartInv' /\ Tunnel!CountInv'
    BY PartSteps, TunnelRestarts, TunnelCounts DEF ShownSoFar
  <2> QED BY <2>1, <2>2, <2>3, <2>4, <2>5 DEF ShownSoFar
<1>2. ShownSoFar => (part \notin {"replay", "groups"} => ShownIsTrue)
  BY ThemeIsShown, LookIsShown, ShownInHistory, TunnelsCounted DEF ShownSoFar, ShownIsTrue
<1> QED BY NothingShownYet, <1>1, <1>2, PTL DEF Spec

-----------------------------------------------------------------------------
(* Closing tabs, and the shortcuts.                                        *)

ClosedSoFar == part = "closing" => Closes!ClosingInv

\* Whatever is edited, saved, transferred and asked meanwhile, tabs close as their
\* questions were answered (ClosesAsAnswered), for any tabs.
THEOREM TabsCloseAsAnswered == Spec => ClosesAsAnswered
<1>1. Init => ClosedSoFar
  <2> SUFFICES ASSUME Init, part = "closing" PROVE Closes!ClosingInv
    BY DEF ClosedSoFar
  <2>1. Closes!Init
    BY DEF Init
  <2> QED BY <2>1, ClosingStarts
<1>2. ClosedSoFar /\ [Next]_vars => ClosedSoFar'
  BY PartSteps, ClosingsAnswered DEF ClosedSoFar
<1>3. ClosedSoFar /\ [Next]_vars =>
          [part = "closing" => Closes!UnsavedNeverDropped /\ Closes!AnsweredClosingsOnly]_vars
  BY PartSteps, ClosingsAnswered DEF ClosedSoFar
<1> QED BY <1>1, <1>2, <1>3, PTL DEF Spec, ClosesAsAnswered

RecordedSoFar == part = "keymap" => Keys!KeymapInv

\* On macOS, whatever is recorded, cleared, restored and reset and whichever saves land,
\* a label names the keys that run its action (LabelsTellTheTruth).
THEOREM MacLabelsAreTrue == Spec => []LabelsTellTheTruth
<1>1. Init => RecordedSoFar
  <2> SUFFICES ASSUME Init, part = "keymap" PROVE Keys!KeymapInv
    BY DEF RecordedSoFar
  <2>1. Keys!Init
    BY DEF Init
  <2> QED BY <2>1, KeymapStarts
<1>2. RecordedSoFar /\ [Next]_vars => RecordedSoFar'
  BY PartSteps, KeymapStaysSound DEF RecordedSoFar
<1>3. RecordedSoFar => LabelsTellTheTruth
  BY LabelsAreTrue DEF RecordedSoFar, LabelsTellTheTruth
<1> QED BY <1>1, <1>2, <1>3, PTL DEF Spec

-----------------------------------------------------------------------------
(* The groups of connections.                                              *)

ForestSoFar == part = "groups" => Groups!ForestInv

\* Whatever is dragged, added, renamed and deleted on a page that shows an older tree, and in
\* whatever order commands commit, fail and are answered, what is stored stays a forest
\* that holds every connection (GroupsAreForest), for any connections and groups.
THEOREM ConnectionsStayInForest == Spec => []GroupsAreForest
<1>1. Init => ForestSoFar
  <2> SUFFICES ASSUME Init, part = "groups" PROVE Groups!ForestInv
    BY DEF ForestSoFar
  <2>1. Groups!Init
    BY DEF Init
  <2> QED BY <2>1, GroupsStart
<1>2. ForestSoFar /\ [Next]_vars => ForestSoFar'
  BY PartSteps, GroupsStayForest DEF ForestSoFar
<1>3. ForestSoFar => GroupsAreForest
  BY DEF ForestSoFar, GroupsAreForest, Groups!ForestInv
<1> QED BY <1>1, <1>2, <1>3, PTL DEF Spec
=============================================================================
