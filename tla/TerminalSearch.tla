-------------------------- MODULE TerminalSearch ---------------------------
(***************************************************************************)
(* The search bar of a terminal: a query and options whose searches run     *)
(* from timers, the xterm search addon that highlights every match and      *)
(* selects one, and the bar's own highlight of the selected match.  What    *)
(* was searched is a pair of query and options.                             *)
(***************************************************************************)
EXTENDS Integers, FiniteSets

CONSTANTS
    Queries,        \* texts that can be typed
    Options,        \* combinations of case, whole word and regex
    Found,          \* the pairs that match something in the buffer
    Broken,         \* the pairs the addon throws on (an invalid expression)
    MaxActs         \* bound on inputs

VARIABLES
    isSearchOpen, searchQuery, searchOptions,
    previousSearchOptions,
    searchResults,  \* the pair the shown count is of, or None when it is zero
    highlighted,    \* the pair whose matches the addon highlights
    selection,      \* the pair whose match is selected in the terminal
    active,         \* the pair of the bar's own highlight
    searchTimer,    \* the search that is due: its closure, and how many of decorations
                    \* were due before it
    decorations,    \* highlights of the selection that are due
    acts

vars == <<isSearchOpen, searchQuery, searchOptions, previousSearchOptions, searchResults,
          highlighted, selection, active, searchTimer, decorations, acts>>

Empty == "empty"    \* the empty query
None == <<Empty, Empty>>
NoTimer == [query |-> Empty, options |-> Empty, changed |-> FALSE, due |-> FALSE,
            after |-> 0]

Act == acts < MaxActs /\ acts' = acts + 1

-----------------------------------------------------------------------------
(* Searching.                                                              *)

\* findNext and findPrevious of the addon, and the event that reports what they counted.
Find(pair) ==
    /\ highlighted' = IF pair \in Found THEN pair ELSE None
    /\ searchResults' = IF pair \in Found THEN pair ELSE None
    /\ selection' = IF pair \in Found THEN pair
                    ELSE IF pair \in Broken THEN selection ELSE None

\* runSearch: a found match is highlighted from a timer; nothing found, or an expression
\* the addon throws on, takes the highlight away.
RunSearch(query, options, drawn) ==
    IF query = Empty
    THEN /\ highlighted' = None /\ searchResults' = None
         /\ active' = drawn
         /\ UNCHANGED <<selection, decorations>>
    ELSE /\ Find(<<query, options>>)
         /\ IF <<query, options>> \in Found
            THEN decorations' = decorations + 1 /\ active' = drawn
            ELSE active' = None /\ UNCHANGED decorations

\* Mutant: an earlier search stays due when the bar closes.
ScheduleOver(open, query, options) ==
    IF ~open THEN UNCHANGED <<searchTimer, previousSearchOptions>>
    ELSE /\ searchTimer' = [query |-> query, options |-> options, due |-> TRUE,
                            changed |-> previousSearchOptions # options,
                            after |-> decorations]
         /\ previousSearchOptions' = options

\* The effect over the bar, its query and its options: what was due is given up, and an
\* open bar searches anew.
Schedule(open, query, options) ==
    IF ~open THEN searchTimer' = NoTimer /\ UNCHANGED previousSearchOptions
    ELSE /\ searchTimer' = [query |-> query, options |-> options, due |-> TRUE,
                            changed |-> previousSearchOptions # options,
                            after |-> decorations]
         /\ previousSearchOptions' = options

\* Changed options start from nothing; the search of the closure then runs.  Timers of no
\* delay fire in the order they were set.
SearchTimerFires ==
    /\ searchTimer.due /\ searchTimer.after = 0
    /\ searchTimer' = NoTimer
    /\ RunSearch(searchTimer.query, searchTimer.options,
                 IF searchTimer.changed THEN None ELSE active)
    /\ UNCHANGED <<isSearchOpen, searchQuery, searchOptions, previousSearchOptions, acts>>

\* decorateActiveSearchSelection: whatever is selected by now.
DecorateSelection ==
    /\ decorations > 0
    /\ searchTimer.due => searchTimer.after > 0
    /\ decorations' = decorations - 1
    /\ searchTimer' = [searchTimer EXCEPT !.after = IF @ = 0 THEN 0 ELSE @ - 1]
    /\ active' = IF selection = None THEN active ELSE selection
    /\ UNCHANGED <<isSearchOpen, searchQuery, searchOptions, previousSearchOptions,
                   searchResults, highlighted, selection, acts>>

-----------------------------------------------------------------------------
(* The bar.                                                                *)

OpenSearch ==
    /\ Act /\ ~isSearchOpen
    /\ isSearchOpen' = TRUE
    /\ Schedule(TRUE, searchQuery, searchOptions)
    /\ UNCHANGED <<searchQuery, searchOptions, searchResults, highlighted, selection, active,
                   decorations>>

\* Its button, or Escape in the bar or in the active terminal.
CloseSearch ==
    /\ Act /\ isSearchOpen
    /\ isSearchOpen' = FALSE
    /\ searchQuery' = Empty
    /\ active' = None /\ highlighted' = None /\ searchResults' = None
    /\ Schedule(FALSE, Empty, searchOptions)
    /\ UNCHANGED <<searchOptions, selection, decorations>>

TypeQuery ==
    /\ Act /\ isSearchOpen
    /\ \E q \in (Queries \cup {Empty}) \ {searchQuery} :
          searchQuery' = q /\ Schedule(TRUE, q, searchOptions)
    /\ UNCHANGED <<isSearchOpen, searchOptions, searchResults, highlighted, selection, active,
                   decorations>>

ToggleSearchOption ==
    /\ Act /\ isSearchOpen
    /\ \E o \in Options \ {searchOptions} :
          searchOptions' = o /\ Schedule(TRUE, searchQuery, o)
    /\ UNCHANGED <<isSearchOpen, searchQuery, searchResults, highlighted, selection, active,
                   decorations>>

\* Enter, Shift+Enter and the arrows.
SearchAgain ==
    /\ Act /\ isSearchOpen
    /\ RunSearch(searchQuery, searchOptions, active)
    /\ UNCHANGED <<isSearchOpen, searchQuery, searchOptions, previousSearchOptions, searchTimer>>

\* The user clears the selection in the terminal.
ClearSelection ==
    /\ Act /\ selection # None
    /\ selection' = None
    /\ UNCHANGED <<isSearchOpen, searchQuery, searchOptions, previousSearchOptions,
                   searchResults, highlighted, active, searchTimer, decorations>>

Init ==
    /\ isSearchOpen = FALSE /\ searchQuery = Empty
    /\ searchOptions \in Options /\ previousSearchOptions = searchOptions
    /\ searchResults = None /\ highlighted = None /\ selection = None /\ active = None
    /\ searchTimer = NoTimer /\ decorations = 0 /\ acts = 0

Next ==
    \/ OpenSearch \/ CloseSearch \/ TypeQuery \/ ToggleSearchOption \/ SearchAgain
    \/ ClearSelection \/ SearchTimerFires \/ DecorateSelection

Spec == Init /\ [][Next]_vars

-----------------------------------------------------------------------------
Searched == <<searchQuery, searchOptions>>

TypeOK ==
    /\ isSearchOpen \in BOOLEAN
    /\ searchQuery \in Queries \cup {Empty} /\ searchOptions \in Options
    /\ searchTimer \in [query : Queries \cup {Empty}, options : Options \cup {Empty},
                       changed : BOOLEAN, due : BOOLEAN, after : Nat]
    /\ decorations \in Nat /\ acts \in 0..MaxActs

\* Once no search is due, what is counted and highlighted is what the open bar asks for,
\* and nothing when it asks for nothing or is closed.
SearchSettles ==
    ~searchTimer.due =>
        LET shown == IF isSearchOpen /\ Searched \in Found THEN Searched ELSE None IN
        highlighted = shown /\ searchResults = shown

\* A search that is due is one for what the open bar asks for.
DueIsAsked ==
    searchTimer.due => /\ isSearchOpen
                       /\ Searched = <<searchTimer.query, searchTimer.options>>

SearchInv == TypeOK /\ SearchSettles /\ DueIsAsked
=============================================================================
