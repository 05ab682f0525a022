---------------------------- MODULE SearchCursors ---------------------------
(***************************************************************************)
(* The paged text search of the owner's workspace (src/apps/agent/src/     *)
(* owner-workspace-core.ts).  A page walks directories and files until it  *)
(* has enough matches or has done enough work; what is left is kept under  *)
(* a cursor that serves one more page.  The pages of a search are a chain, *)
(* named after the call that started it.                                   *)
(*                                                                         *)
(* A file or directory is named by its path: the sequence of the names of  *)
(* its ancestors and its own.  Names are numbers, in the order in which a  *)
(* listing is sorted; a name is always of the same kind.                   *)
(*                                                                         *)
(* Reads are awaited, so calls interleave, and meanwhile files change,     *)
(* entries come and go, and cursors expire.  A page reads the listing of a *)
(* directory once; the next page reads it again and goes on at the offset  *)
(* that was kept.  The bound on the text of a page is part of MaxResults;  *)
(* searching in names only is the same walk without lines.                 *)
(***************************************************************************)
EXTENDS Sequences, FiniteSets, Naturals

CONSTANTS
  Calls,       \* search requests
  Names,       \* directory: the names it can hold
  Present,     \* directory: the names it holds at first
  Lines,       \* file: version: number of lines
  Match,       \* file: version: the lines that contain the term
  MaxDepth,
  MaxCursors,  \* 64
  MaxResults,  \* 100 per page
  MaxPending,  \* 200 matches queued
  MaxWork,     \* 500 entries per page
  MaxAtOnce,   \* bound: calls under way at once
  MaxEdits,    \* bound: files that change
  MaxChanges,  \* bound: directories with another listing than at first
  MaxDenials,  \* bound: reads the backend denies or fails
  Nil

Files == DOMAIN Lines
Dirs  == DOMAIN Names
Versions == {1, 2}

ASSUME CursorsAreCounted == MaxCursors \in Nat /\ MaxDepth \in Nat
ASSUME NilIsNoScan == Nil \notin [file : Files, next : Nat, version : Versions]

(* What is on the way to a file or directory are directories; a directory   *)
(* holds finitely many names; the matching lines of a version are among its *)
(* lines.                                                                   *)
ASSUME FilesAreEntries ==
  /\ Files \cup Dirs \subseteq Seq(Nat) /\ Files \cap Dirs = {} /\ <<>> \in Dirs
  /\ Present \in [Dirs -> SUBSET Nat]
  /\ \A d \in Dirs : /\ Names[d] \subseteq Nat /\ IsFiniteSet(Names[d])
                     /\ Present[d] \subseteq Names[d]
  /\ \A p \in Files \cup Dirs : \A i \in DOMAIN p : SubSeq(p, 1, i - 1) \in Dirs
  /\ \A f \in Files, v \in Versions : Lines[f][v] \in Nat /\ Match[f][v] \subseteq 1..Lines[f][v]

VARIABLES
  call,      \* call: its page
  cursors,   \* call: the state it left under its cursor, or Nil
  version,   \* file: its current version
  listing,   \* directory: the names it holds
  expired,   \* chains whose minute is over
  reported,  \* chain: history, the matches its pages returned
  ended,     \* chain: "open", "complete", "partial" or "lost"
  changed,   \* chain: history, the directories whose listing changed since
  denials

searchVars == <<call, cursors, version, listing, expired, reported, ended, changed, denials>>

(* "seen" holds the listings that the page has read.                       *)
Idle == [at |-> "idle", chain |-> Nil, state |-> Nil, page |-> <<>>, work |-> 0, seen |-> <<>>]
Fresh == [stack |-> <<[dir |-> <<>>, offset |-> 1]>>, pending |-> <<>>,
          scan |-> Nil, unreadable |-> 0]
LiveCursors == {k \in Calls : cursors[k] # Nil}

SearchInit ==
  /\ call = [k \in Calls |-> Idle]
  /\ cursors = [k \in Calls |-> Nil]
  /\ version = [f \in Files |-> 1]
  /\ listing = Present
  /\ expired = {}
  /\ reported = [k \in Calls |-> <<>>]
  /\ ended = [k \in Calls |-> "open"]
  /\ changed = [k \in Calls |-> {}]
  /\ denials = 0

-----------------------------------------------------------------------------
(* Admission.  Expired cursors go first; a cursor that is resumed is taken *)
(* out of the map in the same step.                                        *)

Pruned == [k \in Calls |->
             IF cursors[k] # Nil /\ cursors[k].chain \in expired THEN Nil ELSE cursors[k]]

Ready(k) ==
  /\ call[k].at = "idle"
  /\ Cardinality({j \in Calls : call[j].at = "walking"}) < MaxAtOnce

Start(k) ==
  /\ Ready(k)
  /\ Cardinality({j \in Calls : Pruned[j] # Nil}) < MaxCursors
  /\ cursors' = Pruned
  /\ call' = [call EXCEPT ![k] = [Idle EXCEPT !.at = "walking", !.chain = k, !.state = Fresh]]
  /\ UNCHANGED <<version, listing, expired, reported, ended, changed, denials>>

(* Mutant: the cursor is read and stays in the map.                       *)
ResumeCopy(k, j) ==
  /\ Ready(k) /\ Pruned[j] # Nil
  /\ cursors' = Pruned
  /\ call' = [call EXCEPT ![k] =
       [Idle EXCEPT !.at = "walking", !.chain = cursors[j].chain, !.state = cursors[j].state]]
  /\ UNCHANGED <<version, listing, expired, reported, ended, changed, denials>>

Resume(k, j) ==
  /\ Ready(k) /\ Pruned[j] # Nil
  /\ cursors' = [Pruned EXCEPT ![j] = Nil]
  /\ call' = [call EXCEPT ![k] =
       [Idle EXCEPT !.at = "walking", !.chain = cursors[j].chain, !.state = cursors[j].state]]
  /\ UNCHANGED <<version, listing, expired, reported, ended, changed, denials>>

-----------------------------------------------------------------------------
(* One turn of the page's loop.                                            *)

Working(k) == call[k].at = "walking" /\ Len(call[k].page) < MaxResults
Reading(k) == Working(k) /\ call[k].state.pending = <<>> /\ call[k].work < MaxWork

Hit(f, l, v) == [file |-> f, line |-> l, version |-> v]

(* The n-th number of a set.                                               *)
Nth(S, n) == CHOOSE l \in S : Cardinality({j \in S : j < l}) = n - 1

(* Matching lines of a file from a line on, until the queue is full; where *)
(* to go on is kept with the version that was read.                        *)
QueueLines(st, f, start) ==
  LET v == version[f]
      hits == {i \in Match[f][v] : i >= start}
      full == {i \in hits : Cardinality({j \in hits : j <= i}) = MaxPending}
      last == IF full = {} THEN Lines[f][v] ELSE CHOOSE i \in full : TRUE
      taken == {i \in hits : i <= last}
  IN [st EXCEPT !.pending = [n \in 1..Cardinality(taken) |-> Hit(f, Nth(taken, n), v)],
                !.scan = IF last < Lines[f][v]
                         THEN [file |-> f, next |-> last + 1, version |-> v] ELSE Nil]

(* A queued match goes into the page.                                      *)
Emit(k) ==
  /\ Working(k) /\ call[k].state.pending # <<>>
  /\ call' = [call EXCEPT ![k].page = Append(@, Head(call[k].state.pending)),
                          ![k].state.pending = Tail(@)]
  /\ UNCHANGED <<cursors, version, listing, expired, reported, ended, changed, denials>>

(* The next step of the state, which costs work.                           *)
Advance(k, st) ==
  call' = [call EXCEPT ![k].state = st, ![k].work = @ + 1]

(* Mutant: the rest of a file is taken from whatever version is there.    *)
RescanAnyVersion(k) ==
  LET st == call[k].state IN
  /\ Reading(k) /\ st.scan # Nil
  /\ Advance(k, QueueLines(st, st.scan.file, st.scan.next))
  /\ UNCHANGED <<cursors, version, listing, expired, reported, ended, changed, denials>>

(* A path exists as long as each name on it is in its directory.            *)
Exists(p) == \A i \in DOMAIN p : p[i] \in listing[SubSeq(p, 1, i - 1)]

(* A file that was read in part is read again; if it changed, the rest of  *)
(* it is given up and counted.                                             *)
Rescan(k) ==
  LET st == call[k].state
      scan == st.scan
  IN
  /\ Reading(k) /\ scan # Nil /\ Exists(scan.file)
  /\ Advance(k, IF version[scan.file] = scan.version
                THEN QueueLines(st, scan.file, scan.next)
                ELSE [st EXCEPT !.scan = Nil, !.unreadable = @ + 1])
  /\ UNCHANGED <<cursors, version, listing, expired, reported, ended, changed, denials>>

(* The directory on top of the stack, its listing as this page read it, and *)
(* the entry there that is next.                                            *)
Top(st) == st.stack[Len(st.stack)]
Seeing(k) == Reading(k) /\ call[k].state.scan = Nil /\ call[k].state.stack # <<>>
Listed(k) == Top(call[k].state).dir \in DOMAIN call[k].seen
Entries(k) == call[k].seen[Top(call[k].state).dir]
Exhausted(k) == Top(call[k].state).offset > Cardinality(Entries(k))
Entry(k) == Append(Top(call[k].state).dir, Nth(Entries(k), Top(call[k].state).offset))
Past(st) == [st EXCEPT !.stack[Len(st.stack)].offset = @ + 1]
Popped(st) == [st EXCEPT !.stack = SubSeq(@, 1, Len(@) - 1)]

(* The directory is listed, which may drop other listings of this page.    *)
List(k) ==
  LET d == Top(call[k].state).dir
      seen == call[k].seen
  IN
  /\ Seeing(k) /\ ~Listed(k) /\ Exists(d)
  /\ \E kept \in SUBSET DOMAIN seen :
       call' = [call EXCEPT ![k].seen =
                  [e \in kept \cup {d} |-> IF e = d THEN listing[d] ELSE seen[e]]]
  /\ UNCHANGED <<cursors, version, listing, expired, reported, ended, changed, denials>>

(* The next entry: a file is read, a directory goes on the stack.          *)
Walk(k) ==
  LET st == call[k].state IN
  /\ Seeing(k) /\ Listed(k)
  /\ IF Exhausted(k)
     THEN call' = [call EXCEPT ![k].state = Popped(st)]
     ELSE /\ Entry(k) \in Files => Exists(Entry(k))
          /\ Advance(k,
               IF Entry(k) \in Files THEN QueueLines(Past(st), Entry(k), 1)
               ELSE IF Entry(k) \in Dirs /\ Len(st.stack) <= MaxDepth
               THEN [Past(st) EXCEPT !.stack = Append(@, [dir |-> Entry(k), offset |-> 1])]
               ELSE Past(st))
  /\ UNCHANGED <<cursors, version, listing, expired, reported, ended, changed, denials>>

(* The backend denies the read of the file or the directory, because it is *)
(* no longer there or for another reason: it is skipped and counted.       *)
Denied(k) ==
  LET st == call[k].state
      target == IF st.scan # Nil THEN st.scan.file
                ELSE IF Listed(k) THEN Entry(k) ELSE Top(st).dir
      skipped == IF st.scan # Nil THEN [st EXCEPT !.scan = Nil]
                 ELSE IF Listed(k) THEN Past(st) ELSE Popped(st)
  IN
  /\ Reading(k)
  /\ \/ st.scan # Nil
     \/ Seeing(k) /\ (Listed(k) => ~Exhausted(k) /\ Entry(k) \in Files)
  /\ \/ ~Exists(target) /\ UNCHANGED denials
     \/ denials < MaxDenials /\ denials' = denials + 1
  /\ Advance(k, [skipped EXCEPT !.unreadable = @ + 1])
  /\ UNCHANGED <<cursors, version, listing, expired, reported, ended, changed>>

-----------------------------------------------------------------------------
(* The end of a page.                                                      *)

Over(k) ==
  LET st == call[k].state IN
  \/ Len(call[k].page) = MaxResults
  \/ st.pending = <<>> /\ (call[k].work >= MaxWork \/ (st.scan = Nil /\ st.stack = <<>>))

Truncated(st) == st.pending # <<>> \/ st.stack # <<>> \/ st.scan # Nil

Lost(k) == ended' = [ended EXCEPT ![call[k].chain] = "lost"]

(* A truncated page needs room for a cursor and a chain that has not       *)
(* expired; without either the whole page is refused, and its cursor is    *)
(* spent.                                                                  *)
EndPage(k) ==
  LET st == call[k].state
      chain == call[k].chain
      refused == Truncated(st) /\ (Cardinality(LiveCursors) >= MaxCursors \/ chain \in expired)
  IN
  /\ call[k].at = "walking" /\ Over(k)
  /\ IF refused THEN Lost(k) /\ UNCHANGED <<cursors, reported>>
     ELSE /\ reported' = [reported EXCEPT ![chain] = @ \o call[k].page]
          /\ IF Truncated(st)
             THEN cursors' = [cursors EXCEPT ![k] = [chain |-> chain, state |-> st]]
                  /\ UNCHANGED ended
             ELSE ended' = [ended EXCEPT ![chain] =
                              IF st.unreadable = 0 THEN "complete" ELSE "partial"]
                  /\ UNCHANGED cursors
  /\ call' = [call EXCEPT ![k] = [Idle EXCEPT !.at = "done"]]
  /\ UNCHANGED <<version, listing, expired, changed, denials>>

(* Any other failure refuses the page.                                     *)
Fail(k) ==
  /\ call[k].at = "walking" /\ denials < MaxDenials /\ denials' = denials + 1
  /\ Lost(k)
  /\ call' = [call EXCEPT ![k] = [Idle EXCEPT !.at = "done"]]
  /\ UNCHANGED <<cursors, version, listing, expired, reported, changed>>

-----------------------------------------------------------------------------

(* The minute of a chain counts from its first page.                       *)
ExpireChain(k) ==
  /\ k \notin expired /\ call[k].at # "idle" /\ ended[k] = "open"
  /\ expired' = expired \cup {k}
  /\ UNCHANGED <<call, cursors, version, listing, reported, ended, changed, denials>>

Edit(f) ==
  /\ Cardinality({g \in Files : version[g] # 1}) < MaxEdits
  /\ version' = [version EXCEPT ![f] = 2]
  /\ UNCHANGED <<call, cursors, listing, expired, reported, ended, changed, denials>>

(* Another program creates or removes an entry of a directory; to rename   *)
(* one is both.                                                            *)
Change(d) ==
  /\ Cardinality({e \in Dirs : listing[e] # Present[e]}) < MaxChanges
  /\ \E n \in Names[d] : listing' = [listing EXCEPT ![d] = IF n \in @ THEN @ \ {n} ELSE @ \cup {n}]
  /\ changed' = [c \in Calls |-> IF call[c].at = "idle" THEN changed[c] ELSE changed[c] \cup {d}]
  /\ UNCHANGED <<call, cursors, version, expired, reported, ended, denials>>

SearchNext ==
  \/ \E k \in Calls : \/ Start(k) \/ (\E j \in Calls : Resume(k, j))
                      \/ Emit(k) \/ Rescan(k) \/ List(k) \/ Walk(k) \/ Denied(k)
                      \/ EndPage(k) \/ Fail(k) \/ ExpireChain(k)
  \/ (\E f \in Files : Edit(f)) \/ (\E d \in Dirs : Change(d))

SearchSpec == SearchInit /\ [][SearchNext]_searchVars

-----------------------------------------------------------------------------

(* The state of a chain is in one place: under one cursor or in one call,  *)
(* however many calls present the cursor at once, and the map stays within *)
(* its bound although it is checked before the awaits and written after.   *)
CursorsAreSpentOnce ==
  /\ Cardinality(LiveCursors) <= MaxCursors
  /\ \A c \in Calls :
       Cardinality({k \in Calls : cursors[k] # Nil /\ cursors[k].chain = c})
         + Cardinality({k \in Calls : call[k].at = "walking" /\ call[k].chain = c}) <= 1

(* Of a file, these are the matches of one version before a line, each     *)
(* once and in order.                                                      *)
Holds(matches, f, v, line) ==
  /\ \A l \in Match[f][v] : l < line => \E i \in DOMAIN matches : matches[i] = Hit(f, l, v)
  /\ \A i \in DOMAIN matches : matches[i].file = f =>
       \E l \in Match[f][v] : l < line /\ matches[i] = Hit(f, l, v)
  /\ \A i, j \in DOMAIN matches :
       matches[i].file = f /\ matches[j].file = f /\ i < j => matches[i].line < matches[j].line

(* The files in reach whose directories had one listing all the time.      *)
Steady(c) == {f \in Files : /\ Len(f) <= MaxDepth + 1
                            /\ \A i \in DOMAIN f : SubSeq(f, 1, i - 1) \notin changed[c]}

(* A search that ends without saying it is incomplete has returned, over   *)
(* all its pages, every matching line of such a file exactly once, and the *)
(* lines of a file from one version of it, whatever changed in other       *)
(* directories, and nothing of a file that is not there.                   *)
CompleteSearchIsExact ==
  \A c \in Calls : ended[c] = "complete" =>
    \A f \in Steady(c) :
      IF Exists(f) THEN \E v \in Versions : Holds(reported[c], f, v, Lines[f][v] + 1)
      ELSE \A i \in DOMAIN reported[c] : reported[c][i].file # f

=============================================================================
