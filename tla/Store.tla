--------------------------------- MODULE Store ---------------------------------
(***************************************************************************)
(* The files of one session and the copies its processes keep of them:     *)
(* SessionStore of parzi-core (store/mod.rs, store/cache.rs). The desktop, *)
(* the daemon and the command line each have a store of their own over the *)
(* same directory, and many threads call each of them.                     *)
(*                                                                         *)
(* events.jsonl only ever grows, by appends; the store remembers the       *)
(* events of the part it has read. meta.json is replaced as a whole; the   *)
(* store remembers it with the time its directory was last changed.        *)
(*                                                                         *)
(* A line of an event is two cells and a newline, enough to tell a line    *)
(* that was cut short. The clock is as coarse as that of the file system:  *)
(* what happens between two ticks has one time.                            *)
(***************************************************************************)
EXTENDS Naturals, Sequences, FiniteSets

CONSTANTS
  Process,     \* each with a store of its own
  Call,        \* calls of the stores, made by any threads
  None,        \* no value
  Tries,       \* reads of new events before the lock is kept (3 in the code)
  Mixes,       \* bound: how many calls of each kind there may be in one history
  MaxClock,    \* bound: ticks of the clock
  MaxFailures  \* bound: crashes and writes that fail

Kind == {"append", "read", "edit", "list"}

ASSUME StoreAssumption ==
  Mixes \subseteq [Kind -> Nat] /\ Tries \in Nat \ {0} /\ MaxClock \in Nat \ {0} /\ MaxFailures \in Nat

ASSUME NoneAssumption == None \notin Call

VARIABLES
  file,     \* events.jsonl: cells and newlines
  disk,     \* meta.json
  changed,  \* the time of the directory
  writing,  \* the append in the middle of its write
  cache,    \* per process: what is known of events.jsonl, and when it last grew
  index,    \* per process: what is known of meta.json
  writes,   \* per process: how often it wrote meta.json (meta_writes)
  lock,     \* per process: the edit that holds META_WRITE
  now,      \* the clock
  at,       \* where a call stands
  does,     \* what it does
  on,       \* the process it runs in
  local,    \* its local variables, then its result
  before,   \* history: the calls that had returned when it was made
  glued,    \* history: appends that found a whole line, which was then cut short
  grew,     \* history: per process, when an append last returned
  failures

vars == <<file, disk, changed, writing, cache, index, writes, lock, now, at, does, on,
          local, before, glued, grew, failures>>

files == <<file, disk, changed, writing>>
stores == <<cache, index, writes, lock>>
clock == <<now, failures>>
past == <<before, glued, grew>>

\* An event is called after the append that wrote it; None was there before.
Event == Call \cup {None}

NL == <<>>
Line(e) == <<<<e, 1>>, <<e, 2>>, NL>>

\* The length of what ends with the last newline (rposition).
Cut(bytes) ==
  CHOOSE k \in 0..Len(bytes) :
    /\ k = 0 \/ bytes[k] = NL
    /\ \A j \in (k + 1)..Len(bytes) : bytes[j] # NL

\* parse_lines: the newline at k ends a line that can be read. Other lines are skipped.
EndsEvent(bytes, k) ==
  /\ k > 2 /\ bytes[k] = NL
  /\ \E e \in Event : bytes[k - 2] = <<e, 1>> /\ bytes[k - 1] = <<e, 2>>
  /\ k = 3 \/ bytes[k - 3] = NL

\* The events of the lines that end after skip.
Events(bytes, skip) ==
  LET upTo[k \in 0..Len(bytes)] ==
        IF k = 0 THEN <<>>
        ELSE IF k > skip /\ EndsEvent(bytes, k) THEN Append(upTo[k - 1], bytes[k - 1][1])
        ELSE upTo[k - 1]
  IN  upTo[Len(bytes)]

\* An entry of the cache. One that was never made or was evicted is as good as empty.
Unread == [len |-> 0, events |-> <<>>, pending |-> 0]

Blank == [len |-> 0, upto |-> 0, lead |-> FALSE, try |-> 0, time |-> 0, writes |-> 0,
          meta |-> None, got |-> <<>>]

Meta == [edits : SUBSET Call, updated : Nat, version : Nat]

TypeOK ==
  /\ file \in Seq((Event \X {1, 2}) \cup {NL})
  /\ disk \in Meta /\ changed \in Nat /\ writing \in Call \cup {None}
  /\ cache \in [Process -> [len : Nat, events : Seq(Event), pending : Nat]]
  /\ index \in [Process -> [time : Nat, meta : Meta] \cup {None}]
  /\ writes \in [Process -> Nat] /\ lock \in [Process -> Call \cup {None}]
  /\ now \in Nat /\ failures \in Nat
  /\ at \in [Call -> {"unused", "looks", "writes", "writing", "remembers",
                      "stats", "takes", "reads", "merges", "last", "holds",
                      "saves", "settles", "scans", "fetches", "keeps", "overlays",
                      "done", "failed", "dead"}]
  /\ does \in [Call -> Kind \cup {None}]
  /\ on \in [Call -> Process \cup {None}]
  /\ local \in [Call -> [len : Nat, upto : Nat, lead : BOOLEAN, try : Nat, time : Nat,
                         writes : Nat, meta : Meta \cup {None}, got : Seq(Event)]]
  /\ before \in [Call -> SUBSET Call] /\ glued \subseteq Call /\ grew \in [Process -> Nat]

\* A session with a meta.json and one event, that no store has read yet.
Init ==
  /\ file = Line(None)
  /\ disk = [edits |-> {}, updated |-> 1, version |-> 0]
  /\ changed = 1 /\ writing = None
  /\ cache = [p \in Process |-> Unread]
  /\ index = [p \in Process |-> None]
  /\ writes = [p \in Process |-> 0]
  /\ lock = [p \in Process |-> None]
  /\ now = 1 /\ failures = 0
  /\ at = [c \in Call |-> "unused"]
  /\ does = [c \in Call |-> None]
  /\ on = [c \in Call |-> None]
  /\ local = [c \in Call |-> Blank]
  /\ before = [c \in Call |-> {}]
  /\ glued = {} /\ grew = [p \in Process |-> 0]

(***************************************************************************)
(* Calls                                                                   *)
(***************************************************************************)
Made(kind) == Cardinality({c \in Call : does[c] = kind})

Calls(c, p, what, to) ==
  /\ at[c] = "unused"
  /\ \E most \in Mixes :
       /\ Made(what) < most[what]
       /\ \A kind \in Kind : Made(kind) <= most[kind]
  /\ at' = [at EXCEPT ![c] = to]
  /\ does' = [does EXCEPT ![c] = what]
  /\ on' = [on EXCEPT ![c] = p]
  /\ before' = [before EXCEPT ![c] = {d \in Call : at[d] = "done"}]
  /\ UNCHANGED <<glued, grew>>

Goes(c, to, values) ==
  /\ at' = [at EXCEPT ![c] = to]
  /\ local' = [local EXCEPT ![c] = values]
  /\ UNCHANGED <<does, on>>

Latest(x, y) == IF x > y THEN x ELSE y

\* overlay: a session that grew since it was written is as young as that.
Overlay(p, meta) == [meta EXCEPT !.updated = Latest(@, cache[p].pending)]

(***************************************************************************)
(* append                                                                  *)
(***************************************************************************)
\* It opens the file and takes the length its store knows.
AppendOpens(c, p) ==
  /\ Calls(c, p, "append", "looks")
  /\ local' = [local EXCEPT ![c].len = cache[p].len]
  /\ UNCHANGED <<files, stores, clock>>

\* Broken: the line is written at the end of the file, whatever is there.
AppendLooksAway(c) ==
  /\ at[c] = "looks"
  /\ Goes(c, "writes", Blank)
  /\ UNCHANGED <<files, stores, clock, past>>

\* Unless the store has read the whole file, it looks for a line that was cut short.
AppendLooks(c) ==
  /\ at[c] = "looks"
  /\ LET size == Len(file)
     IN  Goes(c, "writes", [Blank EXCEPT !.lead = /\ size > 0
                                                  /\ local[c].len # size
                                                  /\ file[size] # NL])
  /\ UNCHANGED <<files, stores, clock, past>>

Bytes(c) == IF local[c].lead THEN <<NL>> \o Line(c) ELSE Line(c)

\* The file system lets one write at a time into a file, readers whenever they like.
WriteStarts(c, part) ==
  /\ at[c] = "writes" /\ writing = None
  /\ writing' = c
  /\ file' = file \o SubSeq(Bytes(c), 1, part)
  /\ Goes(c, "writing", [local[c] EXCEPT !.len = part])
  /\ UNCHANGED <<disk, changed, stores, clock, past>>

WriteEnds(c) ==
  /\ at[c] = "writing"
  /\ writing' = None
  /\ file' = file \o SubSeq(Bytes(c), local[c].len + 1, Len(Bytes(c)))
  /\ Goes(c, "remembers", [local[c] EXCEPT !.len = Len(file')])
  /\ UNCHANGED <<disk, changed, stores, clock, past>>

\* Appends that have looked will not put a newline before their line.
CutShort == glued' = glued \cup {d \in Call : at[d] = "writes"}

\* The disk is full: append returns the error, and what it wrote stays.
WriteFails(c) ==
  /\ at[c] = "writing" /\ failures < MaxFailures
  /\ writing' = None
  /\ CutShort
  /\ Goes(c, "failed", Blank)
  /\ failures' = failures + 1
  /\ UNCHANGED <<file, disk, changed, stores, now, before, grew>>

\* The store takes the event over if its line follows what the store has read.
AppendRemembers(c) ==
  LET p == on[c]
      old == cache[p]
      follows == old.len + Len(Bytes(c)) = local[c].len
      events == IF follows THEN Append(old.events, c) ELSE old.events
      len == IF follows THEN local[c].len ELSE old.len
  IN  /\ at[c] = "remembers"
      /\ cache' = [cache EXCEPT ![p] = [len |-> len, events |-> events, pending |-> now]]
      /\ Goes(c, "done", Blank)
      /\ grew' = [grew EXCEPT ![p] = now]
      /\ UNCHANGED <<files, index, writes, lock, clock, before, glued>>

(***************************************************************************)
(* with_events: the session's events, from the cache or the file           *)
(***************************************************************************)
ReadCalls(c, p) ==
  /\ Calls(c, p, "read", "stats")
  /\ UNCHANGED <<files, stores, clock, local>>

ReadStats(c) ==
  /\ at[c] \in {"stats", "last"}
  /\ Goes(c, IF at[c] = "stats" THEN "takes" ELSE "holds", [local[c] EXCEPT !.len = Len(file)])
  /\ UNCHANGED <<files, stores, clock, past>>

\* A file shorter than what was read of it is another one.
Known(p, len) ==
  IF len < cache[p].len THEN [Unread EXCEPT !.pending = cache[p].pending] ELSE cache[p]

Answers(c, events) == Goes(c, "done", [Blank EXCEPT !.got = events])

\* All was read before; or it notes from where it has to read.
ReadTakes(c) ==
  LET p == on[c]
      entry == Known(p, local[c].len)
  IN  /\ at[c] = "takes"
      /\ cache' = [cache EXCEPT ![p] = entry]
      /\ IF entry.len = local[c].len
         THEN Answers(c, entry.events)
         ELSE Goes(c, "reads", [local[c] EXCEPT !.len = entry.len])
      /\ UNCHANGED <<files, index, writes, lock, clock, past>>

\* The file only grows: what is read is given by where it starts and where it ends.
ReadReads(c) ==
  /\ at[c] = "reads"
  /\ Goes(c, "merges", [local[c] EXCEPT !.upto = Len(file)])
  /\ UNCHANGED <<files, stores, clock, past>>

\* Broken: what others have read meanwhile is taken over again.
LongerAgain(entry, from, bytes, skip) ==
  [entry EXCEPT !.events = @ \o Events(SubSeq(bytes, 1, Cut(bytes)), 0),
                !.len = from + Cut(bytes)]

Longer(entry, from, bytes, skip) ==
  [entry EXCEPT !.events = @ \o Events(SubSeq(bytes, 1, Cut(bytes)), skip),
                !.len = from + Cut(bytes)]

\* Meanwhile others may have read, or the entry may have been evicted.
ReadMerges(c) ==
  LET p == on[c]
      old == cache[p]
      from == local[c].len
      bytes == SubSeq(file, from + 1, local[c].upto)
      skip == old.len - from
      fits == old.len >= from /\ (skip > 0 => bytes[skip] = NL)
  IN  /\ at[c] = "merges"
      /\ \/ /\ old.len > from + Cut(bytes)
            /\ Answers(c, old.events)
            /\ UNCHANGED cache
         \/ /\ old.len <= from + Cut(bytes) /\ fits
            /\ cache' = [cache EXCEPT ![p] = Longer(old, from, bytes, skip)]
            /\ Answers(c, cache'[p].events)
         \/ /\ old.len <= from + Cut(bytes) /\ ~fits
            /\ Goes(c, IF local[c].try + 1 = Tries THEN "last" ELSE "stats",
                    [Blank EXCEPT !.try = local[c].try + 1])
            /\ UNCHANGED cache
      /\ UNCHANGED <<files, index, writes, lock, clock, past>>

\* The last time it keeps the lock of the cache while it reads.
ReadHolds(c) ==
  LET p == on[c]
      entry == Known(p, local[c].len)
  IN  /\ at[c] = "holds"
      /\ cache' = [cache EXCEPT ![p] =
                     Longer(entry, entry.len, SubSeq(file, entry.len + 1, Len(file)), 0)]
      /\ Answers(c, cache'[p].events)
      /\ UNCHANGED <<files, index, writes, lock, clock, past>>

\* Broken: a session that grew since it was written may go.
EvictAny(p) ==
  /\ cache' = [cache EXCEPT ![p] = Unread]
  /\ UNCHANGED <<files, index, writes, lock, clock, at, does, on, local, past>>

\* session_mut of a seventeenth session: one goes that has nothing to write down.
Evict(p) ==
  /\ cache[p].pending = 0
  /\ cache' = [cache EXCEPT ![p] = Unread]
  /\ UNCHANGED <<files, index, writes, lock, clock, at, does, on, local, past>>

(***************************************************************************)
(* update_meta: every change of meta.json                                  *)
(***************************************************************************)
\* Broken: without META_WRITE.
EditReadsAnyhow(c, p, touch) ==
  /\ lock' = lock
  /\ Calls(c, p, "edit", "saves")
  /\ LET meta == Overlay(p, disk)
         updated == IF touch THEN now ELSE meta.updated
     IN  local' = [local EXCEPT ![c].meta =
                     [meta EXCEPT !.edits = @ \cup {c}, !.updated = updated]]
  /\ UNCHANGED <<files, cache, index, writes, clock>>

\* touch: set_status and most others set updated; set_context and flush keep it.
EditReads(c, p, touch) ==
  /\ lock[p] = None
  /\ lock' = [lock EXCEPT ![p] = c]
  /\ Calls(c, p, "edit", "saves")
  /\ LET meta == Overlay(p, disk)
         updated == IF touch THEN now ELSE meta.updated
     IN  local' = [local EXCEPT ![c].meta =
                     [meta EXCEPT !.edits = @ \cup {c}, !.updated = updated]]
  /\ UNCHANGED <<files, cache, index, writes, clock>>

\* atomic_write: the new file takes the name of the old one.
EditSaves(c) ==
  /\ at[c] = "saves"
  /\ disk' = [local[c].meta EXCEPT !.version = disk.version + 1]
  /\ changed' = now
  /\ Goes(c, "settles", [Blank EXCEPT !.meta = disk'])
  /\ UNCHANGED <<file, writing, stores, clock, past>>

EditSettles(c) ==
  LET p == on[c]
      old == cache[p].pending
      pending == IF old <= local[c].meta.updated THEN 0 ELSE old
  IN  /\ at[c] = "settles"
      /\ cache' = [cache EXCEPT ![p].pending = pending]
      /\ index' = [index EXCEPT ![p] = None]
      /\ writes' = [writes EXCEPT ![p] = @ + 1]
      /\ lock' = [lock EXCEPT ![p] = None]
      /\ Goes(c, "done", local[c])
      /\ UNCHANGED <<files, clock, past>>

(***************************************************************************)
(* list: meta.json of the session, from the index or the file              *)
(***************************************************************************)
ListScans(c, p) ==
  /\ Calls(c, p, "list", "scans")
  /\ local' = [local EXCEPT ![c].time = changed]
  /\ UNCHANGED <<files, stores, clock>>

ListLooks(c) ==
  LET p == on[c]
      hit == index[p] # None /\ index[p].time = local[c].time
  IN  /\ at[c] = "scans"
      /\ IF hit THEN Goes(c, "overlays", [Blank EXCEPT !.meta = index[p].meta])
                ELSE Goes(c, "fetches", [local[c] EXCEPT !.writes = writes[p]])
      /\ UNCHANGED <<files, stores, clock, past>>

ListFetches(c) ==
  /\ at[c] = "fetches"
  /\ Goes(c, "keeps", [local[c] EXCEPT !.meta = disk])
  /\ UNCHANGED <<files, stores, clock, past>>

\* Broken: whatever was written meanwhile.
ListKeepsAnyhow(c) ==
  LET p == on[c]
      entry == [time |-> local[c].time, meta |-> local[c].meta]
  IN  /\ at[c] = "keeps"
      /\ index' = [index EXCEPT ![p] = entry]
      /\ Goes(c, "done", [Blank EXCEPT !.meta = Overlay(p, local[c].meta)])
      /\ UNCHANGED <<files, cache, writes, lock, clock, past>>

\* What it read goes into the index if this store wrote nothing meanwhile.
ListKeeps(c) ==
  LET p == on[c]
      entry == [time |-> local[c].time, meta |-> local[c].meta]
  IN  /\ at[c] = "keeps"
      /\ index' = IF writes[p] = local[c].writes THEN [index EXCEPT ![p] = entry] ELSE index
      /\ Goes(c, "done", [Blank EXCEPT !.meta = Overlay(p, local[c].meta)])
      /\ UNCHANGED <<files, cache, writes, lock, clock, past>>

ListOverlays(c) ==
  /\ at[c] = "overlays"
  /\ Goes(c, "done", [Blank EXCEPT !.meta = Overlay(on[c], local[c].meta)])
  /\ UNCHANGED <<files, stores, clock, past>>

(***************************************************************************)
(* The world                                                               *)
(***************************************************************************)
Tick ==
  /\ now < MaxClock
  /\ now' = now + 1
  /\ UNCHANGED <<files, stores, failures, at, does, on, local, past>>

Over == {"unused", "done", "failed", "dead"}

\* A process dies; the next one that opens the store begins with nothing.
Crash(p) ==
  LET lost == {c \in Call : on[c] = p /\ at[c] \notin Over}
  IN  /\ failures < MaxFailures
      /\ lost # {} \/ cache[p] # Unread
      /\ failures' = failures + 1
      /\ at' = [c \in Call |-> IF c \in lost THEN "dead" ELSE at[c]]
      /\ local' = [c \in Call |-> IF c \in lost THEN Blank ELSE local[c]]
      /\ IF writing \in lost THEN writing' = None /\ CutShort ELSE UNCHANGED <<writing, glued>>
      /\ cache' = [cache EXCEPT ![p] = Unread]
      /\ index' = [index EXCEPT ![p] = None]
      /\ writes' = [writes EXCEPT ![p] = 0]
      /\ lock' = [lock EXCEPT ![p] = None]
      /\ grew' = [grew EXCEPT ![p] = 0]
      /\ UNCHANGED <<file, disk, changed, now, does, on, before>>

Next ==
  \/ \E c \in Call, p \in Process :
       \/ AppendOpens(c, p) \/ ReadCalls(c, p) \/ ListScans(c, p)
       \/ \E touch \in BOOLEAN : EditReads(c, p, touch)
  \/ \E c \in Call :
       \/ AppendLooks(c) \/ WriteEnds(c) \/ WriteFails(c) \/ AppendRemembers(c)
       \/ \E part \in 1..(Len(Bytes(c)) - 1) : WriteStarts(c, part)
       \/ ReadStats(c) \/ ReadTakes(c) \/ ReadReads(c) \/ ReadMerges(c) \/ ReadHolds(c)
       \/ EditSaves(c) \/ EditSettles(c)
       \/ ListLooks(c) \/ ListFetches(c) \/ ListKeeps(c) \/ ListOverlays(c)
  \/ \E p \in Process : Evict(p) \/ Crash(p)
  \/ Tick

Spec == Init /\ [][Next]_vars

(***************************************************************************)
(* Properties                                                              *)
(***************************************************************************)
Acknowledged(c) == does[c] = "append" /\ at[c] = "done"

\* What a store remembers of events.jsonl is what reading that much of it again would
\* give, and ends where a line ends: with appends of two processes, reads that overlap
\* them, evictions and lines cut short, no event is taken twice or passed over
\* (with_events, append).
CacheIsTheFile ==
  \A p \in Process :
    LET known == SubSeq(file, 1, cache[p].len)
    IN  Cut(known) = Len(known) /\ cache[p].events = Events(known, 0)

\* A read of the events has every event whose append had returned before the read began,
\* whichever process made it, once and in the order of the file. One kind is lost: an
\* append that had looked at the end of the file when another's write was cut short there
\* (with_events, append; store_io.rs tests the two processes one after the other).
ReadsAreWhole ==
  \A c \in Call : does[c] = "read" /\ at[c] = "done" =>
    /\ \E n \in 0..Len(file) : local[c].got = Events(SubSeq(file, 1, n), 0)
    /\ \A d \in before[c] \ glued : Acknowledged(d) =>
         Cardinality({i \in DOMAIN local[c].got : local[c].got[i] = d}) = 1

Ran(c) == at[c] # "unused"
Overlap(c, d) == c \notin before[d] /\ d \notin before[c]
Rivals(c, d) ==
  /\ does[c] = "edit" /\ does[d] = "edit" /\ Ran(c) /\ Ran(d)
  /\ on[c] # on[d] /\ Overlap(c, d)

\* A change of meta.json that was made stays made, however the threads of a process
\* overlap; META_WRITE is a lock within the process, so only a change that another process
\* makes at the same time can undo it (update_meta).
EditsAreKept ==
  \A c \in Call : does[c] = "edit" /\ at[c] = "done" =>
    c \in disk.edits \/ \E d \in Call : Rivals(c, d)

\* The time of a session's last event is written down or still remembered, unless the
\* process died or two processes changed meta.json at once: no eviction, and no change
\* that read meta.json before the event, drops it (append, write_meta, evict_one).
ActivityIsKept ==
  \A p \in Process :
    \/ grew[p] <= Latest(disk.updated, cache[p].pending)
    \/ \E c, d \in Call : Rivals(c, d)

\* The list of a store is never behind its own changes: a list made after a change of the
\* same process returned shows that change or a later one, though the times of the
\* directory cannot tell two changes within a tick apart (list, write_meta).
ListSeesOwnEdits ==
  \A c, d \in Call :
    (/\ does[c] = "list" /\ at[c] = "done"
     /\ does[d] = "edit" /\ d \in before[c] /\ on[d] = on[c])
      => local[d].meta.version <= local[c].meta.version
=================================================================================
