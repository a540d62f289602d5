---------------------------- MODULE CommandsProofs ----------------------------
(***************************************************************************)
(* Proofs about Commands, for any number of processes, commands, edits,    *)
(* kills and aborts.                                                       *)
(***************************************************************************)
EXTENDS Commands, SequenceTheorems, TLAPS

ModelNames == {cfg.models[role] : cfg \in Configs, role \in Roles}

\* Versions of the config's own data set.
Declared == {cfg.version : cfg \in Configs}

Requests ==
    [label : Labels, model : ModelNames, judge : ModelNames, items : Contents, k : Nat \ {0},
     prompt : {one.prompt : one \in Builds}, version : Declared \cup Nat, path : Paths]

Manifest == [of : Requests, completed : BOOLEAN, rubric : {one.rubric : one \in Builds}]

\* Items of some data set, with a replicate.
Keys == (UNION {DOMAIN c : c \in Contents}) \X (Nat \ {0})

Process ==
    [pc : {"getting", "measuring"}, n : Nat, cmd : Invocable, build : Builds,
     certificate : BOOLEAN, asked : Seq(Requests), got : Seq(Nat \X Requests),
     opened : Manifest \cup {None}, pending : SUBSET Keys]

KeysIn(rows) == {row.key : row \in rows}

(***************************************************************************)
(* The inductive invariant.  Types: memory and disk have the shape of what *)
(* the code keeps there.                                                   *)
(***************************************************************************)
Types ==
    /\ certificate \in BOOLEAN /\ creds \in BOOLEAN
    /\ config \in Configs /\ files \in [Paths -> Contents] /\ build \in Builds
    /\ keys \in KeySets
    /\ proc \in [Procs -> Process \cup {Idle}]
    /\ fate \in Seq([cmd : Invocable, what : Outcomes])
    /\ \A place \in DOMAIN store :
          /\ place \in Nat \X Requests
          /\ store[place] = [manifest |-> store[place].manifest, rows |-> store[place].rows]
          /\ store[place].manifest \in Manifest
    /\ budget \in [edit : 0 .. MaxEdits, fault : 0 .. MaxFaults]

\* A process has a number of its own, and a root that is not shared is its gate's.
Numbered ==
    /\ \A p \in Running :
          /\ proc[p].n \in DOMAIN fate
          /\ fate[proc[p].n] = [cmd |-> proc[p].cmd, what |-> "running"]
          /\ \A q \in Running : proc[p].n = proc[q].n => p = q
    /\ \A place \in DOMAIN store :
          place[1] # 0 => place[1] \in DOMAIN fate /\ Gates(fate[place[1]].cmd)

\* A process works through the requests of its command in their order.
Orderly ==
    \A p \in Running :
        /\ \A i \in DOMAIN proc[p].asked :
              proc[p].asked[i].version \in Declared <=> proc[p].cmd.path = None
        /\ Len(proc[p].got) <= Len(proc[p].asked)
        /\ \A i \in DOMAIN proc[p].got :
              proc[p].got[i] = Place(proc[p].asked[i], Root(proc[p].cmd, proc[p].n))
        /\ proc[p].pc = "measuring" => Len(proc[p].got) < Len(proc[p].asked)
        /\ proc[p].pc = "getting" => proc[p].pending = {}
        /\ proc[p].cmd.name = "gate" => proc[p].certificate

\* A directory is of one request, and holds measurements made for that request.
Faithful ==
    \A place \in DOMAIN store :
        LET r == place[2]
        IN  /\ store[place].manifest.of = r
            /\ store[place].manifest.completed => KeysIn(store[place].rows) = KeysOf(r)
            /\ \A row \in store[place].rows :
                  /\ row.key \in KeysOf(r) /\ row.text = r.items[row.key[1]]
                  /\ row.model = r.model /\ row.judge = r.judge /\ row.prompt = r.prompt
                  /\ row.by \in DOMAIN fate
                  /\ place[1] # 0 => row.by = place[1]
                  /\ r.version \in Declared => row.official

\* What a process has, it can rely on; what it measures, it will have.
Relied ==
    \A p \in Running :
        /\ \A i \in DOMAIN proc[p].got :
              /\ proc[p].got[i] \in DOMAIN store
              /\ KeysIn(store[proc[p].got[i]].rows) = KeysOf(proc[p].got[i][2])
        /\ proc[p].pc = "measuring" =>
              /\ Here(p) \in DOMAIN store
              /\ proc[p].opened \in Manifest /\ proc[p].opened.of = Current(p)
              /\ proc[p].pending \subseteq KeysOf(Current(p))
              /\ KeysOf(Current(p)) \subseteq proc[p].pending \cup KeysIn(store[Here(p)].rows)

\* The root of a gate that runs has been written by that gate's build.
Fresh ==
    \A p \in Running : Gates(proc[p].cmd) =>
        /\ proc[p].pc = "measuring" => proc[p].opened.rubric = proc[p].build.rubric
        /\ \A place \in DOMAIN store : place[1] = proc[p].n =>
              /\ store[place].manifest.rubric = proc[p].build.rubric
              /\ \A row \in store[place].rows : row.rubric = proc[p].build.rubric

\* A directory that was never shared is measured by the one process that has it open.
Once ==
    /\ overlapped \subseteq DOMAIN store
    /\ \A place \in overlapped : place[1] = 0
    /\ \A place \in DOMAIN store \ overlapped :
          /\ \A q, r \in store[place].rows : q.key = r.key => q = r
          /\ \A p \in Procs : HasOpen(p, place) =>
                /\ proc[p].pending \cap KeysIn(store[place].rows) = {}
                /\ \A q \in Procs : HasOpen(q, place) => p = q

\* A result is of what was asked, afresh where it has to be, and not of development
\* data.
Reported == ResultIsOfWhatWasAsked /\ GateMeasuresAfresh /\ DevNumbersStayDev

IInv ==
    /\ Types /\ Numbered /\ Orderly /\ Faithful /\ Relied /\ Fresh /\ Once
    /\ Reported /\ RefusalsCostNothing

-----------------------------------------------------------------------------
LEMMA RunningTypes ==
    ASSUME Types, NEW p \in Procs, proc[p] # Idle
    PROVE  p \in Running /\ proc[p] \in Process
  BY DEF Types, Running

LEMMA RequestTypes ==
    ASSUME Types, NEW cmd \in Invocable, NEW label \in Labels
    PROVE  /\ Request(cmd, label) \in Requests
           /\ Request(cmd, label).version \in Declared <=> cmd.path = None
  <1> DEFINE path == IF cmd.path = None THEN Golden ELSE cmd.path
  <1>1. /\ config \in Configs /\ label \in Roles /\ "judge" \in Roles
        /\ path \in Paths /\ files[path] \in Contents /\ build \in Builds
    BY CommandsAssumption DEF Types, Roles, Paths
  <1>2. config.models[label] \in ModelNames /\ config.models["judge"] \in ModelNames
        /\ build.prompt \in {one.prompt : one \in Builds}
    BY <1>1 DEF ModelNames
  <1>3. Replicates(cmd) \in Nat \ {0}
    <2>1. config.k \in Nat \ {0} /\ config.kBaseline \in Nat \ {0}
      BY <1>1, CommandsAssumption
    <2>2. QED
      BY <2>1 DEF Replicates
  <1>4. /\ DatasetVersion(cmd, path) \in Declared \cup Nat
        /\ DatasetVersion(cmd, path) \in Declared <=> cmd.path = None
    BY <1>1, CommandsAssumption DEF DatasetVersion, Declared
  <1>5. Request(cmd, label) =
           [label |-> label, model |-> config.models[label], judge |-> config.models["judge"],
            items |-> files[path], k |-> Replicates(cmd), prompt |-> build.prompt,
            version |-> DatasetVersion(cmd, path), path |-> path]
    BY DEF Request
  <1> HIDE DEF path
  <1>6. QED
    BY <1>1, <1>2, <1>3, <1>4, <1>5 DEF Requests

LEMMA StartedTypes ==
    ASSUME Types, NEW cmd \in Invocable, NEW n \in Nat
    PROVE  /\ Started(cmd, n) \in Process
           /\ Started(cmd, n) # Idle
           /\ Started(cmd, n).pc = "getting" /\ Started(cmd, n).n = n
           /\ Started(cmd, n).cmd = cmd /\ Started(cmd, n).build = build
           /\ Started(cmd, n).certificate = certificate
           /\ Started(cmd, n).got = <<>> /\ Started(cmd, n).pending = {}
           /\ \A i \in DOMAIN Started(cmd, n).asked :
                 Started(cmd, n).asked[i].version \in Declared <=> cmd.path = None
  <1> DEFINE asked == [i \in DOMAIN cmd.labels |-> Request(cmd, cmd.labels[i])]
  <1>1. cmd.labels \in Seq(Labels)
    BY CommandsAssumption
  <1>2. asked \in Seq(Requests)
    <2>1. Len(cmd.labels) \in Nat /\ DOMAIN cmd.labels = 1 .. Len(cmd.labels)
      BY <1>1
    <2>2. \A i \in 1 .. Len(cmd.labels) : asked[i] \in Requests
      BY <1>1, <2>1, RequestTypes
    <2>3. asked \in [1 .. Len(cmd.labels) -> Requests]
      BY <2>1, <2>2
    <2> HIDE DEF asked
    <2>4. QED
      BY <2>1, <2>3
  <1>3. \A i \in DOMAIN asked : asked[i].version \in Declared <=> cmd.path = None
    BY <1>1, RequestTypes
  <1>4. Started(cmd, n) =
           [pc |-> "getting", n |-> n, cmd |-> cmd, build |-> build, certificate |-> certificate,
            asked |-> asked, got |-> <<>>, opened |-> None, pending |-> {}]
    BY DEF Started
  <1> HIDE DEF asked
  <1>5. Started(cmd, n) \in Process
    BY <1>2, <1>4 DEF Process, Types
  <1>6. QED
    BY <1>3, <1>4, <1>5 DEF Idle

LEMMA CurrentTypes ==
    ASSUME Types, NEW p \in Running, Len(proc[p].got) < Len(proc[p].asked)
    PROVE  /\ Current(p) \in Requests
           /\ Len(proc[p].got) + 1 \in DOMAIN proc[p].asked
           /\ Here(p) = <<Root(proc[p].cmd, proc[p].n), Current(p)>>
           /\ Here(p) \in Nat \X Requests
           /\ Here(p)[1] = Root(proc[p].cmd, proc[p].n)
           /\ Here(p)[2] = Current(p)
           /\ KeysOf(Current(p)) \subseteq Keys
  <1>1. proc[p] \in Process
    BY RunningTypes DEF Running
  <1>2. Len(proc[p].got) + 1 \in DOMAIN proc[p].asked
    BY <1>1 DEF Process
  <1>3. Current(p) \in Requests
    BY <1>1, <1>2 DEF Current, Process
  <1>4. Root(proc[p].cmd, proc[p].n) \in Nat
    BY <1>1 DEF Root, Process
  <1>5. Here(p) = <<Root(proc[p].cmd, proc[p].n), Current(p)>>
    BY DEF Here, Place, RunId
  <1>6. KeysOf(Current(p)) \subseteq Keys
    BY <1>3 DEF KeysOf, Keys, Requests
  <1>7. QED
    BY <1>2, <1>3, <1>4, <1>5, <1>6

(***************************************************************************)
(* What a step does, in the terms of the invariant.  A process starts; or  *)
(* a command is refused; or a process works on; or it ends.                *)
(***************************************************************************)
Starts(p, cmd) ==
    /\ p \in Procs /\ cmd \in Invocable /\ proc[p] = Idle
    /\ Refusal(cmd) = None
    /\ fate' = Append(fate, [cmd |-> cmd, what |-> "running"])
    /\ proc' = [proc EXCEPT ![p] = Started(cmd, Len(fate) + 1)]
    /\ UNCHANGED <<store, overlapped>>
    /\ report' = None

Noted ==
    /\ \E cmd \in Invocable, what \in Outcomes \ {"running"} :
          fate' = Append(fate, [cmd |-> cmd, what |-> what])
    /\ UNCHANGED <<proc, store, overlapped>>
    /\ report' = None

\* p goes on with the command, the code and the requests it started with.
Works(p) ==
    /\ p \in Running /\ proc[p] \in Process
    /\ \A q \in Procs \ {p} : proc'[q] = proc[q]
    /\ proc'[p] \in Process /\ proc'[p] # Idle
    /\ proc'[p].n = proc[p].n /\ proc'[p].cmd = proc[p].cmd
    /\ proc'[p].build = proc[p].build /\ proc'[p].certificate = proc[p].certificate
    /\ proc'[p].asked = proc[p].asked
    /\ Len(proc[p].got) < Len(proc[p].asked)
    /\ UNCHANGED <<fate, report>>

Reuses(p) ==
    /\ Works(p)
    /\ proc[p].pc = "getting" /\ Reusable(Here(p))
    /\ proc'[p].pc = "getting" /\ proc'[p].got = Append(proc[p].got, Here(p))
    /\ proc'[p].pending = proc[p].pending
    /\ UNCHANGED <<store, overlapped>>

Opens(p) ==
    /\ Works(p)
    /\ proc[p].pc = "getting" /\ ~Reusable(Here(p))
    /\ proc'[p].pc = "measuring" /\ proc'[p].got = proc[p].got
    /\ DOMAIN store' = DOMAIN store \cup {Here(p)}
    /\ \A place \in DOMAIN store : store'[place] = store[place]
    /\ Here(p) \notin DOMAIN store =>
          store'[Here(p)] = [manifest |-> InitialManifest(Current(p), proc[p].build), rows |-> {}]
    /\ proc'[p].opened = store'[Here(p)].manifest
    /\ proc'[p].pending = Missing(Current(p), store'[Here(p)].rows)
    /\ overlapped' = IF \E q \in Procs \ {p} : HasOpen(q, Here(p))
                     THEN overlapped \cup {Here(p)} ELSE overlapped

Measures(p, key) ==
    /\ Works(p)
    /\ proc[p].pc = "measuring" /\ key \in proc[p].pending
    /\ proc'[p].pc = "measuring" /\ proc'[p].got = proc[p].got
    /\ proc'[p].opened = proc[p].opened /\ proc'[p].pending = proc[p].pending \ {key}
    /\ DOMAIN store' = DOMAIN store
    /\ \A place \in DOMAIN store \ {Here(p)} : store'[place] = store[place]
    /\ Here(p) \in DOMAIN store =>
          store'[Here(p)] = [manifest |-> store[Here(p)].manifest,
                             rows     |-> store[Here(p)].rows \cup {RowOf(p, key)}]
    /\ UNCHANGED overlapped

\* The manifest is written, with what it said when the directory was opened.
Writes(p, completed) ==
    /\ DOMAIN store' = DOMAIN store
    /\ \A place \in DOMAIN store \ {Here(p)} : store'[place] = store[place]
    /\ Here(p) \in DOMAIN store =>
          store'[Here(p)] = [manifest |-> [proc[p].opened EXCEPT !.completed = completed],
                             rows     |-> store[Here(p)].rows]

Finishes(p) ==
    /\ Works(p)
    /\ proc[p].pc = "measuring" /\ proc[p].pending = {}
    /\ proc'[p].pc = "getting" /\ proc'[p].got = Append(proc[p].got, Here(p))
    /\ proc'[p].pending = {}
    /\ Writes(p, TRUE)
    /\ UNCHANGED overlapped

Outside == UNCHANGED <<proc, store, fate, report, overlapped>>

LEMMA BeginSteps ==
    ASSUME Types, NEW p \in Procs, NEW cmd \in Invocable, Begin(p, cmd) \/ BadInputs(p, cmd)
    PROVE  Starts(p, cmd) \/ Noted
  <1>1. CASE Begin(p, cmd) /\ Refusal(cmd) = None
    BY <1>1 DEF Begin, Starts, disk
  <1>2. CASE Begin(p, cmd) /\ Refusal(cmd) # None
    <2>1. Refusal(cmd) \in Outcomes \ {"running"}
      BY <1>2 DEF Refusal, Outcomes
    <2>2. fate' = Append(fate, [cmd |-> cmd, what |-> Refusal(cmd)])
      BY <1>2 DEF Begin
    <2>3. QED
      BY <1>2, <2>1, <2>2 DEF Begin, Noted, disk
  <1>3. CASE BadInputs(p, cmd)
    <2>1. "bad inputs" \in Outcomes \ {"running"}
      BY DEF Outcomes
    <2>2. QED
      BY <1>3, <2>1 DEF BadInputs, Noted, disk
  <1>4. QED
    BY <1>1, <1>2, <1>3

LEMMA ReuseSteps ==
    ASSUME Types, NEW p \in Procs, Reuse(p)
    PROVE  Reuses(p)
  <1>1. p \in Running /\ proc[p] \in Process /\ Len(proc[p].got) < Len(proc[p].asked)
    BY RunningTypes DEF Reuse, AtNextRequest
  <1>2. proc'[p] = [proc[p] EXCEPT !.got = Append(proc[p].got, Here(p))]
        /\ \A q \in Procs \ {p} : proc'[q] = proc[q]
    BY DEF Reuse, Types
  <1>3. Append(proc[p].got, Here(p)) \in Seq(Nat \X Requests)
    BY <1>1, CurrentTypes DEF Process
  <1> DEFINE got == Append(proc[p].got, Here(p))
  <1> HIDE DEF got
  <1>4. /\ proc'[p] \in Process /\ proc'[p].pc = proc[p].pc /\ proc'[p].got = got
        /\ proc'[p].n = proc[p].n /\ proc'[p].cmd = proc[p].cmd
        /\ proc'[p].build = proc[p].build /\ proc'[p].certificate = proc[p].certificate
        /\ proc'[p].asked = proc[p].asked /\ proc'[p].pending = proc[p].pending
    <2>1. proc'[p] = [proc[p] EXCEPT !.got = got] /\ got \in Seq(Nat \X Requests)
      BY <1>2, <1>3 DEF got
    <2>2. QED
      BY <1>1, <2>1 DEF Process
  <1>5. proc[p].pc = "getting"
    BY DEF Reuse, AtNextRequest
  <1>6. proc'[p] # Idle
    BY <1>4, <1>5 DEF Idle
  <1>7. QED
    BY <1>1, <1>2, <1>4, <1>5, <1>6 DEF Reuses, Works, Reuse, AtNextRequest, disk, history, got

LEMMA OpenSteps ==
    ASSUME Types, NEW p \in Procs, Open(p)
    PROVE  Opens(p) \/ (End(p, "mismatch", store) /\ UNCHANGED <<report, overlapped>>)
  <1> DEFINE place == Here(p)
             fresh == [manifest |-> InitialManifest(Current(p), proc[p].build), rows |-> {}]
             dir   == IF place \in DOMAIN store THEN store[place] ELSE fresh
  <1>1. p \in Running /\ proc[p] \in Process /\ Len(proc[p].got) < Len(proc[p].asked)
    BY RunningTypes DEF Open, AtNextRequest
  <1>2. CASE ~Compatible(dir.manifest, Current(p))
    BY <1>2 DEF Open
  <1>3. CASE Compatible(dir.manifest, Current(p))
    <2>1. /\ store' = [pl \in DOMAIN store \cup {place} |-> IF pl = place THEN dir ELSE store[pl]]
          /\ proc' = [proc EXCEPT ![p].pc = "measuring", ![p].opened = dir.manifest,
                                  ![p].pending = Missing(Current(p), dir.rows)]
          /\ UNCHANGED fate
      BY <1>3 DEF Open
    <2>2. DOMAIN store' = DOMAIN store \cup {place} /\ store'[place] = dir
          /\ \A pl \in DOMAIN store : store'[pl] = store[pl]
      BY <2>1
    <2>3. Current(p) \in Requests /\ KeysOf(Current(p)) \subseteq Keys
      BY <1>1, CurrentTypes
    <2>4. dir.manifest \in Manifest
      <3>1. CASE place \in DOMAIN store
        BY <3>1 DEF Types
      <3>2. CASE place \notin DOMAIN store
        <4>1. proc[p].build.rubric \in {one.rubric : one \in Builds}
          BY <1>1 DEF Process
        <4>2. InitialManifest(Current(p), proc[p].build) \in Manifest
          BY <2>3, <4>1 DEF InitialManifest, Manifest
        <4>3. QED
          BY <3>2, <4>2
      <3>3. QED
        BY <3>1, <3>2
    <2>5. Missing(Current(p), dir.rows) \subseteq Keys
      BY <2>3 DEF Missing
    <2> HIDE DEF dir
    <2>6. proc'[p] = [proc[p] EXCEPT !.pc = "measuring", !.opened = dir.manifest,
                                     !.pending = Missing(Current(p), dir.rows)]
          /\ \A q \in Procs \ {p} : proc'[q] = proc[q]
      BY <2>1 DEF Types
    <2>7. /\ proc'[p] \in Process /\ proc'[p].pc = "measuring"
          /\ proc'[p].got = proc[p].got
          /\ proc'[p].n = proc[p].n /\ proc'[p].cmd = proc[p].cmd
          /\ proc'[p].build = proc[p].build /\ proc'[p].certificate = proc[p].certificate
          /\ proc'[p].asked = proc[p].asked
          /\ proc'[p].opened = dir.manifest
          /\ proc'[p].pending = Missing(Current(p), dir.rows)
      BY <1>1, <2>4, <2>5, <2>6 DEF Process
    <2>8. proc'[p] # Idle
      BY <2>7 DEF Idle
    <2>9. /\ proc[p].pc = "getting" /\ ~Reusable(place) /\ UNCHANGED report
          /\ overlapped' = IF \E q \in Procs \ {p} : HasOpen(q, place)
                           THEN overlapped \cup {place} ELSE overlapped
      BY <1>3 DEF Open, AtNextRequest, dir
    <2>10. place \notin DOMAIN store => dir = fresh
      BY DEF dir
    <2>11. QED
      BY <1>1, <2>1, <2>2, <2>6, <2>7, <2>8, <2>9, <2>10 DEF Opens, Works
  <1>4. QED
    BY <1>2, <1>3

LEMMA MeasureSteps ==
    ASSUME Types, Orderly, NEW p \in Procs, NEW key, Measure(p, key)
    PROVE  Measures(p, key)
  <1>1. p \in Running /\ proc[p] \in Process /\ key \in proc[p].pending
    BY RunningTypes DEF Measure
  <1>2. proc[p].pc = "measuring" /\ Len(proc[p].got) < Len(proc[p].asked)
    BY <1>1 DEF Orderly, Process
  <1>3. proc'[p] = [proc[p] EXCEPT !.pending = proc[p].pending \ {key}]
        /\ \A q \in Procs \ {p} : proc'[q] = proc[q]
    BY DEF Measure, Types
  <1> DEFINE left == proc[p].pending \ {key}
  <1> HIDE DEF left
  <1>4. /\ proc'[p] \in Process /\ proc'[p].pc = proc[p].pc /\ proc'[p].pending = left
        /\ proc'[p].n = proc[p].n /\ proc'[p].cmd = proc[p].cmd
        /\ proc'[p].build = proc[p].build /\ proc'[p].certificate = proc[p].certificate
        /\ proc'[p].asked = proc[p].asked /\ proc'[p].got = proc[p].got
        /\ proc'[p].opened = proc[p].opened
    <2>1. proc'[p] = [proc[p] EXCEPT !.pending = left] /\ left \subseteq Keys
      BY <1>1, <1>3 DEF left, Process
    <2>2. QED
      BY <1>1, <2>1 DEF Process
  <1>5. proc'[p] # Idle
    BY <1>2, <1>4 DEF Idle
  <1>6. /\ DOMAIN store' = DOMAIN store
        /\ \A place \in DOMAIN store \ {Here(p)} : store'[place] = store[place]
        /\ Here(p) \in DOMAIN store =>
              store'[Here(p)] = [manifest |-> store[Here(p)].manifest,
                                 rows     |-> store[Here(p)].rows \cup {RowOf(p, key)}]
    <2> DEFINE place == Here(p)
               rows == store[place].rows \cup {RowOf(p, key)}
    <2>1. store' = [store EXCEPT ![place] = [store[place] EXCEPT !.rows = rows]]
      BY DEF Measure
    <2>2. place \in DOMAIN store =>
             store[place] = [manifest |-> store[place].manifest, rows |-> store[place].rows]
      BY DEF Types
    <2> HIDE DEF place, rows
    <2>3. place \in DOMAIN store =>
             [store[place] EXCEPT !.rows = rows] = [manifest |-> store[place].manifest, rows |-> rows]
      BY <2>2
    <2>4. QED
      BY <2>1, <2>3 DEF place, rows
  <1>7. QED
    BY <1>1, <1>2, <1>3, <1>4, <1>5, <1>6 DEF Measures, Works, Measure, history, left

LEMMA ClosedWrites ==
    ASSUME Types, NEW p \in Procs, NEW completed \in BOOLEAN, NEW st, st = Closed(p, completed)
    PROVE  /\ DOMAIN st = DOMAIN store
           /\ \A place \in DOMAIN store \ {Here(p)} : st[place] = store[place]
           /\ Here(p) \in DOMAIN store =>
                 st[Here(p)] = [manifest |-> [proc[p].opened EXCEPT !.completed = completed],
                                rows     |-> store[Here(p)].rows]
  <1> DEFINE place == Here(p)
             manifest == [proc[p].opened EXCEPT !.completed = completed]
  <1>1. st = [store EXCEPT ![place] = [store[place] EXCEPT !.manifest = manifest]]
    BY DEF Closed
  <1>2. place \in DOMAIN store =>
           store[place] = [manifest |-> store[place].manifest, rows |-> store[place].rows]
    BY DEF Types
  <1> HIDE DEF place, manifest
  <1>3. place \in DOMAIN store =>
           [store[place] EXCEPT !.manifest = manifest]
              = [manifest |-> manifest, rows |-> store[place].rows]
    BY <1>2
  <1>4. QED
    BY <1>1, <1>3 DEF place, manifest

LEMMA FinishSteps ==
    ASSUME Types, Orderly, NEW p \in Procs, Finish(p)
    PROVE  Finishes(p)
  <1>1. p \in Running /\ proc[p] \in Process /\ proc[p].pc = "measuring" /\ proc[p].pending = {}
    BY RunningTypes DEF Finish
  <1>2. Len(proc[p].got) < Len(proc[p].asked)
    BY <1>1 DEF Orderly
  <1> DEFINE got == Append(proc[p].got, Here(p))
  <1>3. proc'[p] = [proc[p] EXCEPT !.pc = "getting", !.got = got, !.opened = None]
        /\ \A q \in Procs \ {p} : proc'[q] = proc[q]
    BY DEF Finish, Types
  <1>4. got \in Seq(Nat \X Requests)
    BY <1>1, <1>2, CurrentTypes DEF Process
  <1> HIDE DEF got
  <1>5. /\ proc'[p] \in Process /\ proc'[p].pc = "getting" /\ proc'[p].got = got
        /\ proc'[p].n = proc[p].n /\ proc'[p].cmd = proc[p].cmd
        /\ proc'[p].build = proc[p].build /\ proc'[p].certificate = proc[p].certificate
        /\ proc'[p].asked = proc[p].asked /\ proc'[p].pending = proc[p].pending
    BY <1>1, <1>3, <1>4 DEF Process
  <1>6. proc'[p] # Idle
    BY <1>5 DEF Idle
  <1>7. Writes(p, TRUE)
    BY ClosedWrites DEF Finish, Writes
  <1>8. QED
    BY <1>1, <1>2, <1>3, <1>5, <1>6, <1>7 DEF Finishes, Works, Finish, history, got

(***************************************************************************)
(* The end of a process, whatever it is.                                   *)
(***************************************************************************)
Removes(p, what) == Gates(proc[p].cmd) /\ what \in {"done", "failed"} /\ ~proc[p].cmd.keep

FreeRefusal(cmd, what) ==
    \/ what \in {"no tracing", "bad inputs"}
    \/ what = "no certificate" /\ Gates(cmd)
    \/ what = "no key" /\ cmd.name = "update"

Ends(p, what) ==
    /\ p \in Running /\ proc[p] \in Process
    /\ proc' = [proc EXCEPT ![p] = Idle]
    /\ fate' = [fate EXCEPT ![proc[p].n].what = what]
    /\ what \in Outcomes \ {"running"}
    /\ ~FreeRefusal(proc[p].cmd, what)
    /\ UNCHANGED overlapped
    /\ DOMAIN store' = IF Removes(p, what) THEN {place \in DOMAIN store : place[1] # proc[p].n}
                       ELSE DOMAIN store
    /\ \A place \in DOMAIN store' :
          \/ store'[place] = store[place]
          \/ /\ proc[p].pc = "measuring" /\ place = Here(p)
             /\ store'[place] = [manifest |-> [proc[p].opened EXCEPT !.completed = FALSE],
                                 rows     |-> store[place].rows]
    /\ report' = report \/ (AtEnd(p) /\ report' = Result(p))

LEMMA EndsStored ==
    ASSUME Types, NEW p \in Procs, proc[p] # Idle, NEW what \in Outcomes \ {"running"},
           ~FreeRefusal(proc[p].cmd, what), End(p, what, store), UNCHANGED overlapped,
           report' = report \/ (AtEnd(p) /\ report' = Result(p))
    PROVE  Ends(p, what)
  <1>1. p \in Running /\ proc[p] \in Process
    BY RunningTypes
  <1>2. DOMAIN store' = (IF Removes(p, what) THEN {place \in DOMAIN store : place[1] # proc[p].n}
                         ELSE DOMAIN store)
        /\ \A place \in DOMAIN store' : store'[place] = store[place]
    BY DEF End, KeptStore, Removes
  <1>3. QED
    BY <1>1, <1>2 DEF End, Ends

LEMMA EndSteps ==
    ASSUME Types, Orderly, NEW p \in Procs,
           \/ NoKey(p) \/ Abort(p) \/ Render(p) \/ Certify(p) \/ Kill(p)
           \/ End(p, "mismatch", store) /\ proc[p] # Idle /\ UNCHANGED <<report, overlapped>>
           \/ \E what \in {"done", "failed", "error"} : Decide(p, what)
    PROVE  \E what \in Outcomes : Ends(p, what)
  <1> USE DEF Outcomes
  <1>1. CASE NoKey(p)
    BY <1>1, EndsStored DEF NoKey, AtNextRequest, HasClients, FreeRefusal
  <1>2. CASE Abort(p)
    <2>1. p \in Running /\ proc[p] \in Process
      BY <1>2, RunningTypes DEF Abort
    <2>2. proc[p].pc = "measuring"
      BY <1>2, <2>1 DEF Abort, Orderly, Process
    <2>3. store' = Closed(p, FALSE) /\ ~Removes(p, "aborted")
      BY <1>2 DEF Abort, End, KeptStore, Removes
    <2>4. /\ DOMAIN store' = DOMAIN store
          /\ \A place \in DOMAIN store \ {Here(p)} : store'[place] = store[place]
          /\ Here(p) \in DOMAIN store =>
                store'[Here(p)] = [manifest |-> [proc[p].opened EXCEPT !.completed = FALSE],
                                   rows     |-> store[Here(p)].rows]
      BY <2>3, ClosedWrites
    <2>5. Ends(p, "aborted")
      BY <1>2, <2>1, <2>2, <2>3, <2>4 DEF Abort, End, Ends, FreeRefusal
    <2>6. QED
      BY <2>5
  <1>3. CASE Render(p)
    <2>1. proc[p] # Idle /\ proc[p].cmd.name \in {"run", "compare"} /\ UNCHANGED overlapped
      BY <1>3 DEF Render, AtEnd
    <2>2. \/ End(p, "no certificate", store) /\ UNCHANGED report
          \/ AtEnd(p) /\ End(p, "done", store) /\ report' = Result(p)
      BY <1>3 DEF Render
    <2>3. Ends(p, "no certificate") \/ Ends(p, "done")
      BY <2>1, <2>2, EndsStored DEF FreeRefusal, Gates
    <2>4. QED
      BY <2>3
  <1>4. CASE Certify(p)
    <2>1. proc[p] # Idle /\ proc[p].cmd.name = "calibrate" /\ UNCHANGED overlapped
      BY <1>4 DEF Certify, AtEnd
    <2>2. \/ End(p, "no key", store) /\ UNCHANGED report
          \/ AtEnd(p) /\ End(p, "done", store) /\ report' = Result(p)
      BY <1>4 DEF Certify
    <2>3. Ends(p, "no key") \/ Ends(p, "done")
      BY <2>1, <2>2, EndsStored DEF FreeRefusal, Gates
    <2>4. QED
      BY <2>3
  <1>5. CASE Kill(p)
    <2>1. proc[p] # Idle /\ UNCHANGED <<store, report, overlapped>>
      BY <1>5 DEF Kill, disk
    <2>2. End(p, "killed", store)
      BY <1>5, <2>1 DEF Kill, End, KeptStore
    <2>3. Ends(p, "killed")
      BY <2>1, <2>2, EndsStored DEF FreeRefusal
    <2>4. QED
      BY <2>3
  <1>6. CASE End(p, "mismatch", store) /\ proc[p] # Idle /\ UNCHANGED <<report, overlapped>>
    <2>1. Ends(p, "mismatch")
      BY <1>6, EndsStored DEF FreeRefusal
    <2>2. QED
      BY <2>1
  <1>7. ASSUME NEW what \in {"done", "failed", "error"}, Decide(p, what)
        PROVE  Ends(p, what)
    <2>1. proc[p] # Idle /\ AtEnd(p) /\ UNCHANGED overlapped
      BY <1>7 DEF Decide, AtEnd
    <2>2. proc[p].cmd.name = "gate" => proc[p].certificate
      BY <2>1, RunningTypes DEF Orderly
    <2>3. End(p, what, store) /\ report' = Result(p)
      BY <1>7, <2>2 DEF Decide
    <2>4. QED
      BY <2>1, <2>3, EndsStored DEF FreeRefusal
  <1>8. QED
    BY <1>1, <1>2, <1>3, <1>4, <1>5, <1>6, <1>7

LEMMA StepCases ==
    ASSUME Types, Orderly, [Next]_vars
    PROVE  \/ \E p \in Procs, cmd \in Invocable : Starts(p, cmd)
           \/ Noted
           \/ \E p \in Procs : \/ Reuses(p) \/ Opens(p) \/ Finishes(p)
                               \/ \E key : Measures(p, key)
                               \/ \E what \in Outcomes : Ends(p, what)
           \/ Outside
  <1>1. ASSUME NEW p \in Procs, Step(p)
        PROVE  \/ Reuses(p) \/ Opens(p) \/ Finishes(p)
               \/ \E key : Measures(p, key)
               \/ \E what \in Outcomes : Ends(p, what)
    <2>1. CASE Open(p)
      <3>1. proc[p] # Idle
        BY <2>1 DEF Open, AtNextRequest
      <3>2. QED
        BY <2>1, <3>1, OpenSteps, EndSteps
    <2>2. QED
      BY <1>1, <2>1, ReuseSteps, MeasureSteps, FinishSteps, EndSteps DEF Step
  <1>2. CASE EditInputs \/ EditKeys \/ EditCertificate
    BY <1>2 DEF EditInputs, EditKeys, EditCertificate, Outside, disk, history, world
  <1>3. CASE UNCHANGED vars
    BY <1>3 DEF vars, Outside, disk, history
  <1>4. QED
    BY <1>1, <1>2, <1>3, BeginSteps, EndSteps DEF Next

(***************************************************************************)
(* Types.                                                                  *)
(***************************************************************************)
LEMMA SpendTypes ==
    ASSUME Types, NEW kind \in {"edit", "fault"}, Spend(kind)
    PROVE  budget' \in [edit : 0 .. MaxEdits, fault : 0 .. MaxFaults]
  <1>1. budget \in [edit : 0 .. MaxEdits, fault : 0 .. MaxFaults]
    BY DEF Types
  <1>2. MaxEdits \in Nat /\ MaxFaults \in Nat
    BY CommandsAssumption
  <1>3. QED
    BY <1>1, <1>2 DEF Spend

LEMMA WorldTypes ==
    ASSUME Types, [Next]_vars
    PROVE  /\ certificate' \in BOOLEAN /\ creds' \in BOOLEAN
           /\ config' \in Configs /\ files' \in [Paths -> Contents] /\ build' \in Builds
           /\ keys' \in KeySets
           /\ budget' \in [edit : 0 .. MaxEdits, fault : 0 .. MaxFaults]
  <1> USE DEF Types, disk, world, history
  <1>1. CASE EditInputs
    <2>1. budget' \in [edit : 0 .. MaxEdits, fault : 0 .. MaxFaults]
      BY <1>1, SpendTypes DEF EditInputs
    <2>2. /\ config' \in Configs /\ files' \in [Paths -> Contents] /\ build' \in Builds
          /\ creds' \in BOOLEAN
      BY <1>1 DEF EditInputs
    <2>3. QED
      BY <1>1, <2>1, <2>2 DEF EditInputs
  <1>2. CASE EditKeys
    BY <1>2, SpendTypes DEF EditKeys
  <1>3. CASE EditCertificate
    BY <1>3, SpendTypes DEF EditCertificate
  <1>4. CASE UNCHANGED vars
    BY <1>4 DEF vars
  <1>5. ASSUME NEW p \in Procs, NEW cmd \in Invocable, Begin(p, cmd) \/ BadInputs(p, cmd)
        PROVE  UNCHANGED <<certificate, world, budget>>
    BY <1>5 DEF Begin, BadInputs
  <1>6. ASSUME NEW p \in Procs, Abort(p) \/ Kill(p)
        PROVE  /\ UNCHANGED <<certificate, world>>
               /\ budget' \in [edit : 0 .. MaxEdits, fault : 0 .. MaxFaults]
    BY <1>6, SpendTypes DEF Abort, Kill
  <1>7. ASSUME NEW p \in Procs, NoKey(p) \/ Render(p) \/ \E what \in {"done", "failed", "error"} :
                                                              Decide(p, what)
        PROVE  UNCHANGED <<certificate, world, budget>>
    BY <1>7 DEF NoKey, Render, Decide
  <1>8. ASSUME NEW p \in Procs, Certify(p)
        PROVE  certificate' \in BOOLEAN /\ UNCHANGED <<world, budget>>
    BY <1>8 DEF Certify
  <1>9. ASSUME NEW p \in Procs, \/ Reuse(p) \/ Open(p) \/ Finish(p)
                                \/ \E key : Measure(p, key)
        PROVE  UNCHANGED <<certificate, world, budget>>
    BY <1>9 DEF Reuse, Open, Finish, Measure
  <1>10. QED
    BY <1>1, <1>2, <1>3, <1>4, <1>5, <1>6, <1>7, <1>8, <1>9 DEF Next, Step

ProcTypes ==
    /\ proc \in [Procs -> Process \cup {Idle}]
    /\ fate \in Seq([cmd : Invocable, what : Outcomes])

StoreTypes ==
    \A place \in DOMAIN store :
        /\ place \in Nat \X Requests
        /\ store[place] = [manifest |-> store[place].manifest, rows |-> store[place].rows]
        /\ store[place].manifest \in Manifest

LEMMA DomainTypes ==
    ASSUME Types, [Next]_vars
    PROVE  proc' = [p \in Procs |-> proc'[p]]
  <1> USE DEF Types, disk, world, history
  <1>1. CASE EditInputs \/ EditKeys \/ EditCertificate \/ UNCHANGED vars
    BY <1>1 DEF EditInputs, EditKeys, EditCertificate, vars
  <1>2. ASSUME NEW p \in Procs, NEW cmd \in Invocable, Begin(p, cmd) \/ BadInputs(p, cmd)
        PROVE  proc' = [q \in Procs |-> proc'[q]]
    BY <1>2 DEF Begin, BadInputs
  <1>3. ASSUME NEW p \in Procs, Step(p) \/ Kill(p)
        PROVE  proc' = [q \in Procs |-> proc'[q]]
    BY <1>3 DEF Step, Reuse, NoKey, Open, Measure, Finish, Abort, Render, Certify, Decide, Kill, End
  <1>4. QED
    BY <1>1, <1>2, <1>3 DEF Next

LEMMA NextProcTypes ==
    ASSUME Types, Orderly, Numbered, [Next]_vars
    PROVE  ProcTypes'
  <1> DEFINE Fate == [cmd : Invocable, what : Outcomes]
  <1>1. \A p \in Procs : proc[p] \in Process \cup {Idle}
    BY DEF Types
  <1>2. fate \in Seq(Fate)
    BY DEF Types
  <1> HIDE DEF Fate
  <1>3. SUFFICES (\A p \in Procs : proc'[p] \in Process \cup {Idle}) /\ fate' \in Seq(Fate)
    BY DomainTypes DEF ProcTypes, Fate
  <1>4. ASSUME NEW p \in Procs, NEW cmd \in Invocable, Starts(p, cmd)
        PROVE  (\A q \in Procs : proc'[q] \in Process \cup {Idle}) /\ fate' \in Seq(Fate)
    <2>1. [cmd |-> cmd, what |-> "running"] \in Fate /\ Len(fate) + 1 \in Nat
      <3>1. "running" \in Outcomes
        BY DEF Outcomes
      <3>2. [cmd |-> cmd, what |-> "running"] \in Fate
        BY <3>1 DEF Fate
      <3>3. QED
        BY <1>2, <3>2
    <2>2. Started(cmd, Len(fate) + 1) \in Process
      BY <2>1, StartedTypes
    <2>3. QED
      BY <1>1, <1>2, <1>4, <2>1, <2>2 DEF Starts, Types
  <1>5. CASE Noted
    <2>1. PICK one \in Fate : fate' = Append(fate, one)
      BY <1>5 DEF Noted, Fate
    <2>2. QED
      BY <1>1, <1>2, <1>5, <2>1 DEF Noted
  <1>6. ASSUME NEW p \in Procs, Works(p)
        PROVE  (\A q \in Procs : proc'[q] \in Process \cup {Idle}) /\ fate' \in Seq(Fate)
    BY <1>1, <1>2, <1>6 DEF Works
  <1>7. ASSUME NEW p \in Procs, NEW what \in Outcomes, Ends(p, what)
        PROVE  (\A q \in Procs : proc'[q] \in Process \cup {Idle}) /\ fate' \in Seq(Fate)
    <2>1. proc[p].n \in DOMAIN fate
      BY <1>7 DEF Ends, Numbered
    <2>2. fate[proc[p].n] \in Fate
      BY <1>2, <2>1
    <2>3. fate' = [fate EXCEPT ![proc[p].n] = [fate[proc[p].n] EXCEPT !.what = what]]
      BY <1>7 DEF Ends
    <2>4. [fate[proc[p].n] EXCEPT !.what = what] \in Fate
      BY <2>2 DEF Fate
    <2>5. fate' \in Seq(Fate)
      BY <1>2, <2>1, <2>3, <2>4, ExceptSeq
    <2>6. QED
      BY <1>1, <1>7, <2>5 DEF Ends, Types
  <1>8. CASE Outside
    BY <1>1, <1>2, <1>8 DEF Outside
  <1>9. QED
    BY <1>4, <1>5, <1>6, <1>7, <1>8, StepCases DEF Reuses, Opens, Finishes, Measures

LEMMA OpenedTypes ==
    ASSUME Types, Relied, NEW p \in Running, proc[p].pc = "measuring", NEW completed \in BOOLEAN
    PROVE  /\ [proc[p].opened EXCEPT !.completed = completed] \in Manifest
           /\ [proc[p].opened EXCEPT !.completed = completed].of = Current(p)
           /\ [proc[p].opened EXCEPT !.completed = completed].completed = completed
           /\ [proc[p].opened EXCEPT !.completed = completed].rubric = proc[p].opened.rubric
  BY DEF Relied, Manifest

LEMMA NextStoreTypes ==
    ASSUME Types, Orderly, Relied, [Next]_vars
    PROVE  StoreTypes'
  <1>1. StoreTypes
    BY DEF Types, StoreTypes
  <1>2. ASSUME NEW p \in Procs, Opens(p) PROVE StoreTypes'
    <2>1. Here(p) \in Nat \X Requests
      BY <1>2, CurrentTypes DEF Opens, Works
    <2>2. Here(p) \notin DOMAIN store => store'[Here(p)].manifest \in Manifest
      <3>1. Current(p) \in Requests /\ proc[p].build.rubric \in {one.rubric : one \in Builds}
        BY <1>2, CurrentTypes DEF Opens, Works, Process
      <3>2. InitialManifest(Current(p), proc[p].build) \in Manifest
        BY <3>1 DEF InitialManifest, Manifest
      <3>3. QED
        BY <1>2, <3>2 DEF Opens
    <2>3. Here(p) \notin DOMAIN store => store'[Here(p)] =
             [manifest |-> store'[Here(p)].manifest, rows |-> store'[Here(p)].rows]
      BY <1>2 DEF Opens
    <2>4. QED
      BY <1>1, <1>2, <2>1, <2>2, <2>3 DEF Opens, StoreTypes
  <1>3. ASSUME NEW p \in Procs, NEW key, Measures(p, key) PROVE StoreTypes'
    <2>1. Here(p) \in DOMAIN store => store'[Here(p)].manifest = store[Here(p)].manifest
      BY <1>3 DEF Measures
    <2>2. Here(p) \in DOMAIN store => store'[Here(p)] =
             [manifest |-> store'[Here(p)].manifest, rows |-> store'[Here(p)].rows]
      BY <1>3 DEF Measures
    <2>3. QED
      BY <1>1, <1>3, <2>1, <2>2 DEF Measures, StoreTypes
  <1>4. ASSUME NEW p \in Procs, Finishes(p) PROVE StoreTypes'
    <2>1. Here(p) \in DOMAIN store => store'[Here(p)].manifest \in Manifest
      <3>1. [proc[p].opened EXCEPT !.completed = TRUE] \in Manifest
        BY <1>4, OpenedTypes DEF Finishes, Works
      <3>2. Here(p) \in DOMAIN store =>
               store'[Here(p)].manifest = [proc[p].opened EXCEPT !.completed = TRUE]
        BY <1>4 DEF Finishes, Writes
      <3>3. QED
        BY <3>1, <3>2
    <2>2. Here(p) \in DOMAIN store => store'[Here(p)] =
             [manifest |-> store'[Here(p)].manifest, rows |-> store'[Here(p)].rows]
      BY <1>4 DEF Finishes, Writes
    <2>3. QED
      BY <1>1, <1>4, <2>1, <2>2 DEF Finishes, Writes, StoreTypes
  <1>5. ASSUME NEW p \in Procs, NEW what \in Outcomes, Ends(p, what) PROVE StoreTypes'
    <2>1. DOMAIN store' \subseteq DOMAIN store
      BY <1>5 DEF Ends
    <2>2. ASSUME NEW place \in DOMAIN store'
          PROVE  /\ store'[place].manifest \in Manifest
                 /\ store'[place] = [manifest |-> store'[place].manifest,
                                     rows |-> store'[place].rows]
      <3>1. CASE store'[place] = store[place]
        BY <1>1, <2>1, <3>1 DEF StoreTypes
      <3>2. CASE /\ proc[p].pc = "measuring"
                 /\ store'[place] = [manifest |-> [proc[p].opened EXCEPT !.completed = FALSE],
                                     rows     |-> store[place].rows]
        <4>1. [proc[p].opened EXCEPT !.completed = FALSE] \in Manifest
          BY <1>5, <3>2, OpenedTypes DEF Ends
        <4>2. QED
          BY <3>2, <4>1
      <3>3. QED
        BY <1>5, <3>1, <3>2 DEF Ends
    <2>3. QED
      BY <1>1, <2>1, <2>2 DEF StoreTypes
  <1>6. CASE UNCHANGED store
    BY <1>1, <1>6 DEF StoreTypes
  <1>7. QED
    BY <1>2, <1>3, <1>4, <1>5, <1>6, StepCases DEF Starts, Noted, Reuses, Outside

LEMMA NextTypes == Types /\ Orderly /\ Numbered /\ Relied /\ [Next]_vars => Types'
  BY WorldTypes, NextProcTypes, NextStoreTypes DEF Types, ProcTypes, StoreTypes

(***************************************************************************)
(* Who runs after a step, and what has become of the commands.             *)
(***************************************************************************)
LEMMA FateGrows ==
    ASSUME Types, NEW one, fate' = Append(fate, one)
    PROVE  /\ Len(fate) \in Nat /\ Len(fate') = Len(fate) + 1
           /\ Len(fate) + 1 \notin DOMAIN fate
           /\ DOMAIN fate' = DOMAIN fate \cup {Len(fate) + 1}
           /\ fate'[Len(fate) + 1] = one
           /\ \A n \in DOMAIN fate : n \in DOMAIN fate' /\ fate'[n] = fate[n] /\ n # 0
  BY DEF Types

LEMMA Starting ==
    ASSUME Types, NEW p, NEW cmd, Starts(p, cmd)
    PROVE  /\ p \notin Running /\ Running' = Running \cup {p}
           /\ \A q \in Running : proc'[q] = proc[q]
           /\ proc'[p] = Started(cmd, Len(fate) + 1)
  <1>1. proc'[p] = Started(cmd, Len(fate) + 1) /\ \A q \in Procs \ {p} : proc'[q] = proc[q]
    BY DEF Starts, Types
  <1>2. Len(fate) + 1 \in Nat
    BY DEF Types
  <1>3. proc'[p] # Idle
    BY <1>1, <1>2, StartedTypes DEF Starts
  <1>4. QED
    BY <1>1, <1>3 DEF Starts, Running

LEMMA WorkingOn ==
    ASSUME Types, NEW p, Works(p)
    PROVE  /\ Running' = Running
           /\ \A q \in Running \ {p} : proc'[q] = proc[q]
  BY DEF Works, Running

LEMMA Ending ==
    ASSUME Types, Numbered, NEW p, NEW what, Ends(p, what)
    PROVE  /\ Running' = Running \ {p}
           /\ \A q \in Running' : proc'[q] = proc[q] /\ proc[q].n # proc[p].n
           /\ DOMAIN fate' = DOMAIN fate
           /\ \A n \in DOMAIN fate \ {proc[p].n} : fate'[n] = fate[n]
           /\ proc[p].n \in DOMAIN fate
           /\ fate'[proc[p].n] = [cmd |-> proc[p].cmd, what |-> what]
           /\ DOMAIN store' \subseteq DOMAIN store
  <1>1. Running' = Running \ {p} /\ \A q \in Running' : proc'[q] = proc[q]
    BY DEF Ends, Running, Types
  <1>2. \A q \in Running' : proc[q].n # proc[p].n
    BY <1>1 DEF Numbered, Ends
  <1>3. proc[p].n \in DOMAIN fate /\ fate[proc[p].n] = [cmd |-> proc[p].cmd, what |-> "running"]
    BY DEF Ends, Numbered
  <1>4. fate' = [fate EXCEPT ![proc[p].n] = [fate[proc[p].n] EXCEPT !.what = what]]
    BY DEF Ends
  <1>5. [fate[proc[p].n] EXCEPT !.what = what] = [cmd |-> proc[p].cmd, what |-> what]
    BY <1>3
  <1>6. DOMAIN store' \subseteq DOMAIN store
    BY DEF Ends
  <1>7. QED
    BY <1>1, <1>2, <1>3, <1>4, <1>5, <1>6

LEMMA NextNumbered ==
    ASSUME Types, Orderly, Numbered, [Next]_vars
    PROVE  Numbered'
  <1>1. ASSUME NEW p, NEW cmd, Starts(p, cmd) PROVE Numbered'
    <2>1. /\ fate' = Append(fate, [cmd |-> cmd, what |-> "running"]) /\ store' = store
          /\ cmd \in Invocable /\ Len(fate) + 1 \in Nat
      BY <1>1 DEF Starts, Types
    <2>2. proc'[p].n = Len(fate) + 1 /\ proc'[p].cmd = cmd
      BY <1>1, <2>1, Starting, StartedTypes
    <2>3. \A q \in Running' : proc'[q].n \in DOMAIN fate' /\ fate'[proc'[q].n] =
             [cmd |-> proc'[q].cmd, what |-> "running"]
      BY <1>1, <2>1, <2>2, Starting, FateGrows DEF Numbered
    <2>4. \A q, r \in Running' : proc'[q].n = proc'[r].n => q = r
      <3>1. \A q \in Running : proc[q].n # Len(fate) + 1
        BY <2>1, FateGrows DEF Numbered
      <3>2. \A q \in Running' : q = p \/ (q \in Running /\ proc'[q] = proc[q])
        BY <1>1, Starting
      <3>3. \A q, r \in Running : proc[q].n = proc[r].n => q = r
        BY DEF Numbered
      <3>4. QED
        BY <2>2, <3>1, <3>2, <3>3
    <2>5. \A place \in DOMAIN store' :
             place[1] # 0 => place[1] \in DOMAIN fate' /\ Gates(fate'[place[1]].cmd)
      BY <2>1, FateGrows DEF Numbered
    <2>6. QED
      BY <2>3, <2>4, <2>5 DEF Numbered
  <1>2. CASE Noted
    <2>1. UNCHANGED <<proc, store>> /\ \E one : fate' = Append(fate, one)
      BY <1>2 DEF Noted
    <2>2. QED
      BY <2>1, FateGrows DEF Numbered, Running
  <1>3. ASSUME NEW p, Works(p), DOMAIN store' \subseteq DOMAIN store \cup {Here(p)}
        PROVE  Numbered'
    <2>1. /\ fate' = fate /\ proc'[p].n = proc[p].n /\ proc'[p].cmd = proc[p].cmd
          /\ p \in Running /\ Here(p)[1] = Root(proc[p].cmd, proc[p].n)
      BY <1>3, CurrentTypes DEF Works
    <2>2. Here(p)[1] # 0 => Here(p)[1] \in DOMAIN fate' /\ Gates(fate'[Here(p)[1]].cmd)
      <3>1. proc[p].n \in DOMAIN fate /\ fate[proc[p].n] = [cmd |-> proc[p].cmd, what |-> "running"]
        BY <2>1 DEF Numbered
      <3>2. fate[proc[p].n].cmd = proc[p].cmd
        BY <3>1
      <3>3. QED
        BY <2>1, <3>1, <3>2 DEF Root
    <2>3. \A q \in Running' : q \in Running /\ proc'[q].n = proc[q].n /\ proc'[q].cmd = proc[q].cmd
      BY <1>3, <2>1, WorkingOn
    <2>4. QED
      BY <1>3, <2>1, <2>2, <2>3 DEF Numbered
  <1>4. ASSUME NEW p, NEW what, Ends(p, what) PROVE Numbered'
    <2>1. \A q \in Running' : q \in Running /\ proc'[q] = proc[q] /\ fate'[proc[q].n] = fate[proc[q].n]
      BY <1>4, Ending DEF Numbered
    <2>2. \A n \in DOMAIN fate : n \in DOMAIN fate' /\ fate'[n].cmd = fate[n].cmd
      BY <1>4, Ending DEF Ends, Numbered
    <2>3. DOMAIN store' \subseteq DOMAIN store
      BY <1>4, Ending
    <2>4. QED
      BY <2>1, <2>2, <2>3 DEF Numbered
  <1>5. CASE Outside
    BY <1>5 DEF Outside, Numbered, Running
  <1>6. QED
    BY <1>1, <1>2, <1>3, <1>4, <1>5, StepCases DEF Reuses, Opens, Measures, Finishes, Writes

LEMMA NextOrderly ==
    ASSUME Types, Orderly, Numbered, [Next]_vars
    PROVE  Orderly'
  <1> DEFINE Good(x) ==
        /\ \A i \in DOMAIN x.asked : x.asked[i].version \in Declared <=> x.cmd.path = None
        /\ Len(x.got) <= Len(x.asked)
        /\ \A i \in DOMAIN x.got : x.got[i] = Place(x.asked[i], Root(x.cmd, x.n))
        /\ x.pc = "measuring" => Len(x.got) < Len(x.asked)
        /\ x.pc = "getting" => x.pending = {}
        /\ x.cmd.name = "gate" => x.certificate
  <1>1. (\A q \in Running : Good(proc[q])) /\ (Orderly' <=> \A q \in Running' : Good(proc'[q]))
    BY DEF Orderly
  <1> HIDE DEF Good
  <1>2. ASSUME NEW p, NEW cmd, Starts(p, cmd) PROVE Orderly'
    <2>1. cmd \in Invocable /\ Len(fate) + 1 \in Nat
      BY <1>2 DEF Starts, Types
    <2> DEFINE x == Started(cmd, Len(fate) + 1)
    <2>2. /\ x \in Process /\ x.pc = "getting" /\ x.cmd = cmd /\ x.certificate = certificate
          /\ x.got = <<>> /\ x.pending = {}
          /\ \A i \in DOMAIN x.asked : x.asked[i].version \in Declared <=> cmd.path = None
      BY <2>1, StartedTypes
    <2>3. cmd.name = "gate" => certificate
      BY <1>2, CommandsAssumption DEF Starts, Refusal
    <2>4. Good(x)
      <3> HIDE DEF x
      <3>1. Len(x.asked) \in Nat /\ Len(x.got) = 0 /\ DOMAIN x.got = {}
        BY <2>2 DEF Process
      <3>2. QED
        BY <2>2, <2>3, <3>1 DEF Good
    <2>5. QED
      BY <1>1, <1>2, <2>4, Starting
  <1>3. ASSUME NEW p, Works(p), Good(proc'[p]) PROVE Orderly'
    BY <1>1, <1>3, WorkingOn
  <1>4. ASSUME NEW p, Works(p), proc'[p].got = Append(proc[p].got, Here(p)),
               proc'[p].pc = "getting", proc'[p].pending = {}
        PROVE  Good(proc'[p])
    <2>1. /\ p \in Running /\ Good(proc[p])
          /\ proc[p].got \in Seq(Nat \X Requests) /\ proc[p].asked \in Seq(Requests)
          /\ Len(proc[p].got) < Len(proc[p].asked)
      BY <1>1, <1>4 DEF Works, Process, Good
    <2>2. Here(p) = Place(proc[p].asked[Len(proc[p].got) + 1], Root(proc[p].cmd, proc[p].n))
      BY DEF Here, Current
    <2>3. /\ Len(proc'[p].got) = Len(proc[p].got) + 1
          /\ \A i \in DOMAIN proc'[p].got : i \in DOMAIN proc[p].got \/ i = Len(proc[p].got) + 1
          /\ \A i \in DOMAIN proc[p].got : proc'[p].got[i] = proc[p].got[i]
          /\ proc'[p].got[Len(proc[p].got) + 1] = Here(p)
      BY <1>4, <2>1
    <2>4. QED
      BY <1>4, <2>1, <2>2, <2>3 DEF Works, Good
  <1>5. ASSUME NEW p, Works(p), proc'[p].got = proc[p].got, proc'[p].pc = "measuring"
        PROVE  Good(proc'[p])
    BY <1>1, <1>5 DEF Works, Good
  <1>6. ASSUME NEW p, NEW what, Ends(p, what) PROVE Orderly'
    BY <1>1, <1>6, Ending
  <1>7. CASE Noted \/ Outside
    BY <1>7 DEF Noted, Outside, Orderly, Running
  <1>8. ASSUME NEW p, Reuses(p) PROVE Orderly'
    <2>1. proc[p].pending = {}
      BY <1>8 DEF Reuses, Works, Orderly
    <2>2. QED
      BY <1>3, <1>4, <1>8, <2>1 DEF Reuses
  <1>9. QED
    BY <1>2, <1>3, <1>4, <1>5, <1>6, <1>7, <1>8, StepCases DEF Opens, Measures, Finishes

(***************************************************************************)
(* Faithful.                                                               *)
(***************************************************************************)
LEMMA HereStays ==
    ASSUME NEW p, Works(p), proc'[p].got = proc[p].got
    PROVE  Current(p)' = Current(p) /\ Here(p)' = Here(p)
  BY DEF Works, Current, Here, Root, Place, RunId

LEMMA NextFaithful ==
    ASSUME Types, Orderly, Numbered, Relied, Faithful, [Next]_vars
    PROVE  Faithful'
  <1> DEFINE Good(place, dir, numbers) ==
        /\ dir.manifest.of = place[2]
        /\ dir.manifest.completed => KeysIn(dir.rows) = KeysOf(place[2])
        /\ \A row \in dir.rows :
              /\ row.key \in KeysOf(place[2]) /\ row.text = place[2].items[row.key[1]]
              /\ row.model = place[2].model /\ row.judge = place[2].judge
              /\ row.prompt = place[2].prompt
              /\ row.by \in numbers
              /\ place[1] # 0 => row.by = place[1]
              /\ place[2].version \in Declared => row.official
  <1>1. /\ \A place \in DOMAIN store : Good(place, store[place], DOMAIN fate)
        /\ Faithful' <=> \A place \in DOMAIN store' : Good(place, store'[place], DOMAIN fate')
    BY DEF Faithful
  <1>2. ASSUME store' = store, NEW one, fate' = Append(fate, one) PROVE Faithful'
    <2>1. DOMAIN fate \subseteq DOMAIN fate'
      BY <1>2, FateGrows
    <2>2. QED
      BY <1>1, <1>2, <2>1
  <1>3. ASSUME NEW p, Works(p)
        PROVE  /\ p \in Running /\ fate' = fate /\ proc[p].n \in DOMAIN fate
               /\ Here(p)[2] = Current(p) /\ Here(p)[1] = Root(proc[p].cmd, proc[p].n)
    BY <1>3, CurrentTypes DEF Works, Numbered
  <1> HIDE DEF Good
  <1>4. ASSUME NEW p, Opens(p) PROVE Faithful'
    <2>1. ASSUME Here(p) \notin DOMAIN store
          PROVE  Good(Here(p), store'[Here(p)], DOMAIN fate)
      <3>1. /\ store'[Here(p)].manifest = InitialManifest(Current(p), proc[p].build)
            /\ store'[Here(p)].rows = {}
        BY <1>4, <2>1 DEF Opens
      <3>2. /\ InitialManifest(Current(p), proc[p].build).of = Current(p)
            /\ ~InitialManifest(Current(p), proc[p].build).completed
        BY DEF InitialManifest
      <3>3. QED
        BY <1>3, <1>4, <3>1, <3>2 DEF Opens, Good
    <2>2. QED
      BY <1>1, <1>3, <1>4, <2>1 DEF Opens
  <1>5. ASSUME NEW p, NEW key, Measures(p, key) PROVE Faithful'
    <2> DEFINE r == Current(p)
               row == RowOf(p, key)
    <2>1. /\ Here(p) \in DOMAIN store /\ key \in KeysOf(r)
          /\ Good(Here(p), store[Here(p)], DOMAIN fate) /\ p \in Running
      BY <1>1, <1>3, <1>5 DEF Measures, Relied
    <2>2. /\ row.key = key /\ row.text = r.items[key[1]] /\ row.model = r.model
          /\ row.judge = r.judge /\ row.prompt = r.prompt /\ row.by = proc[p].n
          /\ row.official = Reportable(proc[p].cmd)
      BY DEF RowOf
    <2>3. r.version \in Declared => row.official
      <3>1. Len(proc[p].got) + 1 \in DOMAIN proc[p].asked
        BY <1>5, <2>1, CurrentTypes DEF Measures, Works
      <3>2. r.version \in Declared <=> proc[p].cmd.path = None
        BY <2>1, <3>1 DEF Orderly, Current
      <3>3. QED
        BY <2>2, <3>2 DEF Reportable
    <2>4. Here(p)[1] # 0 => row.by = Here(p)[1]
      BY <1>3, <1>5, <2>2 DEF Measures, Root
    <2>5. /\ store'[Here(p)].manifest = store[Here(p)].manifest
          /\ store'[Here(p)].rows = store[Here(p)].rows \cup {row}
      BY <1>5, <2>1 DEF Measures
    <2> HIDE DEF row, r
    <2>6. KeysIn(store'[Here(p)].rows) = KeysIn(store[Here(p)].rows) \cup {key}
      BY <2>2, <2>5 DEF KeysIn
    <2>7. Here(p)[2] = r /\ proc[p].n \in DOMAIN fate /\ fate' = fate
      BY <1>3, <1>5 DEF Measures, r
    <2>8. Good(Here(p), store'[Here(p)], DOMAIN fate)
      <3>1. store'[Here(p)].manifest.completed => KeysIn(store'[Here(p)].rows) = KeysOf(r)
        BY <2>1, <2>5, <2>6, <2>7 DEF Good
      <3>2. QED
        BY <2>1, <2>2, <2>3, <2>4, <2>5, <2>7, <3>1 DEF Good
    <2>9. QED
      BY <1>1, <1>5, <2>7, <2>8 DEF Measures
  <1>6. ASSUME NEW p, Finishes(p) PROVE Faithful'
    <2>1. /\ Here(p) \in DOMAIN store /\ p \in Running /\ Here(p)[2] = Current(p)
          /\ KeysOf(Current(p)) \subseteq KeysIn(store[Here(p)].rows)
          /\ Good(Here(p), store[Here(p)], DOMAIN fate)
      BY <1>1, <1>3, <1>6 DEF Finishes, Relied
    <2>2. KeysIn(store[Here(p)].rows) \subseteq KeysOf(Current(p))
      BY <2>1 DEF Good, KeysIn
    <2>3. /\ store'[Here(p)].manifest = [proc[p].opened EXCEPT !.completed = TRUE]
          /\ store'[Here(p)].rows = store[Here(p)].rows
      BY <1>6, <2>1 DEF Finishes, Writes
    <2>4. store'[Here(p)].manifest.of = Current(p)
      BY <1>6, <2>1, <2>3, OpenedTypes DEF Finishes
    <2>5. Good(Here(p), store'[Here(p)], DOMAIN fate)
      <3>1. KeysIn(store'[Here(p)].rows) = KeysOf(Current(p))
        BY <2>1, <2>2, <2>3
      <3>2. QED
        BY <2>1, <2>3, <2>4, <3>1 DEF Good
    <2>6. QED
      BY <1>1, <1>3, <1>6, <2>5 DEF Finishes, Writes
  <1>7. ASSUME NEW p, NEW what, Ends(p, what) PROVE Faithful'
    <2>1. DOMAIN store' \subseteq DOMAIN store /\ DOMAIN fate' = DOMAIN fate
      BY <1>7, Ending
    <2>2. ASSUME NEW place \in DOMAIN store' PROVE Good(place, store'[place], DOMAIN fate)
      <3>1. CASE store'[place] = store[place]
        BY <1>1, <2>1, <3>1
      <3>2. CASE /\ proc[p].pc = "measuring" /\ place = Here(p)
                 /\ store'[place] = [manifest |-> [proc[p].opened EXCEPT !.completed = FALSE],
                                     rows     |-> store[place].rows]
        <4>1. p \in Running /\ Len(proc[p].got) < Len(proc[p].asked)
          BY <1>7, <3>2 DEF Ends, Orderly
        <4>2. place[2] = Current(p)
          BY <3>2, <4>1, CurrentTypes
        <4>3. /\ store'[place].manifest.of = Current(p) /\ ~store'[place].manifest.completed
              /\ store'[place].rows = store[place].rows
          <5>1. /\ store'[place].manifest = [proc[p].opened EXCEPT !.completed = FALSE]
                /\ store'[place].rows = store[place].rows
            BY <3>2
          <5>2. QED
            BY <3>2, <4>1, <5>1, OpenedTypes
        <4>4. Good(place, store[place], DOMAIN fate)
          BY <1>1, <2>1
        <4>5. QED
          BY <4>2, <4>3, <4>4 DEF Good
      <3>3. QED
        BY <1>7, <3>1, <3>2 DEF Ends
    <2>3. QED
      BY <1>1, <2>1, <2>2
  <1>8. CASE Noted
    BY <1>2, <1>8 DEF Noted
  <1>9. CASE UNCHANGED <<store, fate>>
    BY <1>1, <1>9
  <1>10. QED
    BY <1>2, <1>4, <1>5, <1>6, <1>7, <1>8, <1>9, StepCases DEF Reuses, Works, Outside, Starts

(***************************************************************************)
(* Relied.  Directories only grow, but for the end of a gate, which is     *)
(* about its own root.                                                     *)
(***************************************************************************)
Kept == \A place \in DOMAIN store :
           place \in DOMAIN store' /\ store[place].rows \subseteq store'[place].rows

LEMMA StoreGrows ==
    ASSUME Types, Orderly, [Next]_vars,
           \A p \in Procs, what \in Outcomes : ~Ends(p, what)
    PROVE  Kept
  <1>1. ASSUME NEW p, Opens(p) PROVE Kept
    BY <1>1 DEF Opens, Kept
  <1>2. ASSUME NEW p, NEW key, Measures(p, key) PROVE Kept
    <2>1. Here(p) \in DOMAIN store => store'[Here(p)].rows = store[Here(p)].rows \cup {RowOf(p, key)}
      BY <1>2 DEF Measures
    <2>2. QED
      BY <1>2, <2>1 DEF Measures, Kept
  <1>3. ASSUME NEW p, Finishes(p) PROVE Kept
    <2>1. Here(p) \in DOMAIN store => store'[Here(p)].rows = store[Here(p)].rows
      BY <1>3 DEF Finishes, Writes
    <2>2. QED
      BY <1>3, <2>1 DEF Finishes, Writes, Kept
  <1>4. ASSUME NEW p, NEW cmd, Starts(p, cmd) PROVE Kept
    BY <1>4 DEF Starts, Kept
  <1>5. ASSUME NEW p, Reuses(p) PROVE Kept
    BY <1>5 DEF Reuses, Kept
  <1>6. CASE Noted \/ Outside
    BY <1>6 DEF Noted, Outside, Kept
  <1>7. QED
    BY <1>1, <1>2, <1>3, <1>4, <1>5, <1>6, StepCases

LEMMA EndStores ==
    ASSUME NEW p, NEW what, Ends(p, what), NEW place \in DOMAIN store
    PROVE  /\ place \in DOMAIN store' => store'[place].rows = store[place].rows
           /\ place \notin DOMAIN store' => Removes(p, what) /\ place[1] = proc[p].n
  <1>1. ASSUME place \in DOMAIN store',
               store'[place] = [manifest |-> [proc[p].opened EXCEPT !.completed = FALSE],
                                rows     |-> store[place].rows]
        PROVE  store'[place].rows = store[place].rows
    BY <1>1
  <1>2. place \in DOMAIN store' => store'[place].rows = store[place].rows
    BY <1>1 DEF Ends
  <1>3. place \notin DOMAIN store' => Removes(p, what) /\ place[1] = proc[p].n
    BY DEF Ends
  <1>4. QED
    BY <1>2, <1>3

LEMMA OwnRoots ==
    ASSUME Types, Numbered, NEW p \in Running, NEW q \in Running, p # q
    PROVE  /\ proc[p].n # 0 /\ proc[q].n # proc[p].n
           /\ Root(proc[q].cmd, proc[q].n) # proc[p].n
           /\ Gates(proc[p].cmd) => Root(proc[p].cmd, proc[p].n) = proc[p].n
  <1>1. proc[p].n \in DOMAIN fate /\ proc[q].n \in DOMAIN fate /\ proc[q].n # proc[p].n
    BY DEF Numbered
  <1>2. proc[p].n # 0
    BY <1>1 DEF Types
  <1>3. QED
    BY <1>1, <1>2 DEF Root

LEMMA Whole ==
    ASSUME Faithful', NEW place \in DOMAIN store, place \in DOMAIN store',
           store[place].rows \subseteq store'[place].rows,
           KeysOf(place[2]) \subseteq KeysIn(store[place].rows)
    PROVE  KeysIn(store'[place].rows) = KeysOf(place[2])
  BY DEF Faithful, KeysIn

LEMMA NextRelied ==
    ASSUME Types, Orderly, Numbered, Relied, Faithful, [Next]_vars, Types', Faithful'
    PROVE  Relied'
  <1> DEFINE Had(x) == \A i \in DOMAIN x.got :
                           /\ x.got[i] \in DOMAIN store'
                           /\ KeysIn(store'[x.got[i]].rows) = KeysOf(x.got[i][2])
             Under(x, place, r) ==
                x.pc = "measuring" =>
                    /\ place \in DOMAIN store'
                    /\ x.opened \in Manifest /\ x.opened.of = r
                    /\ x.pending \subseteq KeysOf(r)
                    /\ KeysOf(r) \subseteq x.pending \cup KeysIn(store'[place].rows)
  <1>1. Relied' <=> \A q \in Running' : Had(proc'[q]) /\ Under(proc'[q], Here(q)', Current(q)')
    BY DEF Relied
  \* What a process relied on before is still there.
  <1>2. ASSUME NEW q \in Running,
               \A place \in DOMAIN store :
                  place[1] = Root(proc[q].cmd, proc[q].n) =>
                     place \in DOMAIN store' /\ store[place].rows \subseteq store'[place].rows
        PROVE  Had(proc[q]) /\ Under(proc[q], Here(q), Current(q))
    <2>1. Had(proc[q])
      <3>1. ASSUME NEW i \in DOMAIN proc[q].got
            PROVE  /\ proc[q].got[i] \in DOMAIN store'
                   /\ KeysIn(store'[proc[q].got[i]].rows) = KeysOf(proc[q].got[i][2])
        <4>1. /\ proc[q].got[i] \in DOMAIN store
              /\ KeysIn(store[proc[q].got[i]].rows) = KeysOf(proc[q].got[i][2])
          BY DEF Relied
        <4>2. proc[q].got[i][1] = Root(proc[q].cmd, proc[q].n)
          BY DEF Orderly, Place
        <4>3. QED
          BY <1>2, <4>1, <4>2, Whole
      <3>2. QED
        BY <3>1
    <2>2. ASSUME proc[q].pc = "measuring"
          PROVE  Under(proc[q], Here(q), Current(q))
      <3>1. Here(q)[1] = Root(proc[q].cmd, proc[q].n) /\ Here(q) \in DOMAIN store
        BY <2>2, CurrentTypes DEF Orderly, Relied
      <3>2. Here(q) \in DOMAIN store' /\ store[Here(q)].rows \subseteq store'[Here(q)].rows
        BY <1>2, <3>1
      <3>3. KeysIn(store[Here(q)].rows) \subseteq KeysIn(store'[Here(q)].rows)
        BY <3>2 DEF KeysIn
      <3>4. QED
        BY <2>2, <3>2, <3>3 DEF Relied
    <2>3. QED
      BY <2>1, <2>2
  <1>3. ASSUME NEW q \in Running, q \in Running', proc'[q] = proc[q],
               Had(proc[q]), Under(proc[q], Here(q), Current(q))
        PROVE  Had(proc'[q]) /\ Under(proc'[q], Here(q)', Current(q)')
    BY <1>3 DEF Here, Current
  <1> HIDE DEF Had, Under
  <1>4. ASSUME NEW p \in Procs, NEW what \in Outcomes, Ends(p, what) PROVE Relied'
    <2>1. ASSUME NEW q \in Running' PROVE Had(proc'[q]) /\ Under(proc'[q], Here(q)', Current(q)')
      <3>1. q \in Running /\ q # p /\ p \in Running /\ proc'[q] = proc[q]
        BY <1>4, Ending DEF Ends
      <3>2. \A place \in DOMAIN store :
               place[1] = Root(proc[q].cmd, proc[q].n) =>
                  place \in DOMAIN store' /\ store[place].rows \subseteq store'[place].rows
        BY <1>4, <3>1, EndStores, OwnRoots
      <3>3. QED
        BY <1>2, <1>3, <3>1, <3>2
    <2>2. QED
      BY <1>1, <2>1
  <1>5. ASSUME \A p \in Procs, what \in Outcomes : ~Ends(p, what)
        PROVE  \A q \in Running : Had(proc[q]) /\ Under(proc[q], Here(q), Current(q))
    BY <1>2, <1>5, StoreGrows DEF Kept
  <1>6. ASSUME \A q \in Running : Had(proc[q]) /\ Under(proc[q], Here(q), Current(q)),
               NEW p, NEW cmd, Starts(p, cmd)
        PROVE  Relied'
    <2>1. Had(proc'[p]) /\ Under(proc'[p], Here(p)', Current(p)')
      <3>1. Len(fate) + 1 \in Nat /\ cmd \in Invocable
        BY <1>6 DEF Types, Starts
      <3>2. proc'[p].pc = "getting" /\ proc'[p].got = <<>>
        BY <1>6, <3>1, Starting, StartedTypes
      <3>3. QED
        BY <3>2 DEF Had, Under
    <2>2. QED
      BY <1>1, <1>3, <1>6, <2>1, Starting
  <1>7. ASSUME \A q \in Running : Had(proc[q]) /\ Under(proc[q], Here(q), Current(q)),
               NEW p, Works(p), Had(proc'[p]), Under(proc'[p], Here(p)', Current(p)')
        PROVE  Relied'
    BY <1>1, <1>3, <1>7, WorkingOn
  \* A directory that was found complete, or has been completed.
  <1>8. ASSUME NEW p, Works(p), Had(proc[p]), proc'[p].got = Append(proc[p].got, Here(p)),
               proc'[p].pc = "getting", Here(p) \in DOMAIN store',
               KeysIn(store'[Here(p)].rows) = KeysOf(Current(p))
        PROVE  Had(proc'[p]) /\ Under(proc'[p], Here(p)', Current(p)')
    <2>1. proc[p].got \in Seq(Nat \X Requests) /\ Here(p)[2] = Current(p)
      BY <1>8, CurrentTypes DEF Works, Process
    <2>2. /\ \A i \in DOMAIN proc'[p].got : i \in DOMAIN proc[p].got \/ i = Len(proc[p].got) + 1
          /\ \A i \in DOMAIN proc[p].got : proc'[p].got[i] = proc[p].got[i]
          /\ proc'[p].got[Len(proc[p].got) + 1] = Here(p)
      BY <1>8, <2>1
    <2>3. Had(proc'[p])
      BY <1>8, <2>1, <2>2 DEF Had
    <2>4. QED
      BY <1>8, <2>3 DEF Under
  <1>9. ASSUME \A q \in Running : Had(proc[q]) /\ Under(proc[q], Here(q), Current(q)),
               NEW p, Reuses(p)
        PROVE  Relied'
    <2>1. p \in Running /\ Here(p)[2] = Current(p)
      BY <1>9, CurrentTypes DEF Reuses, Works
    <2>2. Here(p) \in DOMAIN store /\ KeysIn(store[Here(p)].rows) = KeysOf(Current(p))
      BY <1>9, <2>1 DEF Reuses, Reusable, Faithful
    <2>3. QED
      BY <1>7, <1>8, <1>9, <2>1, <2>2 DEF Reuses
  <1>10. ASSUME \A q \in Running : Had(proc[q]) /\ Under(proc[q], Here(q), Current(q)),
                NEW p, Finishes(p)
         PROVE  Relied'
    <2>1. /\ p \in Running /\ Here(p)[2] = Current(p) /\ Here(p) \in DOMAIN store
          /\ KeysOf(Current(p)) \subseteq KeysIn(store[Here(p)].rows)
      BY <1>10, CurrentTypes DEF Finishes, Works, Relied
    <2>2. Here(p) \in DOMAIN store' /\ store'[Here(p)].rows = store[Here(p)].rows
      BY <1>10, <2>1 DEF Finishes, Writes
    <2>3. KeysIn(store'[Here(p)].rows) = KeysOf(Current(p))
      BY <2>1, <2>2, Whole
    <2>4. QED
      BY <1>7, <1>8, <1>10, <2>1, <2>2, <2>3 DEF Finishes
  <1>11. ASSUME \A q \in Running : Had(proc[q]) /\ Under(proc[q], Here(q), Current(q)),
                NEW p, Opens(p)
         PROVE  Relied'
    <2>1. /\ p \in Running /\ Here(p)' = Here(p) /\ Current(p)' = Current(p)
          /\ Here(p)[2] = Current(p)
      BY <1>11, HereStays, CurrentTypes DEF Opens, Works
    <2>2. Here(p) \in DOMAIN store' /\ proc'[p].opened = store'[Here(p)].manifest
          /\ proc'[p].pending = KeysOf(Current(p)) \ KeysIn(store'[Here(p)].rows)
      BY <1>11 DEF Opens, Missing, KeysIn
    <2>3. store'[Here(p)].manifest \in Manifest /\ store'[Here(p)].manifest.of = Current(p)
      BY <2>1, <2>2 DEF Types, Faithful
    <2>4. Under(proc'[p], Here(p)', Current(p)')
      BY <2>1, <2>2, <2>3 DEF Under
    <2>5. Had(proc'[p])
      BY <1>11, <2>1 DEF Had, Opens
    <2>6. QED
      BY <1>7, <1>11, <2>4, <2>5 DEF Opens
  <1>12. ASSUME \A q \in Running : Had(proc[q]) /\ Under(proc[q], Here(q), Current(q)),
                NEW p, NEW key, Measures(p, key)
         PROVE  Relied'
    <2>1. /\ p \in Running /\ Here(p)' = Here(p) /\ Current(p)' = Current(p)
          /\ Here(p) \in DOMAIN store
      BY <1>12, HereStays DEF Measures, Works, Relied
    <2>2. store'[Here(p)].rows = store[Here(p)].rows \cup {RowOf(p, key)}
      BY <1>12, <2>1 DEF Measures
    <2>3. key \in KeysIn(store'[Here(p)].rows)
      BY <2>2 DEF KeysIn, RowOf
    <2>4. Under(proc'[p], Here(p)', Current(p)')
      BY <1>12, <2>1, <2>3 DEF Under, Measures
    <2>5. Had(proc'[p])
      BY <1>12, <2>1 DEF Had, Measures
    <2>6. QED
      BY <1>7, <1>12, <2>4, <2>5 DEF Measures
  <1>13. ASSUME \A q \in Running : Had(proc[q]) /\ Under(proc[q], Here(q), Current(q)),
                UNCHANGED <<proc, store>>
         PROVE  Relied'
    BY <1>1, <1>3, <1>13 DEF Running
  <1>14. QED
    BY <1>4, <1>5, <1>6, <1>9, <1>10, <1>11, <1>12, <1>13, StepCases DEF Noted, Outside

(***************************************************************************)
(* Fresh.  Only a gate writes under its own root.                          *)
(***************************************************************************)
LEMMA NextFresh ==
    ASSUME Types, Orderly, Numbered, Relied, Fresh, [Next]_vars
    PROVE  Fresh'
  <1> DEFINE Its(x, dir) == /\ dir.manifest.rubric = x.build.rubric
                            /\ \A row \in dir.rows : row.rubric = x.build.rubric
             Good(x, st) == Gates(x.cmd) =>
                /\ x.pc = "measuring" => x.opened.rubric = x.build.rubric
                /\ \A place \in DOMAIN st : place[1] = x.n => Its(x, st[place])
  <1> HIDE DEF Its, Good
  <1>1. /\ \A q \in Running : Good(proc[q], store)
        /\ Fresh' <=> \A q \in Running' : Good(proc'[q], store')
    BY DEF Fresh, Good, Its
  <1>2. ASSUME NEW q \in Running, NEW place \in DOMAIN store, Gates(proc[q].cmd),
               place[1] = proc[q].n
        PROVE  Its(proc[q], store[place])
    BY <1>1, <1>2 DEF Good
  \* A process does not see what others do.
  <1>3. ASSUME NEW q \in Running, NEW p \in Running, p # q,
               \A place \in DOMAIN store' :
                  \/ place \in DOMAIN store /\ store'[place] = store[place]
                  \/ place[1] = Root(proc[p].cmd, proc[p].n)
        PROVE  Good(proc[q], store')
    <2>1. Root(proc[p].cmd, proc[p].n) # proc[q].n
      BY <1>3, OwnRoots
    <2>2. QED
      BY <1>1, <1>3, <2>1 DEF Good
  <1>4. ASSUME NEW p, Works(p), DOMAIN store' = DOMAIN store \cup {Here(p)},
               \A place \in DOMAIN store \ {Here(p)} : store'[place] = store[place],
               Gates(proc[p].cmd) => /\ Its(proc[p], store'[Here(p)])
                                     /\ proc'[p].pc = "measuring" =>
                                           proc'[p].opened.rubric = proc[p].build.rubric
        PROVE  Fresh'
    <2>1. p \in Running /\ Here(p)[1] = Root(proc[p].cmd, proc[p].n)
      BY <1>4, CurrentTypes DEF Works
    <2>2. ASSUME NEW q \in Running', q # p PROVE Good(proc'[q], store')
      BY <1>3, <1>4, <2>1, <2>2, WorkingOn
    <2>3. Good(proc'[p], store')
      <3>1. ASSUME Gates(proc[p].cmd), NEW place \in DOMAIN store', place[1] = proc[p].n
            PROVE  Its(proc'[p], store'[place])
        <4>1. Its(proc[p], store'[place])
          BY <1>2, <1>4, <2>1, <3>1
        <4>2. QED
          BY <1>4, <4>1 DEF Its, Works
      <3>2. QED
        BY <1>4, <3>1 DEF Good, Works
    <2>4. QED
      BY <1>1, <2>2, <2>3
  <1>5. ASSUME NEW p, Works(p)
        PROVE  /\ p \in Running
               /\ Gates(proc[p].cmd) => Here(p)[1] = proc[p].n
               /\ Gates(proc[p].cmd) /\ Here(p) \in DOMAIN store => Its(proc[p], store[Here(p)])
    <2>1. p \in Running /\ (Gates(proc[p].cmd) => Here(p)[1] = proc[p].n)
      BY <1>5, CurrentTypes DEF Works, Root
    <2>2. QED
      BY <1>2, <2>1
  <1>6. ASSUME NEW p, Opens(p) PROVE Fresh'
    <2>1. ASSUME Here(p) \notin DOMAIN store PROVE Its(proc[p], store'[Here(p)])
      <3>1. /\ store'[Here(p)].manifest = InitialManifest(Current(p), proc[p].build)
            /\ store'[Here(p)].rows = {}
        BY <1>6, <2>1 DEF Opens
      <3>2. InitialManifest(Current(p), proc[p].build).rubric = proc[p].build.rubric
        BY DEF InitialManifest
      <3>3. QED
        BY <3>1, <3>2 DEF Its
    <2>2. Gates(proc[p].cmd) => Its(proc[p], store'[Here(p)])
      BY <1>5, <1>6, <2>1 DEF Opens
    <2>3. Gates(proc[p].cmd) => proc'[p].opened.rubric = proc[p].build.rubric
      BY <1>6, <2>2 DEF Opens, Its
    <2>4. QED
      BY <1>4, <1>6, <2>2, <2>3 DEF Opens
  <1>7. ASSUME NEW p, NEW key, Measures(p, key) PROVE Fresh'
    <2>1. Here(p) \in DOMAIN store
      BY <1>5, <1>7 DEF Measures, Relied
    <2>2. /\ store'[Here(p)].manifest = store[Here(p)].manifest
          /\ store'[Here(p)].rows = store[Here(p)].rows \cup {RowOf(p, key)}
      BY <1>7, <2>1 DEF Measures
    <2>3. RowOf(p, key).rubric = proc[p].build.rubric
      BY DEF RowOf
    <2>4. Gates(proc[p].cmd) => Its(proc[p], store'[Here(p)])
      BY <1>5, <1>7, <2>1, <2>2, <2>3 DEF Its, Measures
    <2>5. Gates(proc[p].cmd) => proc'[p].opened.rubric = proc[p].build.rubric
      BY <1>1, <1>5, <1>7 DEF Good, Measures
    <2>6. QED
      BY <1>4, <1>7, <2>1, <2>4, <2>5 DEF Measures
  <1>8. ASSUME NEW p, Finishes(p) PROVE Fresh'
    <2>1. p \in Running /\ Here(p) \in DOMAIN store
      BY <1>5, <1>8 DEF Finishes, Relied
    <2>2. /\ store'[Here(p)].manifest = [proc[p].opened EXCEPT !.completed = TRUE]
          /\ store'[Here(p)].rows = store[Here(p)].rows
      BY <1>8, <2>1 DEF Finishes, Writes
    <2>3. store'[Here(p)].manifest.rubric = proc[p].opened.rubric
      BY <1>8, <2>1, <2>2, OpenedTypes DEF Finishes
    <2>4. Gates(proc[p].cmd) => proc[p].opened.rubric = proc[p].build.rubric
      BY <1>1, <1>8, <2>1 DEF Good, Finishes
    <2>5. Gates(proc[p].cmd) => Its(proc[p], store'[Here(p)])
      BY <1>5, <1>8, <2>1, <2>2, <2>3, <2>4 DEF Its, Finishes
    <2>6. QED
      BY <1>4, <1>8, <2>1, <2>5 DEF Finishes, Writes
  <1>9. ASSUME NEW p, Reuses(p) PROVE Fresh'
    BY <1>4, <1>5, <1>9 DEF Reuses, Reusable
  <1>10. ASSUME NEW p \in Procs, NEW what \in Outcomes, Ends(p, what) PROVE Fresh'
    <2>1. ASSUME NEW q \in Running' PROVE Good(proc'[q], store')
      <3>1. q \in Running /\ q # p /\ p \in Running /\ proc'[q] = proc[q]
        BY <1>10, Ending DEF Ends
      <3>2. ASSUME NEW place \in DOMAIN store', store'[place] # store[place]
            PROVE  place[1] = Root(proc[p].cmd, proc[p].n)
        <4>1. proc[p].pc = "measuring" /\ place = Here(p)
          BY <1>10, <3>2 DEF Ends
        <4>2. QED
          BY <3>1, <4>1, CurrentTypes DEF Orderly
      <3>3. DOMAIN store' \subseteq DOMAIN store
        BY <1>10, Ending
      <3>4. QED
        BY <1>3, <3>1, <3>2, <3>3
    <2>2. QED
      BY <1>1, <2>1
  <1>11. ASSUME NEW p, NEW cmd, Starts(p, cmd) PROVE Fresh'
    <2>1. Len(fate) + 1 \in Nat \ {0} /\ Len(fate) + 1 \notin DOMAIN fate /\ cmd \in Invocable
      BY <1>11 DEF Types, Starts
    <2>2. proc'[p].n = Len(fate) + 1 /\ proc'[p].pc = "getting"
      BY <1>11, <2>1, Starting, StartedTypes
    <2>3. \A place \in DOMAIN store : place[1] # Len(fate) + 1
      BY <2>1 DEF Numbered
    <2>4. Good(proc'[p], store')
      BY <1>11, <2>2, <2>3 DEF Good, Starts
    <2>5. QED
      BY <1>1, <1>11, <2>4, Starting DEF Starts
  <1>12. CASE Noted \/ Outside
    BY <1>1, <1>12 DEF Noted, Outside, Running
  <1>13. QED
    BY <1>6, <1>7, <1>8, <1>9, <1>10, <1>11, <1>12, StepCases

(***************************************************************************)
(* Once.  A step that opens nothing and measures nothing leaves it true.   *)
(***************************************************************************)
LEMMA SameOpen ==
    ASSUME NEW q, proc'[q] = proc[q], NEW place
    PROVE  HasOpen(q, place)' <=> HasOpen(q, place)
  BY DEF HasOpen, Here, Current, Place, RunId, Root

LEMMA OnceLess ==
    ASSUME Once, UNCHANGED overlapped, overlapped \subseteq DOMAIN store',
           DOMAIN store' \subseteq DOMAIN store,
           \A place \in DOMAIN store' : store'[place].rows = store[place].rows,
           \A q \in Procs, place \in DOMAIN store' :
              HasOpen(q, place)' => HasOpen(q, place) /\ proc'[q].pending = proc[q].pending
    PROVE  Once'
  BY DEF Once

LEMMA OpensOnce ==
    ASSUME Types, Orderly, Numbered, Once, NEW p \in Procs, Opens(p)
    PROVE  Once'
  <1>0. PICK place0 : place0 = Here(p)
    OBVIOUS
  <1> DEFINE shared == \E q \in Procs \ {p} : HasOpen(q, place0)
  <1>1. /\ p \in Running /\ Len(proc[p].got) < Len(proc[p].asked)
        /\ place0[1] = Root(proc[p].cmd, proc[p].n) /\ Here(p)' = place0
    BY <1>0, CurrentTypes, HereStays DEF Opens, Works
  <1>2. /\ DOMAIN store' = DOMAIN store \cup {place0}
        /\ \A place \in DOMAIN store : store'[place] = store[place]
        /\ place0 \notin DOMAIN store => store'[place0].rows = {}
        /\ proc'[p].pending = KeysOf(Current(p)) \ KeysIn(store'[place0].rows)
        /\ overlapped' = IF shared THEN overlapped \cup {place0} ELSE overlapped
    BY <1>0 DEF Opens, Missing, KeysIn
  <1>3. shared => place0[1] = 0
    <2>1. ASSUME NEW q \in Procs \ {p}, HasOpen(q, place0) PROVE place0[1] = 0
      <3>1. q \in Running /\ Len(proc[q].got) < Len(proc[q].asked)
        BY <2>1 DEF HasOpen, Running, Orderly
      <3>2. place0[1] = Root(proc[q].cmd, proc[q].n)
        BY <2>1, <3>1, CurrentTypes DEF HasOpen
      <3>3. ~Gates(proc[p].cmd)
        BY <1>1, <2>1, <3>1, <3>2, OwnRoots
      <3>4. QED
        BY <1>1, <3>3 DEF Root
    <2>2. QED
      BY <2>1
  <1>4. ASSUME NEW q \in Procs, NEW place, HasOpen(q, place)'
        PROVE  IF q = p THEN place = place0
               ELSE HasOpen(q, place) /\ proc'[q].pending = proc[q].pending
    <2>1. CASE q = p
      BY <1>1, <1>4, <2>1 DEF HasOpen
    <2>2. CASE q # p
      BY <1>4, <2>2, SameOpen DEF Opens, Works
    <2>3. QED
      BY <2>1, <2>2
  <1>5. ASSUME NEW place \in DOMAIN store' \ overlapped', place # place0
        PROVE  /\ \A q, r \in store'[place].rows : q.key = r.key => q = r
               /\ \A o \in Procs : HasOpen(o, place)' =>
                     /\ proc'[o].pending \cap KeysIn(store'[place].rows) = {}
                     /\ \A q \in Procs : HasOpen(q, place)' => o = q
    <2>1. place \in DOMAIN store \ overlapped /\ store'[place] = store[place]
      BY <1>2, <1>5
    <2>2. QED
      BY <1>4, <1>5, <2>1 DEF Once
  <1>6. ASSUME place0 \notin overlapped'
        PROVE  /\ \A q, r \in store'[place0].rows : q.key = r.key => q = r
               /\ \A o \in Procs : HasOpen(o, place0)' =>
                     /\ proc'[o].pending \cap KeysIn(store'[place0].rows) = {}
                     /\ \A q \in Procs : HasOpen(q, place0)' => o = q
    <2>1. ~shared /\ place0 \notin overlapped
      BY <1>2, <1>6
    <2>2. \A q \in Procs : HasOpen(q, place0)' => q = p
      BY <1>4, <2>1
    <2>3. \A q, r \in store'[place0].rows : q.key = r.key => q = r
      BY <1>2, <2>1 DEF Once
    <2>4. proc'[p].pending \cap KeysIn(store'[place0].rows) = {}
      BY <1>2
    <2>5. QED
      BY <2>2, <2>3, <2>4
  <1>7. overlapped' \subseteq DOMAIN store' /\ \A place \in overlapped' : place[1] = 0
    BY <1>2, <1>3 DEF Once
  <1>8. QED
    BY <1>5, <1>6, <1>7 DEF Once

LEMMA MeasuresOnce ==
    ASSUME Types, Orderly, Relied, Once, NEW p \in Procs, NEW key, Measures(p, key)
    PROVE  Once'
  <1>0. PICK place0 : place0 = Here(p)
    OBVIOUS
  <1> DEFINE row == RowOf(p, key)
  <1>1. p \in Running /\ proc[p].pc = "measuring" /\ key \in proc[p].pending
    BY DEF Measures, Works
  <1>2. Here(p)' = place0 /\ place0 \in DOMAIN store /\ HasOpen(p, place0)
    BY <1>0, <1>1, HereStays DEF Measures, Relied, HasOpen, Running
  <1>3. store'[place0].rows = store[place0].rows \cup {row} /\ row.key = key
    BY <1>0, <1>2 DEF Measures, RowOf
  <1>4. /\ DOMAIN store' = DOMAIN store /\ overlapped' = overlapped
        /\ proc'[p].pending = proc[p].pending \ {key}
        /\ \A place \in DOMAIN store \ {place0} : store'[place] = store[place]
    BY <1>0 DEF Measures
  <1>5. ASSUME NEW q \in Procs, NEW place, HasOpen(q, place)'
        PROVE  /\ HasOpen(q, place)
               /\ IF q = p THEN place = place0 ELSE proc'[q].pending = proc[q].pending
    <2>1. CASE q = p
      BY <1>2, <1>5, <2>1 DEF HasOpen
    <2>2. CASE q # p
      BY <1>5, <2>2, SameOpen DEF Measures, Works
    <2>3. QED
      BY <2>1, <2>2
  <1> HIDE DEF row
  <1>6. ASSUME NEW place \in DOMAIN store \ overlapped, place # place0
        PROVE  /\ \A q, r \in store'[place].rows : q.key = r.key => q = r
               /\ \A o \in Procs : HasOpen(o, place)' =>
                     /\ proc'[o].pending \cap KeysIn(store'[place].rows) = {}
                     /\ \A q \in Procs : HasOpen(q, place)' => o = q
    <2>1. store'[place] = store[place]
      BY <1>4, <1>6
    <2>2. QED
      BY <1>5, <1>6, <2>1 DEF Once
  <1>7. ASSUME place0 \notin overlapped
        PROVE  /\ \A q, r \in store'[place0].rows : q.key = r.key => q = r
               /\ \A o \in Procs : HasOpen(o, place0)' =>
                     /\ proc'[o].pending \cap KeysIn(store'[place0].rows) = {}
                     /\ \A q \in Procs : HasOpen(q, place0)' => o = q
    <2>1. \A o \in Procs : HasOpen(o, place0)' => o = p
      BY <1>2, <1>5, <1>7 DEF Once
    <2>2. /\ proc[p].pending \cap KeysIn(store[place0].rows) = {}
          /\ \A q, r \in store[place0].rows : q.key = r.key => q = r
      BY <1>2, <1>7 DEF Once
    <2>3. \A q \in store[place0].rows : q.key # key
      BY <1>1, <2>2 DEF KeysIn
    <2>4. \A q, r \in store'[place0].rows : q.key = r.key => q = r
      BY <1>3, <2>2, <2>3
    <2>5. KeysIn(store'[place0].rows) = KeysIn(store[place0].rows) \cup {key}
      BY <1>3 DEF KeysIn
    <2>6. proc'[p].pending \cap KeysIn(store'[place0].rows) = {}
      BY <1>4, <2>2, <2>5
    <2>7. QED
      BY <2>1, <2>4, <2>6
  <1>8. overlapped' \subseteq DOMAIN store' /\ \A place \in overlapped' : place[1] = 0
    BY <1>4 DEF Once
  <1>9. QED
    BY <1>4, <1>6, <1>7, <1>8 DEF Once

LEMMA NextOnce ==
    ASSUME Types, Orderly, Numbered, Relied, Once, [Next]_vars
    PROVE  Once'
  <1>1. ASSUME NEW p, proc'[p].pc # "measuring", \A q \in Procs \ {p} : proc'[q] = proc[q],
               NEW q \in Procs, NEW place, HasOpen(q, place)'
        PROVE  HasOpen(q, place) /\ proc'[q].pending = proc[q].pending
    <2>1. q # p
      BY <1>1 DEF HasOpen
    <2>2. QED
      BY <1>1, <2>1, SameOpen
  <1>2. overlapped \subseteq DOMAIN store
    BY DEF Once
  <1>3. ASSUME NEW p, NEW cmd, Starts(p, cmd) PROVE Once'
    <2>1. Len(fate) + 1 \in Nat /\ cmd \in Invocable
      BY <1>3 DEF Types, Starts
    <2>2. proc'[p].pc = "getting" /\ \A q \in Procs \ {p} : proc'[q] = proc[q]
      BY <1>3, <2>1, Starting, StartedTypes DEF Starts, Types
    <2>3. QED
      BY <1>1, <1>2, <1>3, <2>2, OnceLess DEF Starts
  <1>4. ASSUME NEW p, Reuses(p) PROVE Once'
    BY <1>1, <1>2, <1>4, OnceLess DEF Reuses, Works
  <1>5. ASSUME NEW p, Finishes(p) PROVE Once'
    <2>1. \A place \in DOMAIN store' : store'[place].rows = store[place].rows
      <3>1. Here(p) \in DOMAIN store => store'[Here(p)].rows = store[Here(p)].rows
        BY <1>5 DEF Finishes, Writes
      <3>2. QED
        BY <1>5, <3>1 DEF Finishes, Writes
    <2>2. DOMAIN store' = DOMAIN store /\ overlapped' = overlapped
      BY <1>5 DEF Finishes, Writes
    <2>3. proc'[p].pc # "measuring" /\ \A q \in Procs \ {p} : proc'[q] = proc[q]
      BY <1>5 DEF Finishes, Works
    <2>4. QED
      BY <1>1, <1>2, <2>1, <2>2, <2>3, OnceLess
  <1>6. ASSUME NEW p \in Procs, NEW what \in Outcomes, Ends(p, what) PROVE Once'
    <2>1. DOMAIN store' \subseteq DOMAIN store
      BY <1>6, Ending
    <2>2. \A place \in DOMAIN store' : store'[place].rows = store[place].rows
      BY <1>6, <2>1, EndStores
    <2>3. overlapped \subseteq DOMAIN store'
      <3>1. proc[p].n # 0
        <4>1. proc[p].n \in DOMAIN fate /\ fate \in Seq([cmd : Invocable, what : Outcomes])
          BY <1>6, Ending DEF Types
        <4>2. QED
          BY <4>1
      <3>2. \A place \in DOMAIN store : place \notin DOMAIN store' => place[1] # 0
        BY <1>6, <3>1, EndStores
      <3>3. QED
        BY <1>2, <3>2 DEF Once
    <2>4. ASSUME NEW q \in Procs, NEW place, HasOpen(q, place)'
          PROVE  HasOpen(q, place) /\ proc'[q].pending = proc[q].pending
      <3>1. q \in Running'
        BY <2>4 DEF HasOpen, Running
      <3>2. proc'[q] = proc[q]
        BY <1>6, <3>1, Ending
      <3>3. QED
        BY <2>4, <3>2, SameOpen
    <2>5. QED
      BY <1>6, <2>1, <2>2, <2>3, <2>4, OnceLess DEF Ends
  <1>7. CASE Noted \/ Outside
    <2>1. \A q \in Procs, place \in DOMAIN store' :
             HasOpen(q, place)' => HasOpen(q, place) /\ proc'[q].pending = proc[q].pending
      BY <1>7, SameOpen DEF Noted, Outside
    <2>2. QED
      BY <1>2, <1>7, <2>1, OnceLess DEF Noted, Outside
  <1>8. QED
    BY <1>3, <1>4, <1>5, <1>6, <1>7, OpensOnce, MeasuresOnce, StepCases

(***************************************************************************)
(* Reported.  A result is made where every request has its directory.      *)
(***************************************************************************)
LEMMA ResultReported ==
    ASSUME Types, Numbered, Orderly, Faithful, Relied, Fresh,
           NEW p \in Running, AtEnd(p), report' = Result(p)
    PROVE  Reported'
  <1> DEFINE run(i) == store[proc[p].got[i]]
  <1>1. /\ report'.n = proc[p].n /\ report'.cmd = proc[p].cmd /\ report'.build = proc[p].build
        /\ report'.asked = proc[p].asked
        /\ DOMAIN report'.runs = DOMAIN proc[p].got
        /\ \A i \in DOMAIN proc[p].got : report'.runs[i] = run(i)
    BY DEF Result
  <1>2. /\ proc[p] \in Process /\ proc[p].n \in DOMAIN fate /\ proc[p].n # 0
    <2>1. proc[p] \in Process /\ proc[p].n \in DOMAIN fate
      BY RunningTypes DEF Running, Numbered
    <2>2. QED
      BY <2>1 DEF Types
  <1>3. DOMAIN proc[p].got = DOMAIN proc[p].asked
    BY <1>2 DEF AtEnd, Process
  <1>4. ASSUME NEW i \in DOMAIN proc[p].got
        PROVE  /\ proc[p].got[i] \in DOMAIN store
               /\ proc[p].got[i][1] = Root(proc[p].cmd, proc[p].n)
               /\ proc[p].got[i][2] = proc[p].asked[i]
               /\ KeysIn(run(i).rows) = KeysOf(proc[p].asked[i])
    <2>1. proc[p].got[i] = <<Root(proc[p].cmd, proc[p].n), proc[p].asked[i]>>
      BY DEF Orderly, Place, RunId
    <2>2. proc[p].got[i] \in DOMAIN store /\ KeysIn(run(i).rows) = KeysOf(proc[p].got[i][2])
      BY DEF Relied
    <2>3. QED
      BY <2>1, <2>2
  <1>5. ASSUME NEW i \in DOMAIN proc[p].got, NEW row \in run(i).rows
        PROVE  LET r == proc[p].asked[i]
               IN  /\ row.text = r.items[row.key[1]] /\ row.model = r.model
                   /\ row.judge = r.judge /\ row.prompt = r.prompt
                   /\ proc[p].got[i][1] # 0 => row.by = proc[p].got[i][1]
                   /\ r.version \in Declared => row.official
    BY <1>4 DEF Faithful
  <1> HIDE DEF run
  <1>6. ResultIsOfWhatWasAsked'
    BY <1>1, <1>3, <1>4, <1>5 DEF ResultIsOfWhatWasAsked, KeysIn, KeysOf
  <1>7. GateMeasuresAfresh'
    <2>1. ASSUME Gates(proc[p].cmd), NEW i \in DOMAIN proc[p].got
          PROVE  /\ run(i).manifest.rubric = proc[p].build.rubric
                 /\ \A row \in run(i).rows : row.by = proc[p].n /\ row.rubric = proc[p].build.rubric
      <3>1. proc[p].got[i][1] = proc[p].n
        BY <1>4, <2>1 DEF Root
      <3>2. /\ run(i).manifest.rubric = proc[p].build.rubric
            /\ \A row \in run(i).rows : row.rubric = proc[p].build.rubric
        BY <1>4, <2>1, <3>1 DEF Fresh, run
      <3>3. QED
        BY <1>2, <1>5, <3>1, <3>2
    <2>2. QED
      BY <1>1, <2>1 DEF GateMeasuresAfresh, Gates
  <1>8. DevNumbersStayDev'
    <2>1. ASSUME Reportable(proc[p].cmd), proc[p].cmd.name # "calibrate",
                 NEW i \in DOMAIN proc[p].got, NEW row \in run(i).rows
          PROVE  row.official
      <3>1. proc[p].asked[i].version \in Declared
        BY <1>3, <2>1 DEF Orderly, Reportable
      <3>2. QED
        BY <1>5, <3>1
    <2>2. QED
      BY <1>1, <2>1 DEF DevNumbersStayDev, Reportable
  <1>9. QED
    BY <1>6, <1>7, <1>8 DEF Reported

LEMMA NextReported ==
    ASSUME Types, Numbered, Orderly, Faithful, Relied, Fresh, Reported, [Next]_vars
    PROVE  Reported'
  <1>1. CASE report' = None
    BY <1>1 DEF Reported, ResultIsOfWhatWasAsked, GateMeasuresAfresh, DevNumbersStayDev
  <1>2. CASE report' = report
    BY <1>2 DEF Reported, ResultIsOfWhatWasAsked, GateMeasuresAfresh, DevNumbersStayDev
  <1>3. ASSUME NEW p \in Procs, NEW what \in Outcomes, Ends(p, what) PROVE Reported'
    BY <1>2, <1>3, ResultReported DEF Ends
  <1>4. QED
    BY <1>1, <1>2, <1>3, StepCases
       DEF Starts, Noted, Outside, Reuses, Opens, Measures, Finishes, Works

(***************************************************************************)
(* A refusal costs nothing: its number is a new one, or nobody measures    *)
(* under it any more.                                                      *)
(***************************************************************************)
LEMMA NextFree ==
    ASSUME Types, Numbered, Orderly, Faithful, Relied, RefusalsCostNothing, [Next]_vars
    PROVE  RefusalsCostNothing'
  <1> DEFINE Less == \A place \in DOMAIN store' : \A row \in store'[place].rows :
                        place \in DOMAIN store /\ row \in store[place].rows
             Free(n) == FreeRefusal(fate[n].cmd, fate[n].what) => MeasuredBy(n) = {}
  <1>1. /\ RefusalsCostNothing <=> \A n \in DOMAIN fate : Free(n)
        /\ RefusalsCostNothing' <=> \A n \in DOMAIN fate' : Free(n)'
    BY DEF RefusalsCostNothing, FreeRefusal
  <1>2. ASSUME Less, NEW n PROVE MeasuredBy(n)' \subseteq MeasuredBy(n)
    BY <1>2 DEF MeasuredBy
  <1>3. ASSUME Less, NEW n \in DOMAIN fate, fate'[n] = fate[n] PROVE Free(n)'
    BY <1>1, <1>2, <1>3
  <1> HIDE DEF Free
  <1>4. ASSUME NEW one, fate' = Append(fate, one), UNCHANGED store
        PROVE  RefusalsCostNothing'
    <2>1. PICK n : n = Len(fate) + 1
      OBVIOUS
    <2>2. MeasuredBy(n)' = {}
      BY <1>4, <2>1, FateGrows DEF MeasuredBy, Faithful
    <2>3. Less
      BY <1>4
    <2>4. \A m \in DOMAIN fate' : m = n \/ (m \in DOMAIN fate /\ fate'[m] = fate[m])
      BY <1>4, <2>1, FateGrows
    <2>5. QED
      BY <1>1, <1>3, <2>2, <2>3, <2>4 DEF Free
  <1>5. ASSUME Less, UNCHANGED fate PROVE RefusalsCostNothing'
    BY <1>1, <1>3, <1>5
  <1>6. ASSUME NEW p, NEW key, Measures(p, key) PROVE RefusalsCostNothing'
    <2>1. /\ p \in Running /\ Here(p) \in DOMAIN store
          /\ proc[p].n \in DOMAIN fate /\ fate[proc[p].n].what = "running"
      <3>1. p \in Running /\ Here(p) \in DOMAIN store
        BY <1>6 DEF Measures, Works, Relied
      <3>2. fate[proc[p].n] = [cmd |-> proc[p].cmd, what |-> "running"] /\ proc[p].n \in DOMAIN fate
        BY <3>1 DEF Numbered
      <3>3. QED
        BY <3>1, <3>2
    <2>2. store'[Here(p)].rows = store[Here(p)].rows \cup {RowOf(p, key)}
      BY <1>6, <2>1 DEF Measures
    <2>3. RowOf(p, key).by = proc[p].n
      BY DEF RowOf
    <2>4. ASSUME NEW n \in DOMAIN fate, n # proc[p].n PROVE MeasuredBy(n)' \subseteq MeasuredBy(n)
      BY <1>6, <2>2, <2>3, <2>4 DEF MeasuredBy, Measures
    <2>5. UNCHANGED fate
      BY <1>6 DEF Measures, Works
    <2>6. QED
      BY <1>1, <2>1, <2>4, <2>5 DEF Free, FreeRefusal
  <1>7. ASSUME NEW p \in Procs, NEW what \in Outcomes, Ends(p, what) PROVE RefusalsCostNothing'
    <2>1. Less
      BY <1>7, Ending, EndStores
    <2>2. PICK n : n = proc[p].n
      OBVIOUS
    <2>3. /\ fate'[n] = [cmd |-> proc[p].cmd, what |-> what] /\ DOMAIN fate' = DOMAIN fate
          /\ \A m \in DOMAIN fate \ {n} : fate'[m] = fate[m]
      BY <1>7, <2>2, Ending
    <2>4. ~FreeRefusal(fate'[n].cmd, fate'[n].what)
      <3>1. fate'[n].cmd = proc[p].cmd /\ fate'[n].what = what
        BY <2>3
      <3>2. ~FreeRefusal(proc[p].cmd, what)
        BY <1>7 DEF Ends
      <3>3. QED
        BY <3>1, <3>2
    <2>5. QED
      BY <1>1, <1>3, <2>1, <2>3, <2>4 DEF Free, FreeRefusal
  <1>8. ASSUME NEW p, Opens(p) PROVE RefusalsCostNothing'
    <2>1. Here(p) \notin DOMAIN store => store'[Here(p)].rows = {}
      BY <1>8 DEF Opens
    <2>2. QED
      BY <1>5, <1>8, <2>1 DEF Opens, Works
  <1>9. ASSUME NEW p, Finishes(p) PROVE RefusalsCostNothing'
    <2>1. Here(p) \in DOMAIN store => store'[Here(p)].rows = store[Here(p)].rows
      BY <1>9 DEF Finishes, Writes
    <2>2. QED
      BY <1>5, <1>9, <2>1 DEF Finishes, Writes, Works
  <1>10. ASSUME UNCHANGED <<store, fate>> PROVE RefusalsCostNothing'
    BY <1>5, <1>10
  <1>11. QED
    BY <1>4, <1>6, <1>7, <1>8, <1>9, <1>10, StepCases DEF Starts, Noted, Reuses, Works, Outside

(***************************************************************************)
(* The invariant, and what follows from it.                                *)
(***************************************************************************)
LEMMA InitHolds == Init => IInv
  <1> SUFFICES ASSUME Init PROVE IInv
    OBVIOUS
  <1>1. Running = {} /\ DOMAIN store = {} /\ DOMAIN fate = {} /\ report = None /\ overlapped = {}
    BY DEF Init, Running
  <1>2. Types
    <2>1. /\ config \in Configs /\ files \in [Paths -> Contents] /\ build \in Builds
          /\ fate \in Seq([cmd : Invocable, what : Outcomes])
          /\ keys \in KeySets /\ certificate \in BOOLEAN /\ creds \in BOOLEAN
      <3>1. /\ AtFirst.config \in Configs /\ AtFirst.content \in Contents
            /\ AtFirst.build \in Builds
        BY CommandsAssumption
      <3>2. fate = << >>
        BY DEF Init
      <3>3. fate \in Seq([cmd : Invocable, what : Outcomes])
        BY <3>2
      <3>4. QED
        BY <3>1, <3>3 DEF Init
    <2>2. proc \in [Procs -> Process \cup {Idle}]
      BY DEF Init
    <2>3. budget \in [edit : 0 .. MaxEdits, fault : 0 .. MaxFaults]
      <3>1. MaxEdits \in Nat /\ MaxFaults \in Nat
        BY CommandsAssumption
      <3>2. QED
        BY <3>1 DEF Init
    <2>4. QED
      BY <1>1, <2>1, <2>2, <2>3 DEF Types
  <1>3. Numbered /\ Orderly /\ Faithful /\ Relied /\ Fresh
    BY <1>1 DEF Numbered, Orderly, Faithful, Relied, Fresh
  <1>4. Once /\ Reported /\ RefusalsCostNothing
    BY <1>1 DEF Once, Reported, ResultIsOfWhatWasAsked, GateMeasuresAfresh, DevNumbersStayDev,
                RefusalsCostNothing
  <1>5. QED
    BY <1>2, <1>3, <1>4 DEF IInv

LEMMA Invariant == Spec => []IInv
  <1>1. IInv /\ [Next]_vars => IInv'
    <2> SUFFICES ASSUME IInv, [Next]_vars PROVE IInv'
      OBVIOUS
    <2>1. /\ Types /\ Numbered /\ Orderly /\ Faithful /\ Relied /\ Fresh /\ Once
          /\ Reported /\ RefusalsCostNothing
      BY DEF IInv
    <2>2. Types' /\ Numbered' /\ Orderly'
      BY <2>1, NextTypes, NextNumbered, NextOrderly
    <2>3. Faithful' /\ Fresh' /\ Once'
      BY <2>1, NextFaithful, NextFresh, NextOnce
    <2>4. Relied'
      BY <2>1, <2>2, <2>3, NextRelied
    <2>5. Reported' /\ RefusalsCostNothing'
      BY <2>1, NextReported, NextFree
    <2>6. QED
      BY <2>2, <2>3, <2>4, <2>5 DEF IInv
  <1>2. QED
    BY <1>1, InitHolds, PTL DEF Spec

\* Whatever runs at the same time and whatever is edited, a process is at a
\* request of its command, and a directory holds rows of its own run only.
THEOREM CommandsTypeCorrect == Spec => []TypeOK
  <1>1. ASSUME IInv PROVE TypeOK
    <2>1. Types /\ Numbered /\ Orderly /\ Faithful /\ Relied /\ Once
      BY <1>1 DEF IInv
    <2>2. ASSUME NEW p \in Running
          PROVE  /\ proc[p].pc \in {"getting", "measuring"}
                 /\ fate[proc[p].n] = [cmd |-> proc[p].cmd, what |-> "running"]
                 /\ proc[p].pc = "measuring" => Here(p) \in DOMAIN store
                 /\ proc[p].pc = "measuring" => proc[p].pending \subseteq KeysOf(Current(p))
                 /\ proc[p].pc = "getting" => proc[p].pending = {}
      <3>1. proc[p] \in Process
        BY <2>1, RunningTypes DEF Running
      <3>2. QED
        BY <2>1, <3>1 DEF Process, Numbered, Orderly, Relied
    <2>3. ASSUME NEW n \in DOMAIN fate
          PROVE  fate[n].cmd \in Invocable /\ fate[n].what \in Outcomes
      <3>1. fate[n] \in [cmd : Invocable, what : Outcomes]
        <4> DEFINE Fates == [cmd : Invocable, what : Outcomes]
        <4>1. fate \in Seq(Fates)
          BY <2>1 DEF Types
        <4> HIDE DEF Fates
        <4>2. fate[n] \in Fates
          BY <2>3, <4>1
        <4>3. QED
          BY <4>2 DEF Fates
      <3>2. QED
        BY <3>1
    <2>4. ASSUME NEW place \in DOMAIN store
          PROVE  /\ place[1] \in 0 .. Len(fate)
                 /\ \A row \in store[place].rows : row.key \in KeysOf(store[place].manifest.of)
      <3>1. place[1] = 0 \/ place[1] \in DOMAIN fate
        BY <2>1 DEF Numbered
      <3>2. place[1] \in 0 .. Len(fate)
        BY <2>1, <3>1 DEF Types
      <3>3. QED
        BY <2>1, <3>2 DEF Faithful
    <2>5. QED
      BY <2>1, <2>2, <2>3, <2>4 DEF TypeOK, Types, Once
  <1>2. QED
    BY <1>1, Invariant, PTL

\* A report, a gate decision and a certificate rest on complete runs of exactly
\* what their command asked for, as it was when the command began.
THEOREM ResultsAreAsAsked == Spec => []ResultIsOfWhatWasAsked
  <1>1. IInv => ResultIsOfWhatWasAsked
    BY DEF IInv, Reported
  <1>2. QED
    BY <1>1, Invariant, PTL

\* A gate decision and a baseline rest on nothing but what the invocation measured
\* itself, with the build it runs.
THEOREM GatesAreFresh == Spec => []GateMeasuresAfresh
  <1>1. IInv => GateMeasuresAfresh
    BY DEF IInv, Reported
  <1>2. QED
    BY <1>1, Invariant, PTL

\* Rows measured for a --dataset invocation never get into a reportable result.
THEOREM DevStaysDev == Spec => []DevNumbersStayDev
  <1>1. IInv => DevNumbersStayDev
    BY DEF IInv, Reported
  <1>2. QED
    BY <1>1, Invariant, PTL

\* A command that is refused for what it lacks has not measured anything.
THEOREM RefusalsAreFree == Spec => []RefusalsCostNothing
  <1>1. IInv => RefusalsCostNothing
    BY DEF IInv
  <1>2. QED
    BY <1>1, Invariant, PTL

\* A task is measured twice only in a directory that two processes had open at
\* once; and, with Once, such a directory is never a gate's.
THEOREM MeasuredOnce == Spec => []OnlyOverlapsMeasureTwice
  <1>1. IInv => OnlyOverlapsMeasureTwice
    BY DEF IInv, Once, OnlyOverlapsMeasureTwice
  <1>2. QED
    BY <1>1, Invariant, PTL

\* Who removes what.
LEMMA StepKeepsEvidence ==
    ASSUME Types, Numbered, Orderly, [Next]_vars, NEW place \in DOMAIN store
    PROVE  IF VerdictRemoves(place) THEN place \notin DOMAIN store'
           ELSE place \in DOMAIN store' /\ store[place].rows \subseteq store'[place].rows
  <1>1. ASSUME NEW p \in Procs, NEW what \in Outcomes, Ends(p, what)
        PROVE  IF VerdictRemoves(place) THEN place \notin DOMAIN store'
               ELSE place \in DOMAIN store' /\ store[place].rows \subseteq store'[place].rows
    <2>1. /\ proc[p].n \in DOMAIN fate /\ proc[p].n # 0
          /\ fate[proc[p].n].what = "running" /\ fate[proc[p].n].cmd = proc[p].cmd
          /\ fate'[proc[p].n].what = what
      <3>1. /\ proc[p].n \in DOMAIN fate
            /\ fate[proc[p].n] = [cmd |-> proc[p].cmd, what |-> "running"]
            /\ fate'[proc[p].n] = [cmd |-> proc[p].cmd, what |-> what]
        BY <1>1, Ending DEF Ends, Numbered
      <3>2. QED
        BY <3>1 DEF Types
    <2>2. VerdictRemoves(place) <=> Removes(p, what) /\ place[1] = proc[p].n
      <3>1. CASE place[1] = proc[p].n
        BY <2>1, <3>1 DEF VerdictRemoves, Removes, Numbered
      <3>2. CASE place[1] # proc[p].n
        <4>1. \A n \in DOMAIN fate \ {proc[p].n} : fate'[n] = fate[n]
          BY <1>1, Ending
        <4>2. place[1] # 0 => place[1] \in DOMAIN fate
          BY DEF Numbered
        <4>3. ~VerdictRemoves(place)
          BY <3>2, <4>1, <4>2 DEF VerdictRemoves
        <4>4. QED
          BY <3>2, <4>3
      <3>3. QED
        BY <3>1, <3>2
    <2>3. place \notin DOMAIN store' <=> Removes(p, what) /\ place[1] = proc[p].n
      BY <1>1 DEF Ends
    <2>4. place \in DOMAIN store' => store'[place].rows = store[place].rows
      BY <1>1, EndStores
    <2>5. QED
      BY <2>2, <2>3, <2>4
  <1>2. ASSUME \A p \in Procs, what \in Outcomes : ~Ends(p, what)
        PROVE  Kept /\ ~VerdictRemoves(place)
    <2>1. Kept
      BY <1>2, StoreGrows
    <2>2. \A n \in DOMAIN fate : fate'[n] = fate[n]
      <3>1. UNCHANGED fate \/ \E one : fate' = Append(fate, one)
        BY <1>2, StepCases
           DEF Starts, Noted, Outside, Reuses, Opens, Measures, Finishes, Works
      <3>2. QED
        BY <3>1, FateGrows
    <2>3. ~VerdictRemoves(place)
      BY <2>2 DEF VerdictRemoves, Numbered
    <2>4. QED
      BY <2>1, <2>3
  <1>3. QED
    BY <1>1, <1>2 DEF Kept

\* A gate's directories go with its verdict, and nothing else is ever removed.
THEOREM EvidenceStays == Spec => EvidenceIsKept
  <1>1. IInv /\ [Next]_vars =>
           \A place \in DOMAIN store :
              IF VerdictRemoves(place) THEN place \notin DOMAIN store'
              ELSE place \in DOMAIN store' /\ store[place].rows \subseteq store'[place].rows
    BY StepKeepsEvidence DEF IInv
  <1>2. QED
    BY <1>1, Invariant, PTL DEF Spec, EvidenceIsKept
=============================================================================
