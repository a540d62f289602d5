------------------------------ MODULE Commands ------------------------------
(***************************************************************************)
(* The commands of src/harness/cli.py over the run directories they share: *)
(* run and compare reuse or resume what is under results/runs, calibrate   *)
(* does so for its own emails, and gate measures under a root of its own.  *)
(* Several commands may be running at once, and between any two steps the  *)
(* operator may edit what they read.                                       *)
(*                                                                         *)
(* One measurement is a step here; RunEval has the pool that takes them,   *)
(* RetryTransport the calls behind one, and BaselineUpdate, GateDecision   *)
(* and Calibration what gate and calibrate do with complete runs.          *)
(***************************************************************************)
EXTENDS Naturals, Sequences, FiniteSets

CONSTANTS Procs,           \* processes that may run a command
          Labels,          \* the candidates, a and b
          None,            \* no value
          Golden,          \* dataset.path of the config
          Emails,          \* data/calibration/emails.jsonl
          Contents,        \* what a dataset file may hold: the text of each item
          ContentVersion,  \* _dev_dataset_version of each of them
          Configs,         \* what configs/default.yaml may say
          Builds,          \* installed code: prompt version and rubric
          KeySets,         \* roles whose API key may be in the environment
          AtFirst,         \* config, content of the datasets and build before any edit
          Invocable,       \* commands the operator may give
          MaxInvocations,  \* bound: commands given
          MaxEdits,        \* bound: edits of the operator
          MaxFaults        \* bound: kills and aborts

Paths == {Golden, Emails}
Roles == Labels \cup {"judge"}

ASSUME CommandsAssumption ==
    /\ \A cfg \in Configs : cfg.k \in Nat \ {0} /\ cfg.kBaseline \in Nat \ {0}
    /\ ContentVersion \in [Contents -> Nat]
    /\ \A c, d \in Contents : ContentVersion[c] = ContentVersion[d] => c = d
    /\ \A c \in Contents, cfg \in Configs : ContentVersion[c] # cfg.version
    /\ AtFirst \in [config : Configs, content : Contents, build : Builds]
    /\ \A roles \in KeySets : roles \subseteq Roles
    /\ \A cmd \in Invocable : cmd.labels \in Seq(Labels) /\ cmd.path \in Paths \cup {None}
    /\ None \notin {"no certificate", "no tracing", "no key"}
    /\ MaxInvocations \in Nat /\ MaxEdits \in Nat /\ MaxFaults \in Nat

VARIABLES
    \* The disk.
    store,       \* run directories, by place
    certificate, \* data/calibration/certificate.json is there
    \* What commands read.
    config, files, build,
    keys,        \* roles whose provider has an API key in the environment
    creds,       \* Langfuse credentials are in the environment
    \* The processes.
    proc,        \* memory of each
    \* History.
    fate,        \* of every command given: [cmd, what became of it]
    report,      \* the latest result, with the runs it was computed from
    overlapped,  \* places that two processes had open at once
    budget

disk    == <<store, certificate>>
world   == <<config, files, build, keys, creds>>
history == <<fate, report, overlapped>>
vars    == <<disk, world, proc, history, budget>>

-----------------------------------------------------------------------------
(* What a command asks for, and where that is kept *)

Gates(cmd) == cmd.name \in {"gate", "update"}

\* _resolve_dataset.  calibrate is reportable whatever its dataset.
Reportable(cmd) == cmd.path = None \/ cmd.name = "calibrate"

\* Faulty variant of DatasetVersion: a dataset given by path keeps the config's.
DatasetVersion_Declared(cmd, path) == config.version

\* Of a dataset given by path, the version is made from its content.
DatasetVersion(cmd, path) ==
    IF cmd.path = None THEN config.version ELSE ContentVersion[files[path]]

\* config.k, but K_baseline for a baseline and one replicate for calibration.
Replicates(cmd) ==
    CASE cmd.name = "update"    -> config.kBaseline
      [] cmd.name = "calibrate" -> 1
      [] OTHER                  -> config.k

Request(cmd, label) ==
    LET path == IF cmd.path = None THEN Golden ELSE cmd.path
    IN  [label   |-> label,
         model   |-> config.models[label],
         judge   |-> config.models["judge"],
         items   |-> files[path],
         k       |-> Replicates(cmd),
         prompt  |-> build.prompt,
         version |-> DatasetVersion(cmd, path),
         path    |-> path]

KeysOf(r) == (DOMAIN r.items) \X (1 .. r.k)

\* Faulty variant of RunId: items are told apart by id only, as in the manifest's check.
RunId_IdsOnly(r) == [r EXCEPT !.items = [i \in DOMAIN r.items |-> None]]

\* The hash of everything a run is asked for.
RunId(r) == r

\* Faulty variant of Root: gate shares the root of run and compare.
Root_Shared(cmd, n) == 0

\* results/runs, or results/runs/gate/<uuid>: the n-th invocation's own root.
Root(cmd, n) == IF Gates(cmd) THEN n ELSE 0

Place(r, root) == <<root, RunId(r)>>

\* Fields of the manifest that an invocation may find changed or wrong.
InitialManifest(r, b) ==
    [of |-> r, completed |-> FALSE, rubric |-> b.rubric]

\* _check_manifest_compatible: item ids, not items.
Compatible(m, r) ==
    /\ \A field \in {"label", "model", "judge", "k", "prompt", "version"} : m.of[field] = r[field]
    /\ DOMAIN m.of.items = DOMAIN r.items

\* find_completed_run.
Reusable(place) == place \in DOMAIN store /\ store[place].manifest.completed

\* _build_model_key checks both keys before it constructs either client.
HasKeys(label) == {label, "judge"} \subseteq keys

-----------------------------------------------------------------------------
(* Processes *)

Idle == [pc |-> "idle"]

\* pc, number and command of the process; code and environment it started with;
\* requests and the places of those it has; the open directory's manifest and
\* missing keys.
Started(cmd, n) ==
    [pc |-> "getting", n |-> n, cmd |-> cmd, build |-> build, certificate |-> certificate,
     asked |-> [i \in DOMAIN cmd.labels |-> Request(cmd, cmd.labels[i])],
     got |-> <<>>, opened |-> None, pending |-> {}]

Running == {p \in Procs : proc[p] # Idle}

\* The request a process is at, and its place.
Current(p) == proc[p].asked[Len(proc[p].got) + 1]
Here(p)    == Place(Current(p), Root(proc[p].cmd, proc[p].n))

Spend(kind) ==
    /\ budget[kind] > 0
    /\ budget' = [budget EXCEPT ![kind] = @ - 1]

Init ==
    /\ store = << >>
    /\ certificate \in BOOLEAN
    /\ config = AtFirst.config
    /\ files = [path \in Paths |-> AtFirst.content]
    /\ build = AtFirst.build
    /\ keys \in KeySets
    /\ creds = TRUE
    /\ proc = [p \in Procs |-> Idle]
    /\ fate = << >>
    /\ report = None
    /\ overlapped = {}
    /\ budget = [edit |-> MaxEdits, fault |-> MaxFaults]

\* Faulty variant of KeptStore: the directory of a gate goes whatever happened.
KeptStore_Never(st, p, what) ==
    [place \in {pl \in DOMAIN st : ~Gates(proc[p].cmd) \/ pl[1] # proc[p].n} |-> st[place]]

\* Faulty variant of KeptStore: the parent of every gate's root is removed.
KeptStore_AllGates(st, p, what) ==
    IF Gates(proc[p].cmd) /\ what \in {"done", "failed"} /\ ~proc[p].cmd.keep
    THEN [place \in {pl \in DOMAIN st : pl[1] = 0} |-> st[place]]
    ELSE st

\* _gate_clean_exit removes the invocation's root after a verdict, for or
\* against, unless it was told to keep it; after an error it stays.
KeptStore(st, p, what) ==
    IF Gates(proc[p].cmd) /\ what \in {"done", "failed"} /\ ~proc[p].cmd.keep
    THEN [place \in {pl \in DOMAIN st : pl[1] # proc[p].n} |-> st[place]]
    ELSE st

\* The process ends, leaving the directories st.
End(p, what, st) ==
    /\ proc' = [proc EXCEPT ![p] = Idle]
    /\ fate' = [fate EXCEPT ![proc[p].n].what = what]
    /\ store' = KeptStore(st, p, what)

\* Faulty variant of Refusal: the certificate is left to the rendering.
Refusal_CertificateLater(cmd) ==
    IF Reportable(cmd) /\ ~creds THEN "no tracing"
    ELSE IF cmd.name = "update" /\ \E i \in DOMAIN cmd.labels : ~HasKeys(cmd.labels[i])
    THEN "no key"
    ELSE None

\* What a command is refused for before it looks at any run directory.
Refusal(cmd) ==
    IF cmd.name = "gate" /\ ~certificate THEN "no certificate"
    ELSE IF Reportable(cmd) /\ ~creds THEN "no tracing"
    ELSE IF cmd.name = "update" /\ \E i \in DOMAIN cmd.labels : ~HasKeys(cmd.labels[i])
    THEN "no key"
    ELSE None

\* A command is given: config, dataset, certificate and credentials are read.
Begin(p, cmd) ==
    /\ proc[p] = Idle
    /\ Len(fate) < MaxInvocations
    /\ fate' = Append(fate, [cmd |-> cmd, what |-> IF Refusal(cmd) = None THEN "running"
                                                   ELSE Refusal(cmd)])
    /\ proc' = IF Refusal(cmd) = None
               THEN [proc EXCEPT ![p] = Started(cmd, Len(fate) + 1)] ELSE proc
    /\ report' = None
    /\ UNCHANGED <<disk, world, overlapped, budget>>

\* A gate finds no committed baseline, or calibrate labels that are not sound.
BadInputs(p, cmd) ==
    /\ proc[p] = Idle
    /\ Len(fate) < MaxInvocations
    /\ cmd.name \in {"gate", "calibrate"}
    /\ cmd.name = "gate" => Refusal(cmd) = None
    /\ fate' = Append(fate, [cmd |-> cmd, what |-> "bad inputs"])
    /\ report' = None
    /\ UNCHANGED <<disk, world, proc, overlapped, budget>>

\* Both clients of a baseline update are there from the start; the others construct
\* theirs when they have to measure.
HasClients(p) == proc[p].cmd.name = "update" \/ HasKeys(Current(p).label)

AtNextRequest(p) ==
    /\ proc[p] # Idle
    /\ proc[p].pc = "getting"
    /\ Len(proc[p].got) < Len(proc[p].asked)

\* _get_or_run finds a completed run: no client is constructed.
Reuse(p) ==
    /\ AtNextRequest(p)
    /\ Reusable(Here(p))
    /\ proc' = [proc EXCEPT ![p].got = Append(@, Here(p))]
    /\ UNCHANGED <<disk, world, history, budget>>

\* _get_or_run has to measure and an API key is missing.
NoKey(p) ==
    /\ AtNextRequest(p)
    /\ ~Reusable(Here(p))
    /\ ~HasClients(p)
    /\ End(p, "no key", store)
    /\ UNCHANGED <<certificate, world, report, overlapped, budget>>

\* Faulty variant of Missing: tasks are not compared with the rows on disk.
Missing_All(r, rows) == KeysOf(r)

Missing(r, rows) == KeysOf(r) \ {row.key : row \in rows}

HasOpen(p, place) == proc[p] # Idle /\ proc[p].pc = "measuring" /\ Here(p) = place

\* run_eval opens the run directory, creating it or checking its manifest.  The
\* repair of a torn tail (RowsFile!RepairTail) is not resolved here: rows are whole,
\* and so is this step.
Open(p) ==
    /\ AtNextRequest(p)
    /\ ~Reusable(Here(p))
    /\ HasClients(p)
    /\ LET place == Here(p)
           fresh == [manifest |-> InitialManifest(Current(p), proc[p].build), rows |-> {}]
           dir   == IF place \in DOMAIN store THEN store[place] ELSE fresh
       IN  IF Compatible(dir.manifest, Current(p))
           THEN /\ store' = [pl \in DOMAIN store \cup {place} |->
                                IF pl = place THEN dir ELSE store[pl]]
                /\ proc' = [proc EXCEPT
                        ![p].pc      = "measuring",
                        ![p].opened  = dir.manifest,
                        ![p].pending = Missing(Current(p), dir.rows)]
                /\ overlapped' = IF \E q \in Procs \ {p} : HasOpen(q, place)
                                 THEN overlapped \cup {place} ELSE overlapped
                /\ UNCHANGED fate
           ELSE /\ End(p, "mismatch", store)
                /\ UNCHANGED overlapped
    /\ UNCHANGED <<certificate, world, report, budget>>

RowOf(p, key) ==
    LET r == Current(p)
    IN  [key |-> key, text |-> r.items[key[1]], model |-> r.model, judge |-> r.judge,
         prompt |-> r.prompt, rubric |-> proc[p].build.rubric, by |-> proc[p].n,
         official |-> Reportable(proc[p].cmd)]

\* One missing (item, replicate) is measured and its row appended; a kill between
\* the two is one before the step.
Measure(p, key) ==
    /\ proc[p] # Idle
    /\ key \in proc[p].pending
    /\ store' = [store EXCEPT ![Here(p)].rows = @ \cup {RowOf(p, key)}]
    /\ proc' = [proc EXCEPT ![p].pending = @ \ {key}]
    /\ UNCHANGED <<certificate, world, history, budget>>

\* _write_final_manifest, on the manifest read at the start.
Closed(p, completed) ==
    [store EXCEPT ![Here(p)].manifest = [proc[p].opened EXCEPT !.completed = completed]]

\* run_eval returns.
Finish(p) ==
    /\ proc[p] # Idle
    /\ proc[p].pc = "measuring" /\ proc[p].pending = {}
    /\ store' = Closed(p, TRUE)
    /\ proc' = [proc EXCEPT ![p].pc = "getting", ![p].got = Append(@, Here(p)),
                            ![p].opened = None]
    /\ UNCHANGED <<certificate, world, history, budget>>

\* A measurement raises: RunAborted.
Abort(p) ==
    /\ proc[p] # Idle
    /\ proc[p].pending # {}
    /\ Spend("fault")
    /\ End(p, "aborted", Closed(p, FALSE))
    /\ UNCHANGED <<certificate, world, report, overlapped>>

AtEnd(p) ==
    /\ proc[p] # Idle
    /\ proc[p].pc = "getting"
    /\ Len(proc[p].got) = Len(proc[p].asked)

\* What was computed, and from which runs (load_run).
Result(p) ==
    [n |-> proc[p].n, cmd |-> proc[p].cmd, build |-> proc[p].build, asked |-> proc[p].asked,
     runs |-> [i \in DOMAIN proc[p].got |-> store[proc[p].got[i]]]]

\* run and compare: the certificate is read now, and a reportable report
\* refused without one; the runs stay.
Render(p) ==
    /\ AtEnd(p)
    /\ proc[p].cmd.name \in {"run", "compare"}
    /\ IF Reportable(proc[p].cmd) /\ ~certificate
       THEN End(p, "no certificate", store) /\ UNCHANGED report
       ELSE End(p, "done", store) /\ report' = Result(p)
    /\ UNCHANGED <<certificate, world, overlapped, budget>>

\* gate: the decision, or an error of evaluate_gate, which needs the
\* certificate too; --update-baseline: a commit, or the guardrail floor.
Decide(p, what) ==
    /\ AtEnd(p)
    /\ Gates(proc[p].cmd)
    /\ IF proc[p].cmd.name = "gate" /\ ~proc[p].certificate
       THEN End(p, "no certificate", store) /\ UNCHANGED report
       ELSE End(p, what, store) /\ report' = Result(p)
    /\ UNCHANGED <<certificate, world, overlapped, budget>>

\* calibrate: the judge's own client, the statistics and the certificate.
Certify(p) ==
    /\ AtEnd(p)
    /\ proc[p].cmd.name = "calibrate"
    /\ IF "judge" \in keys
       THEN /\ certificate' = TRUE
            /\ End(p, "done", store)
            /\ report' = Result(p)
       ELSE /\ End(p, "no key", store)
            /\ UNCHANGED <<certificate, report>>
    /\ UNCHANGED <<world, overlapped, budget>>

-----------------------------------------------------------------------------
(* The environment *)

Kill(p) ==
    /\ proc[p] # Idle
    /\ Spend("fault")
    /\ proc' = [proc EXCEPT ![p] = Idle]
    /\ fate' = [fate EXCEPT ![proc[p].n].what = "killed"]
    /\ UNCHANGED <<disk, world, report, overlapped>>

\* What a command reads when it begins is edited; a process keeps what it has
\* read.  An edit that no command is left to read is left out.
EditInputs ==
    /\ Len(fate) < MaxInvocations
    /\ Spend("edit")
    /\ \/ config' \in Configs \ {config} /\ UNCHANGED <<files, build, creds>>
       \/ /\ \E path \in Paths : \E c \in Contents \ {files[path]} :
                files' = [files EXCEPT ![path] = c]
          /\ UNCHANGED <<config, build, creds>>
       \/ build' \in Builds \ {build} /\ UNCHANGED <<config, files, creds>>
       \/ creds' = ~creds /\ UNCHANGED <<config, files, build>>
    /\ UNCHANGED <<disk, keys, proc, history>>

\* API keys and the certificate are read along the way.
EditKeys ==
    /\ Spend("edit")
    /\ keys' \in KeySets \ {keys}
    /\ UNCHANGED <<disk, config, files, build, creds, proc, history>>

EditCertificate ==
    /\ Spend("edit")
    /\ certificate' = ~certificate
    /\ UNCHANGED <<store, world, proc, history>>

-----------------------------------------------------------------------------
Step(p) ==
    \/ Reuse(p) \/ NoKey(p) \/ Open(p)
    \/ \E key \in UNION {KeysOf(proc[p].asked[i]) : i \in
                            IF proc[p] = Idle THEN {} ELSE DOMAIN proc[p].asked} : Measure(p, key)
    \/ Finish(p) \/ Abort(p)
    \/ Render(p) \/ Certify(p)
    \/ \E what \in {"done", "failed", "error"} : Decide(p, what)

Next ==
    \/ \E p \in Procs :
        \/ \E cmd \in Invocable : Begin(p, cmd) \/ BadInputs(p, cmd)
        \/ Step(p)
        \/ Kill(p)
    \/ EditInputs \/ EditKeys \/ EditCertificate

Spec == Init /\ [][Next]_vars

-----------------------------------------------------------------------------
(* Properties *)

Outcomes == {"running", "no certificate", "no tracing", "no key", "bad inputs", "mismatch",
             "aborted", "killed", "error", "failed", "done"}

\* Processes that run are at a request of their command, and every directory
\* belongs to the run that its manifest describes and holds rows of its tasks.
TypeOK ==
    /\ certificate \in BOOLEAN /\ creds \in BOOLEAN
    /\ config \in Configs /\ files \in [Paths -> Contents] /\ build \in Builds
    /\ keys \in KeySets
    /\ \A p \in Running :
          /\ proc[p].pc \in {"getting", "measuring"}
          /\ fate[proc[p].n] = [cmd |-> proc[p].cmd, what |-> "running"]
          /\ proc[p].pc = "measuring" => Here(p) \in DOMAIN store
          /\ proc[p].pc = "measuring" => proc[p].pending \subseteq KeysOf(Current(p))
          /\ proc[p].pc = "getting" => proc[p].pending = {}
    /\ \A n \in DOMAIN fate : fate[n].cmd \in Invocable /\ fate[n].what \in Outcomes
    /\ \A place \in DOMAIN store :
          /\ place[1] \in 0 .. Len(fate)
          /\ \A row \in store[place].rows : row.key \in KeysOf(store[place].manifest.of)
    /\ overlapped \subseteq DOMAIN store
    /\ budget \in [edit : 0 .. MaxEdits, fault : 0 .. MaxFaults]

\* Whatever was reused, resumed, edited or running at the same time, a result
\* rests on complete runs of exactly what its command asked for: every item, as
\* it was when the command read it, from the models, the prompt and the number
\* of replicates of the config it read (the run identity of runner.py, C1).
ResultIsOfWhatWasAsked ==
    report # None => \A i \in DOMAIN report.asked :
        LET r == report.asked[i]
            rows == report.runs[i].rows
        IN  /\ {row.key : row \in rows} = KeysOf(r)
            /\ \A row \in rows : /\ row.text = r.items[row.key[1]]
                                  /\ row.model = r.model /\ row.judge = r.judge
                                  /\ row.prompt = r.prompt

\* No (item, replicate) of a run has two rows, unless two processes had its
\* directory open at once: nothing keeps them apart.  A call whose row a kill took
\* leaves none, and is made again.
OnlyOverlapsMeasureTwice ==
    \A place \in DOMAIN store \ overlapped :
        \A q, r \in store[place].rows : q.key = r.key => q = r

\* gate, and a baseline, only ever rest on what this invocation measured itself,
\* with the code it runs (finding F2 of cli.py).
GateMeasuresAfresh ==
    report # None /\ Gates(report.cmd) =>
        \A i \in DOMAIN report.runs :
            /\ report.runs[i].manifest.rubric = report.build.rubric
            /\ \A row \in report.runs[i].rows : row.by = report.n /\ row.rubric = report.build.rubric

\* What a --dataset invocation measured is in no reportable report, no gate
\* decision and no baseline, even if it named the golden file itself.
DevNumbersStayDev ==
    report # None /\ Reportable(report.cmd) /\ report.cmd.name # "calibrate" =>
        \A i \in DOMAIN report.runs : \A row \in report.runs[i].rows : row.official

MeasuredBy(n) == UNION {{row \in store[place].rows : row.by = n} : place \in DOMAIN store}

\* A gate without a certificate, a reportable command without tracing and a gate
\* or a calibration with bad inputs have not measured anything when they stop.
RefusalsCostNothing ==
    \A n \in DOMAIN fate :
        \/ fate[n].what \in {"no tracing", "bad inputs"}
        \/ fate[n].what = "no certificate" /\ Gates(fate[n].cmd)
        \/ fate[n].what = "no key" /\ fate[n].cmd.name = "update"
        => MeasuredBy(n) = {}

\* place belongs to a gate that reaches its verdict in this step and was not told
\* to keep its runs.
VerdictRemoves(place) ==
    /\ place[1] # 0
    /\ fate[place[1]].what = "running"
    /\ fate'[place[1]].what \in {"done", "failed"}
    /\ ~fate[place[1]].cmd.keep

\* A gate's directories go with its verdict, whichever way that went, and nothing
\* else is ever removed: the evidence behind an error, an abort or a kill stays,
\* and so does what other gates and commands measure at the same time
\* (_gate_clean_exit).  What a repair of the tail may take is not in this module.
EvidenceIsKept ==
    [][\A place \in DOMAIN store :
         IF VerdictRemoves(place) THEN place \notin DOMAIN store'
         ELSE place \in DOMAIN store' /\ store[place].rows \subseteq store'[place].rows]_vars

\* A missing API key stops a gate strictly before any measurement is attempted
\* (the comment on _GATE_MEASUREMENT_ERRORS in cli.py).  It does not: the second
\* candidate's key is looked for after the first candidate has been measured.
SetupErrorsCostNothing ==
    \A n \in DOMAIN fate :
        fate[n].what = "no key" /\ Gates(fate[n].cmd) => MeasuredBy(n) = {}
=============================================================================
