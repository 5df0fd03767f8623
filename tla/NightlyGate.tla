----------------------------- MODULE NightlyGate -----------------------------
(***************************************************************************)
(* .github/workflows/nightly.yml and scripts/nightly_fingerprint.py: a     *)
(* night is skipped when the heads it reads are those of a run remembered  *)
(* as green.  The heads are read one by one, in one job, and cloned one by *)
(* one, later, in another; meanwhile anyone may push.                      *)
(*                                                                         *)
(* A commit is its position on its branch.  Runs may overlap, the workflow *)
(* having no concurrency group, and each occupies a slot.                  *)
(***************************************************************************)
EXTENDS Naturals, FiniteSets

CONSTANTS
  Repos,      \* the repositories of the manifest, and this one
  Self,       \* this one, whose commit is fixed when the run is triggered
  Slots,      \* BOUND on the runs in progress at once
  MaxCommits, \* BOUND on the commits of a branch
  MaxFaults   \* BOUND on the infrastructure's failures and the force-pushes

ASSUME GateAssumption ==
  /\ Self \in Repos
  /\ MaxCommits \in Nat /\ MaxFaults \in Nat

VARIABLES
  heads,     \* repo -> commit its branch points to
  cache,     \* the fingerprints actions/cache holds
  phase,     \* slot -> where the run is
  seen,      \* slot -> the heads the fingerprint has read so far
  built,     \* slot -> the commits its toolchain is built from
  last,      \* verdict of the last regression job that ended
  faults,    \* of the infrastructure, and force-pushes, so far
  rewound,   \* history: a branch was force-pushed back to an older commit
  green,     \* history: [key, built] of every green run
  attempted  \* history: the commit vectors a run has built and tested

vars ==
  <<heads, cache, phase, seen, built, last, faults, rewound, green, attempted>>

-----------------------------------------------------------------------------
Commits == 0..MaxCommits
Unread == MaxCommits + 1
Vectors == [Repos -> Commits]
Partial == [Repos -> Commits \cup {Unread}]
Events == {"schedule", "sunday", "dispatch"}
Running == {"fingerprint", "decide", "build", "test", "save"}

Nothing == [p \in Repos |-> Unread]
OnlySelf == [Nothing EXCEPT ![Self] = heads[Self]]
\* A run that is over leaves nothing behind in its slot.
Forget(s) ==
  /\ phase' = [phase EXCEPT ![s] = "done"]
  /\ seen' = [seen EXCEPT ![s] = Nothing]
  /\ built' = [built EXCEPT ![s] = Nothing]

Complete(vector) == \A p \in Repos : vector[p] # Unread
NoOlder(v, w) == \A p \in Repos : v[p] <= w[p]

\* MUTANT: the fingerprint leaves the commit of this repository out.
Key_NoSelf(slot) == [seen[slot] EXCEPT ![Self] = 0]

\* The cache key: a hash of every line nightly_fingerprint.py printed.
Key(slot) == seen[slot]

-----------------------------------------------------------------------------
Init ==
  /\ heads = [p \in Repos |-> 0]
  /\ cache = {}
  /\ phase = [s \in Slots |-> "done"]
  /\ seen = [s \in Slots |-> Nothing]
  /\ built = [s \in Slots |-> Nothing]
  /\ last = "none"
  /\ faults = 0
  /\ rewound = FALSE
  /\ green = {}
  /\ attempted = {}

Push(p) ==
  /\ heads[p] < MaxCommits
  /\ heads' = [heads EXCEPT ![p] = @ + 1]
  /\ UNCHANGED <<rewound, cache, phase, seen, built, last, faults, green, attempted>>

\* A force-push that takes commits off a branch.
Rewind(p) ==
  /\ heads[p] > 0
  /\ heads' = [heads EXCEPT ![p] = @ - 1]
  /\ faults < MaxFaults
  /\ faults' = faults + 1
  /\ rewound' = TRUE
  /\ UNCHANGED <<cache, phase, seen, built, last, green, attempted>>

\* The cron entry or workflow_dispatch: both jobs check out GITHUB_SHA.
Trigger(s) ==
  /\ phase[s] \notin Running
  /\ phase' = [phase EXCEPT ![s] = "fingerprint"]
  /\ seen' = [seen EXCEPT ![s] = OnlySelf]
  /\ built' = [built EXCEPT ![s] = OnlySelf]
  /\ UNCHANGED <<rewound, heads, cache, last, faults, green, attempted>>

\* One `git ls-remote`.
ReadHead(s, p) ==
  /\ phase[s] = "fingerprint"
  /\ seen[s][p] = Unread
  /\ seen' = [seen EXCEPT ![s] = [@ EXCEPT ![p] = heads[p]]]
  /\ UNCHANGED <<rewound, heads, cache, phase, built, last, faults, green, attempted>>

Fingerprinted(s) ==
  /\ phase[s] = "fingerprint"
  /\ Complete(seen[s])
  /\ phase' = [phase EXCEPT ![s] = "decide"]
  /\ UNCHANGED <<rewound, heads, cache, seen, built, last, faults, green, attempted>>

\* The step fails (network, pip, a ref that is gone): continue-on-error, no key.
FingerprintFails(s) ==
  /\ phase[s] = "fingerprint"
  /\ faults < MaxFaults
  /\ faults' = faults + 1
  /\ phase' = [phase EXCEPT ![s] = "decide"]
  /\ seen' = [seen EXCEPT ![s] = Nothing]
  /\ UNCHANGED <<rewound, heads, cache, built, last, green, attempted>>

Skips(s, started) ==
  started = "schedule" /\ Complete(seen[s]) /\ Key(s) \in cache

\* The look-up and the decision; what started the run matters only here.
Decide(s) ==
  /\ phase[s] = "decide"
  /\ \E started \in Events :
       phase' = [phase EXCEPT ![s] = IF Skips(s, started) THEN "skipped" ELSE "build"]
  /\ UNCHANGED <<rewound, heads, cache, seen, built, last, faults, green, attempted>>

\* The look-up breaks, and with it the job `changes`: the regression still runs.
LookupFails(s) ==
  /\ phase[s] = "decide"
  /\ faults < MaxFaults
  /\ faults' = faults + 1
  /\ phase' = [phase EXCEPT ![s] = "build"]
  /\ UNCHANGED <<rewound, heads, cache, seen, built, last, green, attempted>>

\* clone_ref of build_toolchain.py: whatever the branch points to now.
Clone(s, p) ==
  /\ phase[s] = "build"
  /\ built[s][p] = Unread
  /\ built' = [built EXCEPT ![s] = [@ EXCEPT ![p] = heads[p]]]
  /\ UNCHANGED <<rewound, heads, cache, phase, seen, last, faults, green, attempted>>

Built(s) ==
  /\ phase[s] = "build"
  /\ Complete(built[s])
  /\ phase' = [phase EXCEPT ![s] = "test"]
  /\ attempted' = attempted \cup {built[s]}
  /\ UNCHANGED <<rewound, heads, cache, seen, built, last, faults, green>>

\* MUTANT: the fingerprint is computed again when it is saved.
Save_Recomputed(s) ==
  /\ phase[s] = "save"
  /\ cache' = cache \cup {heads}
  /\ Forget(s)
  /\ UNCHANGED <<rewound, heads, last, faults, green, attempted>>

\* MUTANT: the fingerprint is saved under `if: always()`.
Test_AlwaysSave(s) ==
  /\ phase[s] = "test"
  /\ \E verdict \in {"green", "red"} :
       /\ last' = verdict
       /\ green' = IF verdict = "green"
                   THEN green \cup {[key |-> seen[s], built |-> built[s]]} ELSE green
  /\ phase' = [phase EXCEPT ![s] = "save"]
  /\ UNCHANGED <<rewound, heads, cache, seen, built, faults, attempted>>

\* Builds, CTest, the two regressions, the page and the upload of the reports: one
\* verdict for all of them, red as soon as one step fails (NightlyJob has them).
Test(s) ==
  /\ phase[s] = "test"
  /\ \/ /\ phase' = [phase EXCEPT ![s] = "save"]
        /\ last' = "green"
        /\ green' = green \cup {[key |-> seen[s], built |-> built[s]]}
        /\ UNCHANGED <<seen, built>>
     \/ /\ Forget(s)
        /\ last' = "red"
        /\ UNCHANGED green
  /\ UNCHANGED <<rewound, heads, cache, faults, attempted>>

\* success() && key != ''.
Save(s) ==
  /\ phase[s] = "save"
  /\ cache' = IF Complete(seen[s]) THEN cache \cup {Key(s)} ELSE cache
  /\ Forget(s)
  /\ UNCHANGED <<rewound, heads, last, faults, green, attempted>>

\* The run is cancelled anywhere, or the runner of the regression is lost.  A lost
\* runner of `changes` does not end the run (nightly.yml:71): the regression runs
\* with an empty key, which is FingerprintFails.
Lost(s) ==
  /\ phase[s] \in Running
  /\ faults < MaxFaults
  /\ faults' = faults + 1
  /\ Forget(s)
  /\ last' = IF phase[s] \in {"build", "test"} THEN "red" ELSE last
  /\ UNCHANGED <<rewound, heads, cache, green, attempted>>

\* The cache drops an entry that was not used for a while.
Evict ==
  /\ \E key \in cache : cache' = cache \ {key}
  /\ UNCHANGED <<rewound, heads, phase, seen, built, last, faults, green, attempted>>

Advance(s) ==
  \/ Fingerprinted(s) \/ Decide(s) \/ Built(s) \/ Test(s) \/ Save(s)
  \/ \E p \in Repos : ReadHead(s, p) \/ Clone(s, p)

Next ==
  \/ \E p \in Repos : Push(p) \/ Rewind(p)
  \/ \E s \in Slots :
       \/ Trigger(s) \/ Advance(s)
       \/ FingerprintFails(s) \/ LookupFails(s) \/ Lost(s)
  \/ Evict

Spec == Init /\ [][Next]_vars

\* A night comes after every night, and a run that is not lost goes on.
FairSpec ==
  Spec /\ \A s \in Slots : WF_vars(Trigger(s)) /\ WF_vars(Advance(s))

-----------------------------------------------------------------------------
(* Properties. *)

TypeOK ==
  /\ heads \in Vectors
  /\ cache \subseteq Vectors
  /\ phase \in [Slots -> Running \cup {"skipped", "done"}]
  /\ seen \in [Slots -> Partial]
  /\ built \in [Slots -> Partial]
  /\ last \in {"none", "green", "red"}
  /\ faults \in 0..MaxFaults
  /\ rewound \in BOOLEAN
  /\ green \subseteq [key : Partial, built : Partial]
  /\ attempted \subseteq Vectors

\* What a run has read or cloned is not ahead of the branch, and what it cloned
\* is not behind what it had read: cloning comes after, and, until one is
\* rewound, branches only grow.
ReadsInOrder ==
  \A s \in Slots, p \in Repos :
    /\ phase[s] = "fingerprint" =>
         IF p = Self THEN seen[s][p] # Unread ELSE built[s][p] = Unread
    /\ ~rewound =>
         /\ seen[s][p] # Unread => seen[s][p] <= heads[p]
         /\ built[s][p] # Unread => built[s][p] <= heads[p]
         /\ seen[s][p] # Unread /\ built[s][p] # Unread => seen[s][p] <= built[s][p]

\* What is tested has been built.
TestsWhatItBuilt ==
  \A s \in Slots : phase[s] \in {"test", "save"} => built[s] \in attempted

\* A remembered fingerprint is that of a green run, which tested commits no
\* older than it.
RememberedIsGreen ==
  /\ \A g \in green :
       /\ g.built \in attempted
       /\ ~rewound => /\ NoOlder(g.built, heads)
                      /\ Complete(g.key) => NoOlder(g.key, g.built)
  /\ \A key \in cache : \E g \in green : g.key = key
  /\ \A s \in Slots : phase[s] = "save" =>
       [key |-> seen[s], built |-> built[s]] \in green

SkippedIsRemembered ==
  \A s \in Slots : phase[s] = "skipped" =>
    Complete(seen[s]) /\ \E g \in green : g.key = seen[s]

GateInv ==
  /\ TypeOK /\ ReadsInOrder /\ TestsWhatItBuilt
  /\ RememberedIsGreen /\ SkippedIsRemembered

\* A night is skipped only if a green run has tested every repository at the
\* commit this night read or a later one, although neither the reads nor the
\* clones are atomic and runs overlap.
SkipIsSafe ==
  \A s \in Slots : ~rewound /\ phase[s] = "skipped" =>
    \E g \in green : NoOlder(seen[s], g.built) /\ NoOlder(g.built, heads)

\* The header of nightly.yml and the docstring of nightly_fingerprint.py: when
\* nothing moved, the run that is skipped would have tested what a green run
\* has tested.  A force-push breaks it: the run whose fingerprint is remembered
\* may have cloned commits that are gone.
NothingUntested ==
  \A s \in Slots : ~rewound /\ phase[s] = "skipped" /\ seen[s] = heads =>
    \E g \in green : g.built = heads

\* Whatever is skipped, forgotten or lost, the commits the branches come to rest
\* at are built and tested by some night, when none was rewound.
RestingHeadsAreTested == <>[](~rewound => heads \in attempted)

\* nightly.yml: "Only a fully green run is remembered: after a failure the next
\* night runs again."
FailureRunsAgain ==
  [][\A s \in Slots :
       phase[s] = "decide" /\ phase'[s] = "skipped" => last # "red"]_vars

=============================================================================
