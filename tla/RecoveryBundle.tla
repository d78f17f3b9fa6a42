--------------------------- MODULE RecoveryBundle --------------------------
(***************************************************************************)
(* Evidence bundles of runtime files (operations/recovery_bundle.py): every*)
(* selected file is read, copied, and read again before the manifest is    *)
(* published, while the workers that own the files go on writing them.     *)
(* A file is its content and its identity (device, inode, size and times); *)
(* a write may keep the identity, when the clock of the file system is too *)
(* coarse or the times are set back.  A digest stands for a content.  A    *)
(* read returns a content the file had while it was read.  The rules about *)
(* paths, names, sizes, space and credentials only refuse a bundle.        *)
(***************************************************************************)
EXTENDS Integers, Sequences, FiniteSets

CONSTANTS Selected,    \* the selected files, in order
          MaxWrites,
          Contents
ASSUME BundleAssumption ==
    /\ MaxWrites \in Nat /\ Contents # {}
    /\ Len(Selected) \in Nat \ {0} /\ DOMAIN Selected = 1..Len(Selected)

VARIABLES runtime,    \* file -> its content and identity
          past,       \* history: every state the files have been in, in order
          stage,      \* what create_bundle is doing
          at,         \* the file it has come to
          before,     \* the identity a read in progress started with, and when
          captured,   \* file -> what the first pass read
          bundle,     \* the bundle directory: payloads and manifest
          marks,      \* history: the moments the bundle was begun, came between its passes, was done
          veiled,     \* history: the files written meanwhile with their identity kept
          restored    \* the isolated files of a restore, and its confirmation

bundleVars == <<runtime, past, stage, at, before, captured, bundle, marks, veiled, restored>>

Paths == {Selected[i] : i \in DOMAIN Selected}
Nothing == [payloads |-> <<>>, manifest |-> <<>>]
NoRestore == [files |-> <<>>, confirmed |-> FALSE]
NoRead == [id |-> 0, since |-> 0]
NotBegun == [begun |-> 0, between |-> 0, done |-> 0]
ContentOf(f) == [p \in Paths |-> f[p].content]

BundleInit ==
    /\ runtime = [p \in Paths |-> [content |-> CHOOSE c \in Contents : TRUE, id |-> 1]]
    /\ past = <<ContentOf(runtime)>>
    /\ stage = "idle" /\ at = 1 /\ before = NoRead /\ captured = <<>> /\ bundle = Nothing /\ marks = NotBegun /\ veiled = {}
    /\ restored = NoRestore

\* The worker that owns a file replaces or appends to it, at any time.
Bundling == stage \notin {"idle", "refused"}
WorkerWrites(p, c, keepsIdentity) ==
    /\ Len(past) <= MaxWrites
    /\ runtime' = [runtime EXCEPT ![p] = [content |-> c, id |-> IF keepsIdentity THEN @.id ELSE @.id + 1]]
    /\ past' = Append(past, ContentOf(runtime'))
    /\ veiled' = IF keepsIdentity /\ Bundling THEN veiled \cup {p} ELSE veiled
    /\ UNCHANGED <<stage, at, before, captured, bundle, marks, restored>>

BeginBundle ==
    /\ stage = "idle" /\ bundle = Nothing
    /\ stage' = "capture" /\ at' = 1 /\ before' = NoRead /\ captured' = <<>>
    /\ marks' = [NotBegun EXCEPT !.begun = Len(past)] /\ veiled' = {}
    /\ UNCHANGED <<runtime, past, bundle, restored>>

\* _read: the identity, the content, and the identity again.
OpenFile ==
    /\ stage \in {"capture", "recheck"} /\ at <= Len(Selected) /\ before = NoRead
    /\ before' = [id |-> runtime[Selected[at]].id, since |-> Len(past)]
    /\ UNCHANGED <<runtime, past, stage, at, captured, bundle, marks, veiled, restored>>
ReadContent(c) ==
    before # NoRead /\ \E t \in before.since .. Len(past) : c = past[t][Selected[at]]

Refuse ==
    /\ stage' = "refused" /\ before' = NoRead
    /\ UNCHANGED <<runtime, past, at, captured, bundle, marks, veiled, restored>>
Unchanged(p) == runtime[p].id = before.id

CaptureFile(c) ==
    /\ stage = "capture" /\ ReadContent(c)
    /\ LET p == Selected[at] IN
       IF ~Unchanged(p) THEN Refuse
       ELSE /\ captured' = [q \in DOMAIN captured \cup {p} |-> IF q = p THEN [id |-> before.id, content |-> c] ELSE captured[q]]
            /\ before' = NoRead
            /\ IF at < Len(Selected) THEN at' = at + 1 /\ UNCHANGED <<stage, marks>>
               ELSE at' = 1 /\ stage' = "copy" /\ marks' = [marks EXCEPT !.between = Len(past)]
            /\ UNCHANGED <<runtime, past, bundle, veiled, restored>>

\* All payloads are written before the second pass.
WritePayloads ==
    /\ stage = "copy" /\ stage' = "recheck"
    /\ bundle' = [bundle EXCEPT !.payloads = [p \in Paths |-> captured[p].content]]
    /\ UNCHANGED <<runtime, past, at, before, captured, marks, veiled, restored>>

SameAsCaptured(p, c) == before.id = captured[p].id /\ c = captured[p].content
RecheckFile(c) ==
    /\ stage = "recheck" /\ ReadContent(c)
    /\ LET p == Selected[at] IN
       IF ~Unchanged(p) \/ ~SameAsCaptured(p, c) THEN Refuse
       ELSE /\ before' = NoRead
            /\ IF at < Len(Selected) THEN at' = at + 1 /\ UNCHANGED stage ELSE at' = 1 /\ stage' = "list"
            /\ UNCHANGED <<runtime, past, captured, bundle, marks, veiled, restored>>

\* The manifest is written last, then the whole bundle verified.
PublishManifest ==
    /\ stage = "list" /\ stage' = "idle"
    /\ bundle' = [bundle EXCEPT !.manifest = ContentOf(captured)]
    /\ marks' = [marks EXCEPT !.done = Len(past)]
    /\ UNCHANGED <<runtime, past, at, before, captured, veiled, restored>>

\* A refusal, a failing call or a crash leaves what was written so far: the
\* directory exists, so it is not used again.
BundlerStops ==
    Bundling /\ Refuse

\* A stored payload decays.
PayloadDecays(p) ==
    /\ p \in DOMAIN bundle.payloads /\ bundle.payloads[p] # "decayed"
    /\ bundle' = [bundle EXCEPT !.payloads[p] = "decayed"]
    /\ UNCHANGED <<runtime, past, stage, at, before, captured, marks, veiled, restored>>

VerifiesBundle(b) == b.manifest # <<>> /\ \A p \in Paths : p \in DOMAIN b.payloads /\ b.payloads[p] = b.manifest[p]

\* restore_bundle: each payload is compared as it is copied, the copies and the
\* bundle once more at the end; a failure leaves the files without confirmation.
RestoreFile(p) ==
    /\ ~restored.confirmed /\ bundle.manifest # <<>> /\ stage = "idle"
    /\ restored.files = <<>> => VerifiesBundle(bundle)
    /\ p \notin DOMAIN restored.files /\ bundle.payloads[p] = bundle.manifest[p]
    /\ restored' = [restored EXCEPT !.files =
                       [q \in DOMAIN restored.files \cup {p} |-> IF q = p THEN bundle.payloads[p] ELSE restored.files[q]]]
    /\ UNCHANGED <<runtime, past, stage, at, before, captured, bundle, marks, veiled>>
ConfirmBundle ==
    /\ ~restored.confirmed /\ DOMAIN restored.files = Paths /\ stage = "idle"
    /\ \A p \in Paths : restored.files[p] = bundle.manifest[p]
    /\ VerifiesBundle(bundle)
    /\ restored' = [restored EXCEPT !.confirmed = TRUE]
    /\ UNCHANGED <<runtime, past, stage, at, before, captured, bundle, marks, veiled>>

BundleNext ==
    \/ \E p \in Paths, c \in Contents, keepsIdentity \in BOOLEAN : WorkerWrites(p, c, keepsIdentity)
    \/ BeginBundle \/ OpenFile \/ WritePayloads \/ PublishManifest \/ BundlerStops \/ ConfirmBundle
    \/ \E c \in Contents : CaptureFile(c) \/ RecheckFile(c)
    \/ \E p \in Paths : PayloadDecays(p) \/ RestoreFile(p)

BundleSpec == BundleInit /\ [][BundleNext]_bundleVars

-----------------------------------------------------------------------------
BundleTypeOK ==
    /\ stage \in {"idle", "capture", "copy", "recheck", "list", "refused"} /\ at \in DOMAIN Selected
    /\ DOMAIN captured \subseteq Paths /\ restored.confirmed \in BOOLEAN

\* A published manifest names for every file a content it had in the first pass
\* and again in the second, however the workers wrote meanwhile; and the files
\* whose writes all showed in their identity had those contents at one moment,
\* between the passes: of these the bundle never mixes a position of before with
\* a journal of after.  Of a file written with its identity kept nothing says
\* that it did not change and change back: cross_file_atomicity_verified is False.
AsWhileBundling(files) ==
    \A p \in Paths :
       /\ \E t \in marks.begun .. marks.between : past[t][p] = files[p]
       /\ \E t \in marks.between .. marks.done : past[t][p] = files[p]
       /\ p \notin veiled => past[marks.between][p] = files[p]

\* A confirmed restore holds exactly those contents, and a bundle that decays
\* later does not change them.
BundlesAreSound ==
    /\ bundle.manifest # <<>> => AsWhileBundling(bundle.manifest)
    /\ restored.confirmed => AsWhileBundling(restored.files)
=============================================================================
