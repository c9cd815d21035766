------------------------------- MODULE Decisions -------------------------------
(***************************************************************************)
(* The pure decisions of the program: each behaviour is one input of one   *)
(* of them, tagged with its kind, and nothing changes afterwards.          *)
(***************************************************************************)
EXTENDS FaceMatching, FacePipeline, UploadRules, BulkImports, AttendanceReads

CONSTANT Inputs  \* the inputs that are looked at

VARIABLE input

(***************************************************************************)
(* What the callers hand over.                                             *)
(***************************************************************************)
CandidateRows == [student : Nat, dimension : Nat, similarity : Int]

MatchInputs == [kind : {"match"}, dimension : Nat, candidates : Seq(CandidateRows)]

PairInputs ==
    [kind : {"pairs"}, dimension : Nat, pairs : Seq([genuine : BOOLEAN, similarity : Int])]

\* One axis of a detected row, in half pixels, and the pixels of the image.
BoxInputs ==
    [kind : {"box"}, at : Int \cup {NotFinite}, extent : Int \cup {NotFinite},
     size : 1 .. MaxDimension]

Loading == {"ready", "FaceProviderUnavailable", "ModelArtifactMissing",
            "ModelArtifactChecksumMismatch"}

\* What the loaded models do with one image.
Models ==
    [detector : Loading, detects : BOOLEAN,
     faces : Seq([landmarks : Nat, estimable : BOOLEAN]),
     embedder : Loading, infers : BOOLEAN, descriptor : Seq(Int \cup {NotFinite})]

PhotoInputs ==
    [kind : {"photo"}, models : Models,
     image : [stored : BOOLEAN, decodes : BOOLEAN, width : Int, height : Int]]

Outcomes == {"ok", "bomb", "broken"}

ImageInputs ==
    [kind : {"image"}, type : STRING,
     image : [bytes : Nat, header : Outcomes, declared : Int \X Int, stream : Outcomes,
              body : Outcomes, format : STRING, size : Int \X Int, frames : Nat \ {0}]]

PathFindings ==
    {"safe", "ZIP_MEMBER_INVALID_PATH", "ZIP_MEMBER_BACKSLASH_PATH",
     "ZIP_MEMBER_ABSOLUTE_PATH", "ZIP_MEMBER_DRIVE_PATH", "ZIP_MEMBER_PATH_TRAVERSAL"}

Members ==
    [name : STRING, path : PathFindings, directory : BOOLEAN, encrypted : BOOLEAN,
     symlink : BOOLEAN, size : Nat, compressed : Nat, holds : Nat,
     kind : {"image", "manifest", "archive", "other"}]

ArchiveInputs ==
    [kind : {"archive"}, members : Seq(Members), bytes : Nat, readable : BOOLEAN,
     rows : Seq([student : STRING, file : STRING])]

ImportFiles ==
    [bytes : Nat, extension : STRING, readable : BOOLEAN, headers : Seq(STRING),
     rows : Seq(Seq(STRING))]

\* The table holds rows that an earlier import, or a request, has created.
IsImport(i) ==
    /\ i.file \in ImportFiles
    /\ i.table \in Seq(ToSet(i.table))
    /\ \A row \in ToSet(i.table) : DOMAIN row \subseteq Columns /\ Valid(row)

RegisterRows ==
    [student : Students, classroom : Rooms, date : Dates, status : {"present", "absent"}]

RegisterProfiles ==
    [Students -> [active : BOOLEAN, classroom : Rooms \cup {None}, roll : Nat]]

RegisterInputs ==
    {i \in [kind : {"register"}, rows : SUBSET RegisterRows, profile : RegisterProfiles] :
        IsFiniteSet(i.rows) /\ OneRowPerDay(i.rows)}

LimitsAreNatural ==
    /\ MaxPixels \in Nat /\ MaxSide \in Nat /\ MaxImageBytes \in Nat /\ MaxProbeBytes \in Nat
    /\ MaxFiles \in Nat /\ MaxTotalBytes \in Nat /\ MaxRatio \in Nat /\ MaxManifestBytes \in Nat

ASSUME MatchingAssumption == Threshold \in Int /\ Margin \in Nat /\ Nobody \notin
    [student : Nat, similarity : Int] \cup Nat
ASSUME PipelineAssumption ==
    /\ NotFinite \notin Int
    /\ MaxDimension \in Nat \ {0} /\ Dimension \in Nat \ {0} /\ Descriptor \in Nat
ASSUME LimitsAssumption == LimitsAreNatural
ASSUME InputsAssumption ==
    \A i \in Inputs :
        /\ i.kind = "match" => i \in MatchInputs
        /\ i.kind = "pairs" => i \in PairInputs
        /\ i.kind = "box" => i \in BoxInputs
        /\ i.kind = "photo" => i \in PhotoInputs
        /\ i.kind = "image" => i \in ImageInputs
        /\ i.kind = "archive" => i \in ArchiveInputs
        /\ i.kind = "import" => IsImport(i)
        /\ i.kind = "register" => i \in RegisterInputs

\* The register's tables are those of a "register" input, empty for the others.
DecisionsInit ==
    /\ input \in Inputs
    /\ rows = IF input.kind = "register" THEN input.rows ELSE {}
    /\ profile = IF input.kind = "register" THEN input.profile ELSE <<>>

DecisionsNext == UNCHANGED <<input, rows, profile>>

DecisionsSpec == DecisionsInit /\ [][DecisionsNext]_<<input, rows, profile>>

(***************************************************************************)
(* Properties.                                                             *)
(***************************************************************************)
\* A match is reported only for a unique best student at or above the threshold
\* and ahead of the next student by the margin, and the answer does not depend on
\* the order of the embeddings (FaceMatching: CosineSimilarityFaceMatcher.match).
MatchIsSafe ==
    input.kind = "match" => SafeMatch(input.dimension, input.candidates)

\* The offline false-accept, false-reject and ambiguity rates count exactly the
\* pairs the matcher would accept, reject or call ambiguous (FaceMatching:
\* compute_far_frr, threshold_sweep, ambiguity_rate).
RatesDescribeMatcher ==
    input.kind = "pairs" => RatesMatch(input.dimension, input.pairs)

\* Whatever numbers the detector returns, a face that is kept lies inside the
\* image and is not empty (FacePipeline: _row_to_detected_face).
DetectionsFitImage ==
    input.kind = "box" => FitsImage(input.at, input.extent, input.size)

\* Whatever the models return, an embedding that reaches the database is one the
\* matcher can compare (FacePipeline: detect_align_embed).
StoredEmbeddingsComparable ==
    input.kind = "photo" => ComparableIfStored(input.models, input.image)

\* An accepted image is bounded in bytes and in pixels, as declared and as decoded,
\* whichever way it came in, and the ways agree (UploadRules: write_staged,
\* stream_member_to_path, validate_image_file, validate_probe_image_bytes).
AcceptedImageBounded ==
    input.kind = "image" => BoundedIfAccepted(input.image, input.type)

\* An accepted archive has one safe member for each manifest row and nothing the
\* enrollment would read past its limits (UploadRules: validate_archive).
AcceptedArchiveSound ==
    input.kind = "archive" =>
        SoundIfAccepted(input.members,
            [bytes |-> input.bytes, readable |-> input.readable, rows |-> input.rows])

\* An import repeated after it was interrupted at any row, or after it was not,
\* creates nothing twice and ends with the same table; every row is reported once
\* (BulkImports: import_file).
ImportsRepeatable == input.kind = "import" => RepeatableImport(input.table, input.file)

\* Daily, list, export and statistics views of one class count the same records
\* (AttendanceReads: AttendanceReadService).
StatisticsAgree == input.kind = "register" => ViewsAgree

\* The summary counts its details and the rows of the leaderboard, and the
\* defaulters are the end of the leaderboard (AttendanceReads: ReportsService).
ReportsAgree == input.kind = "register" => PeriodReportsAgree
=============================================================================
