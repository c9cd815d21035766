----------------------------- MODULE UploadRules -----------------------------
(***************************************************************************)
(* What may be uploaded: the checks of one image (image_validation.py,     *)
(* shared by the three ways an image comes in) and of a whole archive      *)
(* (zip_security.py) before any member of it is extracted.  An image is    *)
(* described by what Pillow says of it, a member by its directory entry    *)
(* and by the bytes it really holds.                                       *)
(***************************************************************************)
EXTENDS Integers, Sequences, FiniteSets, FiniteSetsExt

CONSTANTS
    MaxPixels,       \* MAX_ENROLLMENT_IMAGE_PIXELS
    MaxSide,         \* MAX_ENROLLMENT_IMAGE_DIMENSION_PX
    MaxImageBytes,   \* MAX_ENROLLMENT_IMAGE_BYTES
    MaxProbeBytes,   \* _MAX_PROBE_IMAGE_BYTES
    MaxFiles,        \* MAX_BULK_ENROLLMENT_FILES
    MaxTotalBytes,   \* MAX_BULK_ENROLLMENT_TOTAL_UNCOMPRESSED_BYTES
    MaxRatio,        \* MAX_BULK_ENROLLMENT_COMPRESSION_RATIO
    MaxManifestBytes \* _MANIFEST_MAX_BYTES

(***************************************************************************)
(* One image.                                                              *)
(***************************************************************************)
Formats == {"JPEG", "PNG", "WEBP"}

\* What a Content-Type header claims; other types and a missing one claim nothing.
Claims(type) ==
    CASE type \in {"image/jpeg", "image/jpg"} -> {"JPEG"}
      [] type = "image/png" -> {"PNG"}
      [] type = "image/webp" -> {"WEBP"}
      [] OTHER -> {}

\* Opening, verifying and decoding each fail with Pillow's bomb guard or a decode error.
Opened(outcome) ==
    CASE outcome = "ok" -> {} [] outcome = "bomb" -> {"too_large"} [] OTHER -> {"decode"}

Oversized(width, height) ==
    IF width <= 0 \/ height <= 0 THEN {"dimensions_invalid"}
    ELSE IF width > MaxSide \/ height > MaxSide \/ width * height > MaxPixels THEN {"too_large"}
    ELSE {}

First(stages) ==
    LET failing == {i \in DOMAIN stages : stages[i] # {}}
    IN  IF failing = {} THEN {} ELSE stages[Min(failing)]

\* Before any pixel is decoded.
Declared(image) == Oversized(image.declared[1], image.declared[2])

\* The rejection kind of _validate_decoded_bytes, {} for an accepted image.
Rejection(image, type) ==
    First(<<IF image.bytes = 0 THEN {"empty"} ELSE {},
            Opened(image.header),
            Declared(image),
            Opened(image.stream),
            Opened(image.body),
            IF image.format \in Formats THEN {} ELSE {"format"},
            Oversized(image.size[1], image.size[2]),
            IF image.frames > 1 THEN {"animated"} ELSE {},
            IF Claims(type) \subseteq {image.format} THEN {} ELSE {"mime_mismatch"}>>)

\* The two vocabularies the kinds are translated to.
EnrollmentErrors ==
    [empty |-> "EnrollmentImageEmpty", decode |-> "EnrollmentImageDecode",
     format |-> "EnrollmentImageFormatNotAllowed",
     dimensions_invalid |-> "EnrollmentImageDimensionsInvalid",
     too_large |-> "EnrollmentImageTooLargeDimensions",
     animated |-> "EnrollmentImageAnimatedNotAllowed",
     mime_mismatch |-> "EnrollmentImageMimeMismatch"]

ProbeErrors ==
    [empty |-> "MatchProbeImageEmpty", decode |-> "MatchProbeImageDecode",
     format |-> "MatchProbeImageFormatNotAllowed",
     dimensions_invalid |-> "MatchProbeImageDimensionsInvalid",
     too_large |-> "MatchProbeImageDimensionsTooLarge",
     animated |-> "MatchProbeImageAnimatedNotAllowed",
     mime_mismatch |-> "MatchProbeImageMimeMismatch"]

ValidateImageFile(image, type) == {EnrollmentErrors[k] : k \in Rejection(image, type)}

ValidateProbe(image, type) == {ProbeErrors[k] : k \in Rejection(image, type)}

\* The three ways in, each with a limit on what it reads: a sample uploaded by
\* itself, a member of an archive (for which nothing claims a type), a probe.
UploadSample(image, type) ==
    IF image.bytes > MaxImageBytes THEN {"EnrollmentImageTooLarge"}
    ELSE ValidateImageFile(image, type)

StageMember(image) ==
    IF image.bytes > MaxImageBytes THEN {"ROW_MEMBER_READ_FAILED"}
    ELSE ValidateImageFile(image, "")

\* Mutant: the limit is on what is read, not on what was sent.
ProbeCutOff(image, type) == ValidateProbe(image, type)

ReceiveProbe(image, type) ==
    IF image.bytes > MaxProbeBytes THEN {"MatchProbeImageTooLarge"}
    ELSE ValidateProbe(image, type)

(***************************************************************************)
(* The members of an archive, in the order of its directory.               *)
(***************************************************************************)
\* Compared without division; a member that claims to compress to nothing is
\* beyond every ratio.
BeyondRatio(m) == m.size > 0 /\ m.size > MaxRatio * m.compressed

\* The code of the first check a member fails, or what the member is.
Verdict(m, seen) ==
    IF m.directory THEN "directory"
    ELSE IF m.path # "safe" THEN m.path
    ELSE IF m.name \in seen THEN "ZIP_MEMBER_DUPLICATE_PATH"
    ELSE IF m.encrypted THEN "ZIP_MEMBER_ENCRYPTED"
    ELSE IF m.symlink THEN "ZIP_MEMBER_SYMLINK"
    ELSE IF BeyondRatio(m) THEN "ZIP_MEMBER_SUSPICIOUS_COMPRESSION_RATIO"
    ELSE IF m.kind = "manifest"
         THEN IF m.size > MaxManifestBytes THEN "ZIP_MANIFEST_TOO_LARGE" ELSE "manifest"
    ELSE IF m.kind = "archive" THEN "ZIP_MEMBER_NESTED_ARCHIVE"
    ELSE IF m.kind = "other" THEN "ZIP_MEMBER_UNSUPPORTED_EXTENSION"
    ELSE IF m.size <= 0 THEN "ZIP_MEMBER_EMPTY"
    ELSE IF m.size > MaxImageBytes THEN "ZIP_MEMBER_TOO_LARGE"
    ELSE "image"

Harmless == {"directory", "manifest", "image"}

\* Members whose size counts towards the total, and as files.
Weighed(m, seen) ==
    ~m.directory /\ m.path = "safe" /\ m.name \notin seen /\ ~m.encrypted /\ ~m.symlink

CountedFile(m, seen) == Weighed(m, seen) /\ ~BeyondRatio(m) /\ m.kind # "manifest"

\* Names met before position i; unsafe names are never looked at.
Seen(members, i) ==
    {members[j].name : j \in {n \in 1 .. i - 1 : ~members[n].directory /\ members[n].path = "safe"}}

Positions(members, verdict) ==
    {i \in DOMAIN members : Verdict(members[i], Seen(members, i)) = verdict}

\* The running total over the members whose position is in S.
Size(members, S) ==
    LET total[n \in 0 .. Len(members)] ==
            IF n = 0 THEN 0
            ELSE IF n \in S THEN total[n - 1] + members[n].size ELSE total[n - 1]
    IN  total[Len(members)]

TotalBytes(members) ==
    Size(members, {i \in DOMAIN members : Weighed(members[i], Seen(members, i))})

FileCount(members) ==
    Cardinality({i \in DOMAIN members : CountedFile(members[i], Seen(members, i))})

MemberErrors(members) ==
    {Verdict(members[i], Seen(members, i)) : i \in DOMAIN members} \ Harmless

ArchiveErrors(members) ==
    (IF FileCount(members) > MaxFiles THEN {"ZIP_TOO_MANY_FILES"} ELSE {})
    \cup (IF TotalBytes(members) > MaxTotalBytes THEN {"ZIP_TOTAL_UNCOMPRESSED_TOO_LARGE"} ELSE {})

(***************************************************************************)
(* The manifest.  Blank and malformed values are "".                       *)
(***************************************************************************)
ValidMembers(members) == {members[i].name : i \in Positions(members, "image")}

\* Mutant: only files are told apart.
RepeatedFile(rows, n, kept, column) ==
    column = "file" /\ \E k \in kept : rows[k].file = rows[n].file

Repeated(rows, n, kept, column) == \E k \in kept : rows[k][column] = rows[n][column]

\* What is wrong with row n, given the earlier rows that were kept.
RowError(rows, n, kept, valid) ==
    IF "" \in {rows[n].student, rows[n].file} THEN "ZIP_MANIFEST_ROW_INCOMPLETE"
    ELSE IF rows[n].student = "malformed" THEN "ZIP_MANIFEST_ROW_INVALID_STUDENT_ID"
    ELSE IF Repeated(rows, n, kept, "student") THEN "ZIP_MANIFEST_DUPLICATE_STUDENT"
    ELSE IF Repeated(rows, n, kept, "file") THEN "ZIP_MANIFEST_DUPLICATE_FILENAME"
    ELSE IF rows[n].file \notin valid THEN "ZIP_MANIFEST_ROW_MISSING_FILE"
    ELSE "none"

ParseManifest(manifest, valid) ==
    LET rows == manifest.rows
        parsed[n \in 0 .. Len(rows)] ==
            IF n = 0 THEN [kept |-> {}, errors |-> {}]
            ELSE LET error == RowError(rows, n, parsed[n - 1].kept, valid)
                 IN  IF error = "none"
                     THEN [parsed[n - 1] EXCEPT !.kept = @ \cup {n}]
                     ELSE [parsed[n - 1] EXCEPT !.errors = @ \cup {error}]
    IN  IF manifest.readable THEN parsed[Len(rows)]
        ELSE [kept |-> {}, errors |-> {"ZIP_MANIFEST_INVALID"}]

Unreferenced(parsed, manifest, valid) ==
    IF valid \subseteq {manifest.rows[n].file : n \in parsed.kept}
    THEN {} ELSE {"ZIP_MEMBER_UNREFERENCED"}

\* validate_archive: the rows of an accepted archive, or the problems found.  A
\* manifest that unpacks to more than it announced ends the validation at once.
ValidateArchive(members, manifest) ==
    LET valid  == ValidMembers(members)
        parsed == ParseManifest(manifest, valid)
        found  == MemberErrors(members) \cup ArchiveErrors(members)
        errors == IF members = <<>> THEN {"empty_archive"}
                  ELSE IF Positions(members, "manifest") = {}
                       THEN found \cup {"ZIP_MANIFEST_MISSING"}
                  ELSE IF manifest.bytes > MaxManifestBytes
                       THEN {"ZIP_MEMBER_DECOMPRESSED_SIZE_EXCEEDED"}
                  ELSE found \cup parsed.errors \cup Unreferenced(parsed, manifest, valid)
    IN  [rows |-> IF errors = {} THEN parsed.kept ELSE {}, errors |-> errors]

\* stream_member_to_path: the file it leaves, -1 for none.
StreamMember(m) == IF m.holds > MaxImageBytes THEN -1 ELSE m.holds

(***************************************************************************)
(* What is promised of one image and of one archive.                       *)
(***************************************************************************)
\* An accepted image is within the limit on the bytes of the way it came in, and
\* within the others both in the header it was admitted by and in the pixels it
\* decodes to.  The three ways agree on every image small enough for both, but
\* for the type that is claimed: what one enrolls, another enrolls or matches.
BoundedIfAccepted(image, type) ==
    LET uploaded == UploadSample(image, type) = {}
        member   == StageMember(image) = {}
        probed   == ReceiveProbe(image, type) = {}
    IN
    /\ uploaded \/ member => image.bytes \in 1 .. MaxImageBytes
    /\ probed => image.bytes \in 1 .. MaxProbeBytes
    /\ uploaded <=> member /\ Claims(type) \subseteq {image.format}
    /\ image.bytes <= MaxImageBytes /\ image.bytes <= MaxProbeBytes => (uploaded <=> probed)
    /\ member \/ probed =>
          /\ \A size \in {image.declared, image.size} :
                size[1] \in 1 .. MaxSide /\ size[2] \in 1 .. MaxSide
                  /\ size[1] * size[2] <= MaxPixels
          /\ image.frames = 1
          /\ image.header = "ok" /\ image.stream = "ok" /\ image.body = "ok"

\* An accepted archive pairs its rows and its images one to one: each image
\* belongs to exactly one student, no two entries share a name, none is encrypted
\* or a link, and what it unpacks to is bounded as announced; every member that
\* is then extracted leaves at most MaxImageBytes, whatever size it announced.
SoundIfAccepted(members, manifest) ==
    LET result == ValidateArchive(members, manifest)
        files  == {i \in DOMAIN members : ~members[i].directory}
        images == {i \in files : members[i].kind # "manifest"}
        row(n) == manifest.rows[n]
    IN  result.errors = {} =>
          /\ result.rows = DOMAIN manifest.rows
          /\ \A i \in images : Cardinality({n \in result.rows : row(n).file = members[i].name}) = 1
          /\ \A n \in result.rows : \E i \in images : row(n).file = members[i].name
          /\ \A n, k \in result.rows : row(n).student = row(k).student => n = k
          /\ \A i, j \in files : members[i].name = members[j].name => i = j
          /\ \A i \in files : ~members[i].encrypted /\ ~members[i].symlink
          /\ \A i \in images : members[i].kind = "image" /\ StreamMember(members[i]) <= MaxImageBytes
          /\ Cardinality(images) <= MaxFiles
          /\ Size(members, files) <= MaxTotalBytes
=============================================================================
