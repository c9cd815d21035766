---------------------------- MODULE FacePipeline ----------------------------
(***************************************************************************)
(* From the bytes of one image to an embedding or a failure: decoding,     *)
(* the boxes and landmarks a YuNet row is turned into, alignment, the      *)
(* dlib descriptor, and the reason code a failed sample keeps.  Pixel      *)
(* coordinates are in half pixels, what rounding tells apart; a coordinate *)
(* a model reports may also be NotFinite.                                  *)
(***************************************************************************)
EXTENDS Integers, Sequences

CONSTANTS
    NotFinite,     \* nan or an infinity
    MaxDimension,  \* _MAX_DIMENSION_PX of the value objects
    Descriptor,    \* _EXPECTED_RAW_DIMENSION, the length of a dlib descriptor
    Dimension,     \* FACE_EMBEDDING_DIMENSION
    LandmarkCount  \* _EXPECTED_LANDMARK_COUNT

(***************************************************************************)
(* YuNetFaceDetector._row_to_detected_face, one axis of the image.         *)
(***************************************************************************)
\* Python's round: to the nearest integer, halves to the even one.
Round(h) ==
    IF h % 2 = 0 THEN h \div 2
    ELSE IF ((h - 1) \div 2) % 2 = 0 THEN (h - 1) \div 2 ELSE (h + 1) \div 2

Larger(a, b) == IF a < b THEN b ELSE a

Smaller(a, b) == IF b < a THEN b ELSE a

\* A value that is not finite becomes the lower end.
Clamp(v, low, high) == IF v = NotFinite THEN low ELSE Larger(low, Smaller(high, v))

Plus(v, w) == IF NotFinite \in {v, w} THEN NotFinite ELSE v + w

\* Mutant: the corner is rounded without making room for the rounded extent.
BoxRoundedApart(v, extent, size) ==
    LET start == Clamp(v, 0, 2 * size)
        end   == Clamp(Plus(v, extent), 0, 2 * size)
    IN  [at |-> Round(start), extent |-> Larger(1, Round(end - start))]

Box(v, extent, size) ==
    LET start   == Clamp(v, 0, 2 * size)
        end     == Clamp(Plus(v, extent), 0, 2 * size)
        clipped == Larger(1, Round(end - start))
    IN  [at |-> Larger(0, Smaller(Round(start), size - clipped)), extent |-> clipped]

Landmark(v, size) == Clamp(v, 0, 2 * (size - 1))

Confidence(score) == Clamp(score, 0, 2)

(***************************************************************************)
(* The value objects that guard the hand-overs.                            *)
(***************************************************************************)
ValidDimensions(width, height) == width \in 1 .. MaxDimension /\ height \in 1 .. MaxDimension

ValidBox(box) == box.at >= 0 /\ box.extent \in 1 .. MaxDimension

ValidLandmark(v) == v # NotFinite

ValidFace(face, size) ==
    /\ ValidBox(face.box) /\ face.box.at + face.box.extent <= size
    /\ ValidLandmark(face.landmark)
    /\ face.confidence \in 0 .. 2

ValidEmbedding(values) == values # <<>> /\ \A i \in DOMAIN values : values[i] # NotFinite

(***************************************************************************)
(* The stages.  Each gives a value or the error it raises.                 *)
(***************************************************************************)
Raise(error) == [error |-> error]

Failed(result) == "error" \in DOMAIN result

\* _load_decoded_image converts to RGB; a size the value object refuses is not
\* one of the errors it translates.
Decode(image) ==
    IF ~image.stored THEN Raise("SampleStorageFileMissing")
    ELSE IF ~image.decodes THEN Raise("SampleImageDecodeFailed")
    ELSE IF ~ValidDimensions(image.width, image.height) THEN Raise("ValidationError")
    ELSE [width |-> image.width, height |-> image.height, format |-> "rgb"]

\* detect: a model that cannot be loaded, an inference error, or the faces found.
Detect(models, image) ==
    IF models.detector # "ready" THEN Raise(models.detector)
    ELSE IF ~models.detects THEN Raise("FaceDetectionFailed")
    ELSE [faces |-> models.faces]

Align(face) ==
    IF face.landmarks # LandmarkCount THEN Raise("FaceLandmarksUnavailable")
    ELSE IF ~face.estimable THEN Raise("FaceAlignmentFailed")
    ELSE [aligned |-> TRUE]

SquaredNorm(values) ==
    LET sum[n \in 0 .. Len(values)] ==
            IF n = 0 THEN 0 ELSE sum[n - 1] + values[n] * values[n]
    IN  sum[Len(values)]

\* The unit vector values / sqrt(over).
Normalized(values) == [values |-> values, over |-> SquaredNorm(values)]

\* Mutant: a zero vector passes for a descriptor.
UsableWhenFinite(raw) == Len(raw) = Descriptor /\ ValidEmbedding(raw)

\* The model's length, only finite components, and a direction to normalize to.
Usable(raw) == Len(raw) = Descriptor /\ ValidEmbedding(raw) /\ SquaredNorm(raw) # 0

Embed(models) ==
    LET raw == models.descriptor
    IN  IF models.embedder # "ready" THEN Raise(models.embedder)
        ELSE IF ~models.infers \/ ~Usable(raw) THEN Raise("FaceEmbeddingFailed")
        ELSE IF Len(raw) # Dimension THEN Raise("InvalidEmbeddingDimension")
        ELSE Normalized(raw)

\* detect_align_embed asks for exactly one face.
DetectAlignEmbed(models, image) ==
    LET detected == Detect(models, image)
    IN  IF Failed(detected) THEN detected
        ELSE IF detected.faces = <<>> THEN Raise("EnrollmentSampleNoFaceDetected")
        ELSE IF Len(detected.faces) > 1 THEN Raise("EnrollmentSampleMultipleFacesDetected")
        ELSE IF Failed(Align(detected.faces[1])) THEN Align(detected.faces[1])
        ELSE Embed(models)

Pipeline(models, image) ==
    IF Failed(Decode(image)) THEN Decode(image) ELSE DetectAlignEmbed(models, Decode(image))

\* _REASON_CODES_BY_ERROR_TYPE; any other exception is an unexpected one.
ReasonCode(error) ==
    CASE error = "SampleStorageFileMissing" -> "storage_file_missing"
      [] error = "SampleImageDecodeFailed" -> "image_decode_failed"
      [] error = "EnrollmentSampleNoFaceDetected" -> "zero_faces_detected"
      [] error = "EnrollmentSampleMultipleFacesDetected" -> "multiple_faces_detected"
      [] error \in {"FaceLandmarksUnavailable", "FaceAlignmentFailed"} -> "alignment_failed"
      [] error = "FaceDetectionFailed" -> "detection_failed"
      [] error = "FaceEmbeddingFailed" -> "embedding_failed"
      [] error \in {"FaceProviderUnavailable", "ModelArtifactMissing",
                    "ModelArtifactChecksumMismatch"} -> "provider_unavailable"
      [] OTHER -> "unexpected_processing_error"

(***************************************************************************)
(* What is promised of one detected row and of one image.                  *)
(***************************************************************************)
\* Whatever numbers the detector reports, including none that are finite and boxes
\* that begin or end outside the image, the box handed on lies inside the image
\* with a positive extent after rounding, and every landmark on a pixel: the
\* value objects accept it and one bad row never fails the whole image.
FitsImage(v, extent, size) ==
    /\ ValidFace([box |-> Box(v, extent, size), landmark |-> Landmark(v, size),
                  confidence |-> Confidence(v)], size)
    /\ Landmark(v, size) \in 0 .. 2 * (size - 1)

\* An embedding is stored only for exactly one aligned face and is one every later
\* probe can be compared with: the configured dimension, finite, and of
\* unit length; every stage that fails before gives its own reason code.
ComparableIfStored(models, image) ==
    LET result == Pipeline(models, image)
    IN  IF Failed(result)
        THEN ReasonCode(result.error) = "zero_faces_detected" => models.faces = <<>>
        ELSE /\ Len(models.faces) = 1 /\ models.faces[1].landmarks = LandmarkCount
             /\ ValidEmbedding(result.values) /\ result.over > 0
             /\ Len(result.values) = Dimension
=============================================================================
