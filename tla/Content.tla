-------------------------------- MODULE Content --------------------------------
(***************************************************************************)
(* What a payload is called on its way through y4p: the MIME types an      *)
(* application announces, the one the daemon asks for (select_mime), the   *)
(* name the drained bytes earn (normalise_payload, relabel_by_magic), the  *)
(* conversion they are due (plan, Transcode::args), the row they become    *)
(* (row_parts, insert_with_hash, insert_spooled), the MIME types a restore *)
(* announces for that row and what each request for one is answered with.  *)
(*                                                                         *)
(* A label is a MIME string as announced; Base is what mime_base and the   *)
(* case-insensitive comparisons see of it. Spellings matter because some   *)
(* tests of the code are case-sensitive (is_cache_class, contains) and     *)
(* others are not. Bytes are abstracted to what the tests on them can tell *)
(* apart. The converter is external: Magick interprets the argument vector *)
(* the code hands it.                                                      *)
(***************************************************************************)
EXTENDS Naturals, Sequences, SequencesExt, FiniteSets

CONSTANTS Labels,      \* the MIME strings applications announce and request
          MaxLabels,   \* bound: labels announced over the whole run
          MaxCopies,   \* bound: selections over the whole run
          None         \* no label, no bytes, no job: Rust's Option::None

VARIABLES phase,     \* where the current selection or restore is
          mimes,     \* OfferData.mimes, in order of announcement
          job,       \* the payload between the pipe and the database
          rows,      \* the clipboard table: one row per digest (= bytes)
          files,     \* digests that have a cache file
          offered,   \* the row a restore serves and the labels it announces
          copies, announced,
          dropRtf,   \* [mime] drop_rtf of y4p.toml
          spooler    \* whether the daemon has a spool directory

contentVars == <<phase, mimes, job, rows, files, offered, copies, announced, dropRtf, spooler>>

(***************************************************************************)
(* MIME predicates.                                                        *)
(***************************************************************************)
Base(l) ==
    CASE l = "text/plain;charset=utf-8" -> "text/plain"
      [] l = "TEXT/HTML" -> "text/html"
      [] l = "IMAGE/BMP" -> "image/bmp"
      [] l = "application/octet-stream;as=text" -> "application/octet-stream"
      [] OTHER -> l

MimeBaseEq(a, b) == Base(a) = Base(b)

StartsWithImage(l) == Base(l) \in {"image/png", "image/jpeg", "image/gif", "image/webp",
                                   "image/bmp", "image/svg+xml", "image/avif", "image/tiff"}
StartsWithText(l) == Base(l) \in {"text/plain", "text/html", "text/uri-list", "text/rtf", "text/x-gif"}

IsHtmlMime(l) == Base(l) \in {"text/html", "application/xhtml+xml"}
IsRtfMime(l) == Base(l) \in {"text/rtf", "application/rtf"}

\* Whether the string l contains the hint, in any case.
Holds(l, hint) ==
    CASE hint = "text" -> \/ StartsWithText(l)
                          \/ l \in {"TEXT", "application/vnd.oasis.opendocument.text",
                                    "application/octet-stream;as=text"}
      [] hint = "string" -> l \in {"STRING", "UTF8_STRING"}
      [] hint = "utf8" -> l = "UTF8_STRING"
      [] hint = "json" -> l = "application/json"
      [] hint = "xml" -> l \in {"application/xhtml+xml", "image/svg+xml"}
      [] hint = "xhtml" -> l \in {"application/xhtml+xml", "application/xhtml"}
      [] hint = "uri-list" -> l = "text/uri-list"

TextLikeMimeHints == {"text", "json", "xml", "xhtml", "utf8", "string", "uri-list"}

\* Asked of the base alone. No audio/ or video/ label of the model holds a hint.
IsTextLikeMime(l) == ~StartsWithImage(l) /\ \E h \in TextLikeMimeHints : Holds(Base(l), h)

\* TEXT_MIME_SQL_PREDICATE: a list of its own, asked of the whole string.
SqlHints == {"text", "utf8", "json", "xml", "uri-list", "string"}
SqlAdmits(l) == ~StartsWithImage(l) /\ \E h \in SqlHints : Holds(l, h)

IsSensitive(ls) == "application/x-keepassxc" \in ToSet(ls)

\* Case-sensitive: an "IMAGE/BMP" is not cache class.
IsCacheClass(l) == (StartsWithImage(l) /\ l # "IMAGE/BMP") \/ l = "text/x-gif"
IsDetachable(l) == IsCacheClass(l) /\ ~IsTextLikeMime(l)

\* mime.contains("text") || mime.contains("UTF8"), both case-sensitive.
ContainsText(l) ==
    \/ StartsWithText(l) /\ l # "TEXT/HTML"
    \/ l \in {"UTF8_STRING", "application/vnd.oasis.opendocument.text",
              "application/octet-stream;as=text"}

(***************************************************************************)
(* Bytes. kind is what they really are, "xml" a text that opens with an    *)
(* <?xml prolog and is no picture; deep that white space fills the head    *)
(* before the prolog; moves names the format they were an animation of     *)
(* when they were copied; frames, turned (an EXIF tag asks for a           *)
(* rotation), upright (the pixels as stored stand upright) and private     *)
(* (EXIF, XMP, comments) are what a conversion may destroy; stamp is a     *)
(* time of conversion left in the file, bounded says that the decoder ran  *)
(* under its limits, whole tells bytes that decode from damaged ones.      *)
(***************************************************************************)
Signatures == {"image/png", "image/jpeg", "image/gif", "image/webp", "image/avif"}
Signed == Signatures \cup {"image/svg+xml"}
Prologs == {"image/svg+xml", "xml"}

Bytes(kind, size) ==
    [kind |-> kind, size |-> size, deep |-> FALSE, moves |-> "no", frames |-> 1, turned |-> FALSE,
     upright |-> TRUE, private |-> FALSE, stamp |-> 0, bounded |-> TRUE, whole |-> TRUE]

Kinds == Signed \cup {"image/bmp", "text", "xml", "markup", "paths", "comments", "binary"}
LeftAlone == {"image/webp", "image/gif"}   \* animations that ingest_target does not convert

\* Bytes as they come, and as a conversion may leave them.
Contents ==
    [kind : Kinds, size : 1 .. 3, deep : BOOLEAN, moves : LeftAlone \cup {"image/png", "no"},
     frames : 1 .. 2, turned : BOOLEAN, upright : BOOLEAN, private : BOOLEAN, stamp : Nat,
     bounded : BOOLEAN, whole : BOOLEAN]

\* A payload on its way: without bytes while the pipe is read.
Jobs ==
    [mime : Labels \cup Signed, bytes : Contents \cup {None}, road : {"memory", "spooled", None}]

ASSUME ContentAssumption ==
    /\ MaxLabels \in Nat /\ MaxCopies \in Nat
    /\ None \notin Contents \cup Jobs \cup Signed \cup {"text", "blob", "chunked"}

InlineThreshold == 2   \* INLINE_PAYLOAD_THRESHOLD_BYTES, as a size class
CdcMinChunk == 2       \* CDC_MIN_CHUNK_BYTES, the same 4096 bytes

\* What applications send: every kind, on either side of the inline threshold
\* where the road matters and exactly at it, photographs that carry an
\* orientation tag, animations (a PNG may be one too), XML that is no picture, an
\* SVG behind more white space than the head holds, and bytes that start like an
\* image and do not decode.
Payloads ==
    LET photo == [Bytes("image/jpeg", 3) EXCEPT !.turned = TRUE, !.upright = FALSE, !.private = TRUE]
        moving(k, n) == [Bytes(k, n) EXCEPT !.moves = k, !.frames = 2]
    IN {Bytes(k, n) : k \in {"image/png", "image/bmp", "text"}, n \in {1, 3}}
       \cup {Bytes(k, InlineThreshold) : k \in {"text", "binary", "image/webp", "image/svg+xml"}}
       \cup {Bytes(k, 1) : k \in {"image/avif", "markup", "paths", "comments", "binary"}}
       \cup {photo, [photo EXCEPT !.size = 1, !.kind = "image/png"]}
       \cup {moving("image/webp", 1), moving("image/webp", 3), moving("image/gif", 3),
             moving("image/png", 3)}
       \cup {Bytes("xml", 3), [Bytes("image/svg+xml", 3) EXCEPT !.deep = TRUE],
             [Bytes("image/png", 3) EXCEPT !.whole = FALSE]}

\* detect_image_mime over the leading bytes or over all of them: a binary
\* signature opens the bytes, and whatever opens with a prolog is taken for SVG.
DetectImageMime(b, all) ==
    CASE b.kind \in Signatures -> b.kind
      [] b.kind \in Prologs /\ (all \/ ~b.deep) -> "image/svg+xml"
      [] OTHER -> None

IsAnimatedWebp(b) == b.kind = "image/webp" /\ b.frames > 1

\* normalize_uri_list: comments leave nothing, paths are decoded, and bytes
\* that were no list lose their line structure.
NormalizeUriList(b) ==
    CASE b.kind = "comments" -> {}
      [] b.kind = "paths" -> {[b EXCEPT !.kind = "text"]}
      [] OTHER -> {[b EXCEPT !.whole = FALSE]}

(***************************************************************************)
(* Announcing and choosing.                                                *)
(***************************************************************************)
MimePriorityOrder ==
    <<"image/png", "image/webp", "image/jpeg", "image/gif", "image/svg+xml", "image/avif",
      "image/bmp", "text/uri-list", "text/plain;charset=utf-8", "text/plain", "UTF8_STRING",
      "STRING", "TEXT", "text/html", "application/xhtml+xml", "application/json">>

\* The first of s that satisfies P, as a set of at most one element.
FirstOf(s, P(_)) ==
    LET hits == {i \in DOMAIN s : P(s[i])}
    IN {s[i] : i \in {j \in hits : \A k \in hits : j <= k}}

OrElse(a, b) == IF a # {} THEN a ELSE b

\* select_mime without a target: the priority order, then any image, any text, anything.
SelectMime(ls) ==
    LET keep(l) == ~dropRtf \/ ~IsRtfMime(l)
        ranked(p) == \E i \in DOMAIN ls : MimeBaseEq(ls[i], p)
        best == FirstOf(MimePriorityOrder, ranked)
        listed(l) == \E p \in best : MimeBaseEq(l, p)
        text(l) == StartsWithText(l) /\ keep(l)
    IN OrElse(FirstOf(ls, listed),
       OrElse(FirstOf(ls, StartsWithImage),
       OrElse(FirstOf(ls, text), FirstOf(ls, keep))))

ContentInit ==
    /\ phase = "idle"
    /\ mimes = <<>>
    /\ job = None
    /\ rows = {}
    /\ files = {}
    /\ offered = None
    /\ copies = 0
    /\ announced = 0
    /\ dropRtf \in BOOLEAN
    /\ spooler \in BOOLEAN

\* An Offer event of the object the compositor introduced: announced once.
Announce(l) ==
    /\ phase = "idle"
    /\ offered = None
    /\ announced < MaxLabels
    /\ copies < MaxCopies
    /\ mimes' = IF l \in ToSet(mimes) THEN mimes ELSE Append(mimes, l)
    /\ announced' = announced + 1
    /\ UNCHANGED <<phase, job, rows, files, offered, copies, dropRtf, spooler>>

\* The Selection event: nothing is read of a sensitive selection or of one
\* whose only types the policy drops.
Selection ==
    /\ phase = "idle"
    /\ mimes # <<>>
    /\ copies < MaxCopies
    /\ copies' = copies + 1
    /\ LET wanted == IF IsSensitive(mimes) THEN {} ELSE SelectMime(mimes)
       IN IF wanted = {}
          THEN phase' = "idle" /\ job' = None
          ELSE /\ phase' = "reading"
               /\ job' \in [mime : wanted, bytes : {None}, road : {None}]
    /\ mimes' = <<>>
    /\ UNCHANGED <<rows, files, offered, announced, dropRtf, spooler>>

(***************************************************************************)
(* Draining: the road a payload takes and the name it earns.               *)
(***************************************************************************)
Streams(l, b) == spooler /\ ~IsTextLikeMime(l) /\ b.size >= InlineThreshold

RelabelByMagic(l, b, all) ==
    IF DetectImageMime(b, all) # None THEN DetectImageMime(b, all) ELSE l

\* ingest_and_send: a payload in memory is normalised, a spooled one only
\* relabelled from its head. A spooler that fails to start gives the pipe back.
Drain(b) ==
    /\ phase = "reading"
    /\ \E road \in IF Streams(job.mime, b) THEN {"spooled", "memory"} ELSE {"memory"} :
          LET list == MimeBaseEq(job.mime, "text/uri-list")
              kept == IF list THEN NormalizeUriList(b) ELSE {b}
              name == IF list THEN job.mime
                      ELSE RelabelByMagic(job.mime, b, road = "memory")
          IN IF kept = {}
             THEN phase' = "idle" /\ job' = None
             ELSE /\ phase' = "queued"
                  /\ job' \in [mime : {name}, bytes : kept, road : {road}]
    /\ UNCHANGED <<mimes, rows, files, offered, copies, announced, dropRtf, spooler>>

(***************************************************************************)
(* Converting.                                                             *)
(***************************************************************************)
FromMime(l) ==
    IF Base(l) \in {"image/png", "image/jpeg", "image/gif", "image/webp", "image/bmp"}
    THEN Base(l) ELSE None

\* The bytes outrank the label.
Classify(l, b) ==
    LET seen == DetectImageMime(b, FALSE)
    IN FromMime(IF seen # None THEN seen ELSE l)

IngestTarget(input) == IF input = "image/gif" THEN None ELSE "image/png"

Plan(l, b) ==
    LET input == Classify(l, b)
    IN IF input = None \/ (input = "image/webp" /\ IsAnimatedWebp(b)) \/ IngestTarget(input) = None
       THEN {} ELSE {[input |-> input, output |-> IngestTarget(input)]}

\* Mutants of Args: stripping before the orientation is applied, and an encoder
\* left to stamp the time of the conversion.
ArgsStripFirst(j) ==
    <<[do |-> "limit", of |-> None], [do |-> "read", of |-> j.input],
      [do |-> "strip", of |-> None], [do |-> "auto-orient", of |-> None],
      [do |-> "define", of |-> "compression-level"], [do |-> "define", of |-> "exclude tIME"],
      [do |-> "write", of |-> j.output]>>
ArgsTimed(j) ==
    <<[do |-> "limit", of |-> None], [do |-> "read", of |-> j.input],
      [do |-> "auto-orient", of |-> None], [do |-> "strip", of |-> None],
      [do |-> "define", of |-> "compression-level"], [do |-> "write", of |-> j.output]>>

\* Transcode::args, the six limits as one token.
Args(j) ==
    <<[do |-> "limit", of |-> None], [do |-> "read", of |-> j.input],
      [do |-> "auto-orient", of |-> None], [do |-> "strip", of |-> None],
      [do |-> "define", of |-> "compression-level"], [do |-> "define", of |-> "exclude tIME"],
      [do |-> "write", of |-> j.output]>>

\* External: what magick makes of one argument. A pinned decoder refuses any
\* other format; [0] reads the first frame; the PNG encoder stamps the time
\* unless told not to.
MagickStep(m, a) ==
    CASE a.do = "limit" -> [m EXCEPT !.limited = TRUE]
      [] a.do = "read" -> [m EXCEPT !.ok = m.b.kind = a.of /\ m.b.whole,
                                    !.b = [m.b EXCEPT !.frames = 1, !.bounded = m.limited]]
      [] a.do = "auto-orient" ->
            [m EXCEPT !.b = [m.b EXCEPT !.upright = m.b.upright \/ m.b.turned, !.turned = FALSE]]
      [] a.do = "strip" -> [m EXCEPT !.b = [m.b EXCEPT !.turned = FALSE, !.private = FALSE]]
      [] a.do = "define" -> [m EXCEPT !.timed = m.timed /\ a.of # "exclude tIME"]
      [] a.do = "write" ->
            [m EXCEPT !.b = [m.b EXCEPT !.kind = a.of, !.stamp = IF m.timed THEN copies ELSE 0]]

\* What magick makes of the whole command line, one argument after another.
Magick(j, b) ==
    LET args == Args(j)
        after[n \in 0 .. Len(args)] ==
            IF n = 0 THEN [b |-> b, limited |-> FALSE, timed |-> TRUE, ok |-> TRUE]
            ELSE MagickStep(after[n - 1], args[n])
    IN after[Len(args)]

\* transcode and transcode_file: the picture, or a file that is not what was promised.
Transcoded(j, b) ==
    {[Bytes("binary", 1) EXCEPT !.whole = FALSE]} \cup {m.b : m \in {n \in {Magick(j, b)} : n.ok}}

\* What the attempt may hand back: nothing (circuit open, no slot, no magick, no
\* scratch directory, a timeout, a crash), or what the converter wrote.
Attempts(j, b) == {None} \cup Transcoded(j, b)

\* A result in memory is judged whole, one in a file by its first bytes.
IsValidOutput(j, out) == DetectImageMime(out, TRUE) = j.output
CheckSignature(j, out) == DetectImageMime(out, FALSE) = j.output
Usable(j, out, road) ==
    out # None /\ IF road = "spooled" THEN CheckSignature(j, out) ELSE IsValidOutput(j, out)

\* route_with and route_file_with: the converted pair, or the original one.
Convert ==
    /\ phase = "queued"
    /\ phase' = "storing"
    /\ IF Plan(job.mime, job.bytes) = {}
       THEN job' = job
       ELSE \E j \in Plan(job.mime, job.bytes) : \E out \in Attempts(j, job.bytes) :
               job' = IF Usable(j, out, job.road) THEN [job EXCEPT !.mime = j.output, !.bytes = out] ELSE job
    /\ UNCHANGED <<mimes, rows, files, offered, copies, announced, dropRtf, spooler>>

(***************************************************************************)
(* Storing.                                                                *)
(***************************************************************************)
IsSkipped(l) == l = "application/x-keepassxc"
IsChunkable(l, b) == ~IsCacheClass(l) /\ b.size > CdcMinChunk
ValidUtf8(b) == b.kind \in Prologs \cup {"text", "markup", "paths", "comments"}

\* row_parts and the detached row of upsert_detached.
RowParts(l, b) ==
    [mime |-> l, bytes |-> b, preview |-> IsTextLikeMime(l),
     content |-> CASE IsChunkable(l, b) -> "chunked"
                   [] ~IsChunkable(l, b) /\ ValidUtf8(b) /\ IsTextLikeMime(l) -> "text"
                   [] ~IsChunkable(l, b) /\ ~(ValidUtf8(b) /\ IsTextLikeMime(l)) /\ IsCacheClass(l) -> None
                   [] OTHER -> "blob"]
Detached(l, b) == [mime |-> l, bytes |-> b, preview |-> FALSE, content |-> None]

\* Mutant of Store: a row looked up by its label.
StoreByLabel ==
    /\ phase = "storing"
    /\ phase' = "idle"
    /\ job' = None
    /\ rows' = IF \E r \in rows : r.mime = job.mime THEN rows
               ELSE rows \cup {RowParts(job.mime, job.bytes)}
    /\ files' = IF IsCacheClass(job.mime) THEN files \cup {job.bytes} ELSE files
    /\ UNCHANGED <<mimes, offered, copies, announced, dropRtf, spooler>>

\* insert_with_hash or insert_spooled: the digest is the key, so bytes already
\* there only touch their row. A cache-class payload leaves its file either way.
Store ==
    /\ phase = "storing"
    /\ phase' = "idle"
    /\ job' = None
    /\ LET detach == job.road = "spooled" /\ IsDetachable(job.mime)
           row == IF detach THEN Detached(job.mime, job.bytes) ELSE RowParts(job.mime, job.bytes)
           known == \E r \in rows : r.bytes = job.bytes
       IN IF IsSkipped(job.mime)
          THEN UNCHANGED <<rows, files>>
          ELSE /\ rows' = IF known THEN rows ELSE rows \cup {row}
               /\ files' = IF IsCacheClass(job.mime) THEN files \cup {job.bytes} ELSE files
    /\ UNCHANGED <<mimes, offered, copies, announced, dropRtf, spooler>>

(***************************************************************************)
(* Restoring and pasting.                                                  *)
(***************************************************************************)
TextMimeAlts == {"text/plain;charset=utf-8", "text/plain", "UTF8_STRING", "STRING", "TEXT"}
HtmlMimeAlts == TextMimeAlts \cup {"text/html", "application/xhtml+xml"}

TextAlias(l) == Base(l) \in {"text/plain", "UTF8_STRING", "STRING", "TEXT"}
TextCompatible(l) == StartsWithText(l) \/ TextAlias(l) \/ IsHtmlMime(l)

\* Mutant of MimeIsCompatible: an alias only counts on the requested side and
\* only the fixed aliases are text on the other.
CompatibleOneWay(requested, target) ==
    \/ MimeBaseEq(requested, target)
    \/ StartsWithText(requested) /\ StartsWithText(target)
    \/ TextAlias(requested) /\ (StartsWithText(target) \/ TextAlias(target))

MimeIsCompatible(requested, target) ==
    \/ MimeBaseEq(requested, target)
    \/ StartsWithText(requested) /\ StartsWithText(target)
    \/ IsHtmlMime(requested) /\ IsHtmlMime(target)
    \/ TextAlias(requested) /\ TextCompatible(target)
    \/ TextAlias(target) /\ TextCompatible(requested)

Alternates(l) ==
    CASE IsHtmlMime(l) -> HtmlMimeAlts
      [] ~IsHtmlMime(l) /\ ContainsText(l) -> TextMimeAlts
      [] OTHER -> {}

\* handle_restore_request: the row's own type, then its alternates. Nothing here
\* changes a row, so a run ends with its restore and the requests it gets.
Restore(r) ==
    /\ phase = "idle"
    /\ mimes = <<>>
    /\ offered = None
    /\ offered' = [row |-> r, labels |-> {r.mime} \cup Alternates(r.mime), reply |-> None]
    /\ UNCHANGED <<phase, mimes, job, rows, files, copies, announced, dropRtf, spooler>>

Readable(r) == r.content # None \/ r.bytes \in files

\* The Send event. An incompatible request is answered by closing the pipe.
Answer(requested, r) ==
    CASE ~MimeIsCompatible(requested, r.mime) -> [as |-> requested, what |-> "closed"]
      [] MimeIsCompatible(requested, r.mime) /\ ~Readable(r) -> [as |-> requested, what |-> "nothing"]
      [] MimeIsCompatible(requested, r.mime) /\ Readable(r) /\ IsHtmlMime(r.mime) /\ ~IsHtmlMime(requested)
            -> [as |-> requested, what |-> "stripped"]
      [] OTHER -> [as |-> requested, what |-> "verbatim"]

Send(l) ==
    /\ offered # None
    /\ offered.reply = None
    /\ offered' = [offered EXCEPT !.reply = Answer(l, offered.row)]
    /\ UNCHANGED <<phase, mimes, job, rows, files, copies, announced, dropRtf, spooler>>

ContentNext ==
    \/ \E l \in Labels : Announce(l)
    \/ Selection
    \/ \E b \in Payloads : Drain(b)
    \/ Convert
    \/ Store
    \/ \E r \in rows : Restore(r)
    \/ offered # None /\ \E l \in Labels \cup offered.labels : Send(l)

ContentSpec == ContentInit /\ [][ContentNext]_contentVars

--------------------------------------------------------------------------------
\* The states of one selection, the rows and files kept, and the restore.
ContentTypeOK ==
    /\ phase \in {"idle", "reading", "queued", "storing"}
    /\ job \in Jobs \cup {None}
    /\ (job = None) = (phase = "idle")
    /\ job # None => (job.bytes = None) = (phase = "reading")
    /\ \A r \in rows : /\ r.mime \in Labels \cup Signed /\ r.bytes \in Contents
                       /\ r.content \in {"text", "blob", "chunked", None} /\ r.preview \in BOOLEAN
    /\ files \subseteq {r.bytes : r \in rows}
    /\ offered # None => offered.row \in rows
    /\ copies \in 0 .. MaxCopies /\ announced \in 0 .. MaxLabels

\* Bytes with a binary signature are recorded under their own MIME whatever the
\* application called them, on both roads and after a failed conversion; a list
\* of files is the one payload that keeps its announced name. Bytes that open
\* with an XML prolog are recorded as an SVG, XHTML copied as text among them,
\* whose "real format" (utils.rs:99) that is not; behind more white space than the
\* head of a spooled payload they keep their label, which then is no text's.
HonestLabel ==
    \A r \in rows : ~MimeBaseEq(r.mime, "text/uri-list") =>
        /\ r.bytes.kind \in Signatures => r.mime = r.bytes.kind
        /\ r.bytes.kind \in Prologs =>
              r.mime = "image/svg+xml" \/ (r.bytes.deep /\ ~IsTextLikeMime(r.mime))

\* A picture is kept as it was copied: an animated GIF or WebP keeps its frames
\* on every road, a photograph is not left lying on its side, and a picture the
\* converter wrote was decoded under the limits and carries no private block. An
\* animated PNG is not kept: its signature is that of every PNG, so plan has it
\* converted and its first frame is left, although route.rs:95-96 would spare "an
\* animation that a transcode would flatten".
PictureKept ==
    \A r \in rows :
        /\ r.bytes.moves \in LeftAlone => r.bytes.frames > 1
        /\ r.bytes.upright \/ r.bytes.turned
        /\ r.bytes.bounded
        /\ r.bytes.kind = "image/png" /\ r.bytes.upright /\ r.bytes.whole => ~r.bytes.private

\* RTF is not kept when y4p.toml drops it, at any step of select_mime's chain.
PolicyKept == dropRtf => \A r \in rows : ~IsRtfMime(r.mime)

\* What is stored is what was copied, under the name its bytes have earned, but
\* for the two cases named above: text with a prolog, and animated PNG.
StoredFaithfully == HonestLabel /\ PictureKept /\ PolicyKept

\* The digest deduplicates what the converter writes (transcode.rs: the output
\* is "a pure function of its input"): the same picture converted twice, by
\* whichever road, is one row.
OneRowPerPicture ==
    \A r, q \in rows : [r.bytes EXCEPT !.stamp = 0] = [q.bytes EXCEPT !.stamp = 0] => r = q

\* Every row can be read back, although the road, the label and the size each
\* have a say in where its bytes went and a second copy under another label
\* only touches the row; and every text-like row has the preview and passes the
\* predicate that searching needs, unless "xhtml" is all that makes it text: the
\* SQL does not ask for that hint.
RowsReadable ==
    \A r \in rows : /\ Readable(r)
                    /\ IsTextLikeMime(r.mime) =>
                          /\ r.preview
                          /\ \/ SqlAdmits(r.mime)
                             \/ \A h \in TextLikeMimeHints : Holds(Base(r.mime), h) => h = "xhtml"
                          /\ ValidUtf8(r.bytes) => r.content # None

\* One readable row per picture, on every road.
RowsSound == OneRowPerPicture /\ RowsReadable

\* A restore announces nothing it would refuse to send ("advertise compatible
\* MIMEs", handle_restore_request), and what is sent is never raw markup for a
\* plain-text request nor one image format under the name of another. A label
\* that only contains the word text, such as that of an OpenDocument text, is
\* excepted: it is given the text alternates and refuses every one of them.
OffersServed ==
    offered # None =>
        /\ \A l \in offered.labels :
              MimeIsCompatible(l, offered.row.mime) \/ ~(TextCompatible(offered.row.mime))
        /\ offered.reply # None /\ offered.reply.what # "closed" =>
              /\ StartsWithImage(offered.reply.as) \/ StartsWithImage(offered.row.mime)
                    => MimeBaseEq(offered.reply.as, offered.row.mime)
              /\ IsHtmlMime(offered.row.mime) /\ offered.reply.what = "verbatim"
                    => IsHtmlMime(offered.reply.as)

================================================================================
