-------------------------------- MODULE History --------------------------------
(***************************************************************************)
(* The history as its user addresses it. A daemon keeps inserting, touching*)
(* and rotating rows while y4p commands resolve "the third entry" to a row *)
(* in one query and act on it in another, search in two queries, list a    *)
(* range, and each process derives its own history cap from its            *)
(* environment and from y4p.toml.                                          *)
(*                                                                         *)
(* A query or a transaction is one step; between two of them the other     *)
(* processes run. Rows carry the chunks FastCdc cut their text into. The   *)
(* clock is the wall clock: it may stand still, and be set back.           *)
(***************************************************************************)
EXTENDS Integers, Sequences, SequencesExt, FiniteSets, Chunking

CONSTANTS Clis,           \* command processes
          Texts, Images,  \* payloads: sequences of bytes, and cache-class digests
          Keywords,       \* sequences of bytes to search for
          Markup,         \* the texts offered under an HTML label
          AnyOne, AnyRun, Open, Close, Newline, Space,  \* the characters _ % < > \n and the blank
          Fold,           \* character -> the one LIKE compares in its place
          PreviewChars, DefaultLimit, DefaultMaxHistory,
          IntBits,        \* width of usize and i64
          Envs,           \* values of Y4P_MAX_HISTORY
          Numbers,        \* numbers a y4p.toml may hold
          MaxRowId, MaxTime,  \* bounds: rows ever inserted, the wall clock
          None

VARIABLES rows,     \* table clipboard
          nextId,   \* its AUTOINCREMENT sequence
          clock,    \* SystemTime::now() at the last write, in milliseconds
          cap,      \* process -> its get_max_history()
          cli,      \* process -> what its command is in the middle of
          effect    \* what the command that has just finished did

vars == <<rows, nextId, clock, cap, cli, effect>>

Daemon == "daemon"

(***************************************************************************)
(* Settings. A line of y4p.toml is a section header, a key with its value, *)
(* or anything else.                                                       *)
(***************************************************************************)
Usize == 0 .. 2^IntBits - 1
AsI64(n) == IF n < 2^(IntBits - 1) THEN n ELSE n - 2^IntBits

\* A text is a sequence of bytes, a setting a usize, and the default cap no zero.
ASSUME HistoryAssumption ==
    /\ MaxRowId \in Nat /\ MaxTime \in Nat /\ IntBits \in Nat
    /\ PreviewChars \in Nat /\ DefaultLimit \in Nat /\ DefaultMaxHistory \in Usize \ {0}
    /\ Texts \cup Keywords \subseteq Seq(DOMAIN Gear) /\ Markup \subseteq Texts
    /\ {AnyOne, AnyRun, Open, Close, Newline, Space} \subseteq DOMAIN Gear
    /\ Fold \in [DOMAIN Gear -> DOMAIN Gear]
    /\ Numbers \subseteq Usize /\ Envs \subseteq Usize \cup {None}
    /\ None \notin Texts \cup Images /\ None \notin Usize /\ None # "store"
    /\ Daemon \notin Clis

Lines == [section : {"general", "mime"}] \cup [key : {"max_history", "drop_rtf"}, value : Numbers \cup {None}]

ParseUsize(v) == v # None /\ v > 0

ApplyKv(c, line) ==
    IF c.section = "general" /\ line.key = "max_history" /\ ParseUsize(line.value)
    THEN [c EXCEPT !.max_history = line.value] ELSE c

ParseLine(c, line) ==
    IF "section" \in DOMAIN line THEN [c EXCEPT !.section = line.section] ELSE ApplyKv(c, line)

ParseConfig(file) ==
    LET after[n \in 0 .. Len(file)] ==
            IF n = 0 THEN [section |-> "", max_history |-> DefaultMaxHistory]
            ELSE ParseLine(after[n - 1], file[n])
    IN after[Len(file)]

\* The environment, if it holds a positive integer, or the file, or the default.
GetMaxHistory(env, file) ==
    IF env # None /\ env > 0 THEN env ELSE ParseConfig(file).max_history

Files == {<<>>} \cup {<<a>> : a \in Lines} \cup {<<a, b>> : a \in Lines, b \in Lines}
Caps == {GetMaxHistory(e, f) : e \in Envs, f \in Files}

(***************************************************************************)
(* The table.                                                              *)
(***************************************************************************)
\* ORDER BY timestamp DESC over idx_ts, read backwards: newest id first among
\* rows of one millisecond.
Newer(r, q) == r.ts > q.ts \/ (r.ts = q.ts /\ r.id > q.id)
Mru(rs) ==
    [i \in 1 .. Cardinality(rs) |-> CHOOSE r \in rs : Cardinality({q \in rs : Newer(q, r)}) = i - 1]
\* LIMIT n: a negative limit is none.
Limit(s, n) == IF n < 0 THEN s ELSE SubSeq(s, 1, Least(n, Len(s)))

FetchMetadata(p) == Limit(Mru(rows), AsI64(cap[p]))

ChunksOf == [body \in {t \in Texts : Len(t) > CdcMin} |-> FastCdc(body)]
NewRow(id, body, now) ==
    [id |-> id, ts |-> now, pinned |-> FALSE, hash |-> body,
     content |-> IF body \in Images THEN <<>>
                 ELSE IF body \in DOMAIN ChunksOf THEN ChunksOf[body] ELSE <<body>>]

\* Rotation's ORDER BY timestamp DESC reads idx_pinned_ts, which holds rows of
\* one millisecond oldest id first.
Before(r, q) == r.ts > q.ts \/ (r.ts = q.ts /\ r.id < q.id)

\* OFFSET n: a negative offset is zero.
Offset(n) == IF n < 0 THEN 0 ELSE n

\* Mutant of Expiring: pinned rows use up the quota.
ExpiringPastPins(rs, n) ==
    {r \in rs : ~r.pinned /\ Cardinality({q \in rs : Before(q, r)}) >= Offset(AsI64(n))}

\* The rows rotation takes out of rs: the unpinned ones past max_history.
Expiring(rs, n) ==
    LET unpinned == {r \in rs : ~r.pinned}
    IN {r \in unpinned : Cardinality({q \in unpinned : Before(q, r)}) >= Offset(AsI64(n))}

\* Any time may be read: the clock may stand still and go back.
Reads(now) == now \in 0 .. MaxTime

Touch(rs, id, now) == {IF r.id = id THEN [r EXCEPT !.ts = now] ELSE r : r \in rs}

\* Mutants of Upsert: every copy makes a row; without AUTOINCREMENT the largest id in use is counted on.
UpsertAlways(p, body, now, id) ==
    LET with == rows \cup {NewRow(id, body, now)}
    IN /\ id = nextId /\ id <= MaxRowId
       /\ nextId' = nextId + 1
       /\ rows' = with \ Expiring(with, cap[p])
       /\ clock' = now
UpsertReusing(p, body, now, id) ==
    LET known == {r \in rows : r.hash = body}
        free == IF rows = {} THEN 1 ELSE 1 + (CHOOSE i \in {r.id : r \in rows} : \A r \in rows : r.id <= i)
        with == IF known # {} THEN Touch(rows, id, now) ELSE rows \cup {NewRow(id, body, now)}
    IN /\ id \in IF known # {} THEN {r.id : r \in known} ELSE {free}
       /\ nextId <= MaxRowId
       /\ nextId' = IF known # {} THEN nextId ELSE nextId + 1
       /\ rows' = with \ Expiring(with, cap[p])
       /\ clock' = now

\* upsert_record: touch the row of this digest or insert one, then rotate.
Upsert(p, body, now, id) ==
    LET known == {r \in rows : r.hash = body}
        with == IF known # {} THEN Touch(rows, id, now) ELSE rows \cup {NewRow(id, body, now)}
    IN /\ id \in IF known # {} THEN {r.id : r \in known} ELSE {nextId}
       /\ id <= MaxRowId
       /\ nextId' = IF known # {} THEN nextId ELSE nextId + 1
       /\ rows' = with \ Expiring(with, cap[p])
       /\ clock' = now

(***************************************************************************)
(* Command lines, as ArgContext sees them.                                 *)
(***************************************************************************)
Flags == {"raw", "full", "force", "verbose", "id", "unknown"}
Addressed == {"show", "pin", "unpin", "delete", "copy-to"}
Commands == Addressed \cup {"store", "wipe", "list", "search"}

Unsupported(cmd) ==
    {"unknown"} \cup
    CASE cmd \in {"show", "search"} -> {"full", "force"}
      [] cmd \in {"pin", "unpin", "delete"} -> {"raw", "full", "force", "verbose"}
      [] cmd \in {"copy-to", "store"} -> {"raw", "full", "force"}
      [] cmd = "wipe" -> {"raw", "full", "verbose"}
      [] cmd = "list" -> {}

\* A command line is refused before it touches the database.
Refused(cmd, flags) == (flags \cap Unsupported(cmd) # {}) \/ (cmd = "wipe" /\ "force" \notin flags)
RefusedLines == {line \in Commands \X {{f} : f \in Flags} : Refused(line[1], line[2])}

Nothing == [cmd |-> "nothing", id |-> None, body |-> None, want |-> None]
Report(what) == [Nothing EXCEPT !.cmd = what]

Idle == [at |-> "idle", cmd |-> None, id |-> None, want |-> None, words |-> {}]

Finish(c, what, id, body) ==
    /\ cli' = [cli EXCEPT ![c] = Idle]
    /\ effect' = [cmd |-> what, id |-> id, body |-> body, want |-> cli[c].want]

Row(id) == {r \in rows : r.id = id}
Hash(rs) == IF rs = {} THEN None ELSE (CHOOSE r \in rs : TRUE).hash

Init ==
    /\ rows = {} /\ nextId = 1 /\ clock = 0
    /\ cap \in [Clis \cup {Daemon} -> Caps]
    /\ cli = [c \in Clis |-> Idle]
    /\ effect = Nothing

\* The daemon's worker persists a selection.
Ingest(body, now) ==
    /\ Reads(now)
    /\ \E id \in 1 .. MaxRowId : Upsert(Daemon, body, now, id)
    /\ effect' = Nothing
    /\ UNCHANGED <<cap, cli>>

Refuse(c) ==
    /\ cli[c].at = "idle"
    /\ RefusedLines # {}
    /\ effect' = Report("refused")
    /\ UNCHANGED <<rows, nextId, clock, cap, cli>>

(***************************************************************************)
(* show, pin, unpin, delete, copy-to: resolve_target_id, then the action.  *)
(***************************************************************************)
\* The position is looked up now; want remembers which payload stood there.
\* An --id is taken as given.
ResolveTargetId(c, cmd, n, flags) ==
    /\ cli[c].at = "idle" /\ cmd \in Addressed /\ ~Refused(cmd, flags)
    /\ LET all == FetchMetadata(c)
           found == IF "id" \in flags THEN {n} ELSE {all[i].id : i \in {n + 1} \cap DOMAIN all}
           meant == IF "id" \in flags THEN Hash(Row(n)) ELSE IF n < Len(all) THEN all[n + 1].hash ELSE None
       IN IF found = {}
          THEN /\ effect' = Report("out of bounds")
               /\ UNCHANGED cli
          ELSE /\ \E id \in found :
                     cli' = [cli EXCEPT ![c] = [at |-> "resolved", cmd |-> cmd, id |-> id,
                                                want |-> meant, words |-> {}]]
               /\ effect' = Nothing
    /\ UNCHANGED <<rows, nextId, clock, cap>>

\* reassemble: the chunks in order, for a row that has them.
Reassemble(r) == FlattenSeq(r.content)

Show(c) ==
    /\ cli[c].at = "resolved" /\ cli[c].cmd = "show"
    /\ \/ /\ Row(cli[c].id) = {}
          /\ Finish(c, "not found", None, None)
       \/ \E r \in Row(cli[c].id) :
             Finish(c, "show", r.id, IF r.hash \in Images THEN r.hash ELSE Reassemble(r))
    /\ UNCHANGED <<rows, nextId, clock, cap>>

SetPinState(c) ==
    /\ cli[c].at = "resolved" /\ cli[c].cmd \in {"pin", "unpin"}
    /\ rows' = {IF r.id = cli[c].id THEN [r EXCEPT !.pinned = cli[c].cmd = "pin"] ELSE r : r \in rows}
    /\ Finish(c, IF Row(cli[c].id) = {} THEN "not found" ELSE cli[c].cmd, cli[c].id, Hash(Row(cli[c].id)))
    /\ UNCHANGED <<nextId, clock, cap>>

Delete(c) ==
    /\ cli[c].at = "resolved" /\ cli[c].cmd = "delete"
    /\ rows' = rows \ Row(cli[c].id)
    /\ Finish(c, IF Row(cli[c].id) = {} THEN "not found" ELSE "delete", cli[c].id, Hash(Row(cli[c].id)))
    /\ UNCHANGED <<nextId, clock, cap>>

\* copy-to touches the row, whether or not it is still there, then asks the
\* daemon for the id.
CopyTo(c, now) ==
    /\ cli[c].at = "resolved" /\ cli[c].cmd = "copy-to"
    /\ Reads(now)
    /\ rows' = Touch(rows, cli[c].id, now)
    /\ clock' = IF Row(cli[c].id) = {} THEN clock ELSE now
    /\ cli' = [cli EXCEPT ![c].at = "restore"]
    /\ effect' = Nothing
    /\ UNCHANGED <<nextId, cap>>

\* store inserts under the command's own cap and keeps the id it is given.
StoreRun(c, body, now) ==
    /\ cli[c].at = "idle" /\ Reads(now)
    /\ \E id \in 1 .. MaxRowId :
          /\ Upsert(c, body, now, id)
          /\ cli' = [cli EXCEPT ![c] = [at |-> "restore", cmd |-> "store", id |-> id,
                                        want |-> body, words |-> {}]]
    /\ effect' = Nothing
    /\ UNCHANGED cap

\* IPC_CMD_RESTORE with that id: the daemon serves the row it finds then.
RequestRestore(c) ==
    /\ cli[c].at = "restore"
    /\ Finish(c, "restore", cli[c].id, Hash(Row(cli[c].id)))
    /\ UNCHANGED <<rows, nextId, clock, cap>>

WipeRun(c, flags) ==
    /\ cli[c].at = "idle" /\ ~Refused("wipe", flags)
    /\ rows' = {}
    /\ effect' = Report("wipe")
    /\ UNCHANGED <<nextId, clock, cap, cli>>

(***************************************************************************)
(* list.                                                                   *)
(***************************************************************************)
SaturatingAdd(a, b) == Least(a + b, 2^IntBits - 1)

\* parse_range on nothing, "a", "a-" and "a-b". A leading dash never gets here:
\* ArgContext takes "-b" for flags.
ParseRange(arg) ==
    CASE arg.form = "latest" -> [from |-> 0, to |-> DefaultLimit - 1, clamp |-> FALSE]
      [] arg.form = "single" -> [from |-> arg.a, to |-> arg.a, clamp |-> FALSE]
      [] arg.form = "open" -> [from |-> arg.a, to |-> SaturatingAdd(arg.a, DefaultLimit), clamp |-> TRUE]
      [] arg.form = "range" -> [from |-> Least(arg.a, arg.b), to |-> IF arg.a <= arg.b THEN arg.b ELSE arg.a,
                                clamp |-> TRUE]

\* The positions shown: a range past the end is clamped to the last entry.
Selected(sel, len, full) ==
    LET last == len - 1
    IN IF full THEN 0 .. last
       ELSE IF sel.clamp /\ len > 0 THEN Least(sel.from, last) .. Least(sel.to, last)
       ELSE (sel.from .. sel.to) \cap (0 .. last)

ListRun(c, arg, flags) ==
    /\ cli[c].at = "idle" /\ ~Refused("list", flags)
    /\ LET all == FetchMetadata(c)
           shown == Selected(ParseRange(arg), Len(all), "full" \in flags)
       IN effect' = [Report("list") EXCEPT !.body =
                         {[index |-> i, id |-> all[i + 1].id] : i \in shown}]
    /\ UNCHANGED <<rows, nextId, clock, cap, cli>>

(***************************************************************************)
(* search: two queries.                                                    *)
(***************************************************************************)
\* s LIKE '%word%': there are places in s, one after each character of word, such
\* that % spans any run of characters, _ any one, and any other character one
\* that differs from it in case at most. A keyword's own % and _ are not escaped.
Spans(s, from, to, x) ==
    IF x = AnyRun THEN from <= to
    ELSE to = from + 1 /\ (x = AnyOne \/ Fold[s[to]] = Fold[x])
Like(s, word) ==
    \E at \in [0 .. Len(word) -> 0 .. Len(s)] :
        \A j \in 1 .. Len(word) : Spans(s, at[j - 1], at[j], word[j])

\* strip_html_tags: from a < to the next > nothing is kept.
StripHtmlTags(data) ==
    LET step(st, b) == IF b = Open THEN [st EXCEPT !.tag = TRUE]
                       ELSE IF st.tag THEN [st EXCEPT !.tag = b # Close]
                       ELSE [st EXCEPT !.out = Append(st.out, b)]
    IN FoldLeft(step, [tag |-> FALSE, out |-> <<>>], data).out

\* The preview column: the first characters of the text, without its tags and on
\* one line.
Preview ==
    LET head(text) == SubSeq(text, 1, Least(PreviewChars, Len(text)))
        line(text) == [i \in DOMAIN text |-> IF text[i] = Newline THEN Space ELSE text[i]]
    IN [body \in Texts |-> line(head(IF body \in Markup THEN StripHtmlTags(body) ELSE body))]

\* Mutant of Matches: each chunk is matched on its own.
MatchesPerChunk(r, word) == \E i \in DOMAIN r.content : Like(r.content[i], word)

\* preview LIKE word OR BODY_TEXT_SQL LIKE word, on the rows the MIME predicate
\* admits.
Matches(r, word) ==
    /\ r.hash \notin Images
    /\ Like(Preview[r.hash], word) \/ Like(Reassemble(r), word)

\* validate_keywords: words that no row holds are dropped.
ValidateKeywords(c, words) ==
    /\ cli[c].at = "idle" /\ words # {}
    /\ LET valid == {w \in words : \E r \in rows : Matches(r, w)}
       IN IF valid = {}
          THEN /\ effect' = [Report("no match") EXCEPT !.want = words]
               /\ UNCHANGED cli
          ELSE /\ cli' = [cli EXCEPT ![c] = [Idle EXCEPT !.at = "valid", !.cmd = "search", !.want = words,
                                                           !.words = valid]]
               /\ effect' = Nothing
    /\ UNCHANGED <<rows, nextId, clock, cap>>

\* The correlated COUNT(*): rows with a later timestamp, of the whole table.
AbsIdx(r) == Cardinality({q \in rows : q.ts > r.ts})

SearchMetadata(c) ==
    /\ cli[c].at = "valid"
    /\ LET hits == {r \in rows : \A w \in cli[c].words : Matches(r, w)}
           kept == ToSet(Limit(Mru(hits), AsI64(cap[c])))
       IN /\ effect' = [Report("search") EXCEPT !.body =
                         {[index |-> AbsIdx(r), id |-> r.id] : r \in kept}]
          /\ cli' = [cli EXCEPT ![c] = Idle]
    /\ UNCHANGED <<rows, nextId, clock, cap>>

ListArgs ==
    [form : {"latest"}] \cup [form : {"single"}, a : {1}]
        \cup [form : {"open"}, a : {1, 2^IntBits - 1}]
        \cup [form : {"range"}, a : {1}, b : {0, 2}]

Command(c) ==
    \/ Refuse(c)
    \/ \E cmd \in Addressed :
          (\E n \in 0 .. 1 : ResolveTargetId(c, cmd, n, {})) \/ ResolveTargetId(c, cmd, 2, {"id"})
    \/ Show(c) \/ SetPinState(c) \/ Delete(c) \/ RequestRestore(c)
    \/ \E now \in 0 .. MaxTime : CopyTo(c, now) \/ \E body \in Texts : StoreRun(c, body, now)
    \/ WipeRun(c, {"force"})
    \/ \E arg \in ListArgs : ListRun(c, arg, {})
    \/ ListRun(c, [form |-> "latest"], {"full"})
    \/ \E words \in SUBSET Keywords : ValidateKeywords(c, words)
    \/ SearchMetadata(c)

Next ==
    \/ \E body \in Texts \cup Images, now \in 0 .. MaxTime : Ingest(body, now)
    \/ \E c \in Clis : Command(c)

Spec == Init /\ [][Next]_vars

--------------------------------------------------------------------------------
Unpinned(rs) == {r \in rs : ~r.pinned}

\* One row per digest and per id, and no id at or above the sequence.
TypeOK ==
    /\ nextId \in 1 .. MaxRowId + 1 /\ clock \in 0 .. MaxTime
    /\ \A r \in rows : r.id < nextId /\ r.ts \in 0 .. MaxTime /\ r.pinned \in BOOLEAN
    /\ \A r, q \in rows : r.id = q.id \/ r.hash = q.hash => r = q
    /\ \A p \in DOMAIN cap : cap[p] \in Usize \ {0}
    /\ \A c \in Clis : cli[c].at \in {"idle", "resolved", "restore", "valid"}

\* The chunks of a text put together again are the text, every one but the last
\* is longer than the minimum and none exceeds the maximum (cdc.rs,
\* assert_well_formed).
ChunksTile(d) ==
    LET cs == FastCdc(d)
    IN /\ FlattenSeq(cs) = d
       /\ \A i \in DOMAIN cs : /\ Len(cs[i]) \in 1 .. CdcMax
                               /\ i < Len(cs) => Len(cs[i]) > CdcMin

\* A command acts on the entry that stood at the position its user named, or on
\* nothing: whatever the daemon inserts, touches or rotates between the
\* command's two queries, the id it resolved never comes to mean another
\* payload; what show prints is that payload, reassembled; and store restores
\* what it stored.
ActsOnMeant ==
    effect.cmd \in {"show", "pin", "unpin", "delete", "restore"} =>
        effect.want = None \/ effect.body \in {None, effect.want}

\* word stands in s as it is.
Occurs(word, s) == \E i \in 1 .. Len(s) + 1 - Len(word) : SubSeq(s, i, i + Len(word) - 1) = word

\* How many rows a query with this cap returns at most.
LimitOf(n, many) == IF AsI64(n) < 0 THEN many ELSE n

\* What a step that validates keywords or searches has to report.
SearchStep ==
    LET texts == {r \in rows : r.hash \notin Images}
        alike(words) == {r \in texts : \A w \in words : Like(Preview[r.hash], w) \/ Like(r.hash, w)}
        holding(words) == {r \in texts : \A w \in words : Occurs(w, r.hash)}
        newest(rs, n) == {r \in rs : Cardinality({q \in rs : Newer(q, r)}) < LimitOf(n, Cardinality(rs))}
    IN \A c \in Clis :
          /\ cli[c].at = "idle" /\ cli'[c].at = "valid" =>
                 \A w \in cli'[c].want \ cli'[c].words : alike({w}) = {} /\ holding({w}) = {}
          /\ effect'.cmd = "no match" => \A w \in effect'.want : alike({w}) = {} /\ holding({w}) = {}
          /\ cli[c].at = "valid" /\ cli'[c].at = "idle" =>
                 /\ {h.id : h \in effect'.body} = {r.id : r \in newest(alike(cli[c].words), cap[c])}
                 /\ holding(cli[c].words) \subseteq alike(cli[c].words)

\* search drops a keyword only if no text holds it, and lists, newest first and
\* up to the cap, the texts whose payload or preview is LIKE all the others: every
\* text that holds them as they were typed is among these, wherever a chunk
\* boundary falls. Others are there only by case, by a % or _ in the keyword, or
\* by what the preview makes of tags and line ends.
SearchExact == [][SearchStep]_vars

IndexStep ==
    /\ effect'.cmd = "list" =>
           \E c \in Clis : \A h \in effect'.body :
               h.index < Len(FetchMetadata(c)) /\ FetchMetadata(c)[h.index + 1].id = h.id
    /\ effect'.cmd = "search" /\ (\A r, q \in rows : r.ts = q.ts => r = q) =>
           \A h \in effect'.body, c \in Clis :
               IF h.index < Len(FetchMetadata(c)) THEN FetchMetadata(c)[h.index + 1].id = h.id
               ELSE h.index >= cap[c]

\* An index list shows is the position its own process resolves it from. One that
\* search shows, if no two rows share a millisecond, means the same entry to
\* every show, copy-to and delete that resolves it at all; it is refused only
\* when it is not below that process's cap.
IndexAgrees == [][IndexStep]_effect

\* What list and search print is right: which entries, and under which index.
ListingExact == SearchExact /\ IndexAgrees

\* The step of process p that stores a payload.
Writes(p) ==
    IF p = Daemon THEN cli' = cli /\ effect' = Nothing
    ELSE cli[p].at = "idle" /\ cli'[p].cmd = "store"

\* Rotation after an insertion or a touch by process p.
RotationStep(p) ==
    LET room == IF cap[p] < 2^(IntBits - 1) THEN cap[p] ELSE 0
        inserted == nextId' # nextId
        many == Cardinality(Unpinned(rows)) + (IF inserted THEN 1 ELSE 0)
    IN /\ Cardinality(Unpinned(rows')) = Least(room, many)
       /\ inserted /\ (\A r \in rows' : r.id # nextId) =>
              Cardinality({r \in Unpinned(rows') : r.ts >= clock'}) = room
       /\ \A r \in rows : r.pinned => \E q \in rows' : q.id = r.id /\ q.pinned

\* Whatever caps the processes derived from their settings, a writer's rotation
\* leaves as many unpinned rows as its own cap has room for and no fewer, and
\* every pinned one. The row it has just inserted goes only if as many rows as
\* the cap carry its millisecond or, the clock having been set back, a later
\* one. A cap that is negative as an i64 has room for none.
KeepsUpToCap ==
    [][\A p \in DOMAIN cap : Writes(p) => RotationStep(p)]_<<rows, nextId>>
================
