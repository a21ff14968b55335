---------------------------- MODULE Portability ----------------------------
(***************************************************************************)
(* Taking a personal library out of the program and back in: the export    *)
(* (export_user_data, personal/export_service.py), the parsers of uploads  *)
(* and of pasted text (personal/mapping.py, apps/web/.../import.ts), the   *)
(* resolution of titles, the preview and the import.                       *)
(*                                                                         *)
(* The export reads one table after the other, each statement seeing what  *)
(* is committed by then, while the user goes on.  What comes back of a     *)
(* file depends on its format: a row is taken with all its fields, and a   *)
(* reader keeps those whose column it recognizes.                          *)
(*                                                                         *)
(* An import is one transaction here; PersonalLibrary interleaves it with  *)
(* other requests.                                                         *)
(***************************************************************************)
EXTENDS Naturals, Sequences, FiniteSets, FiniteSetsExt, SequencesExt

CONSTANTS
  Works,         \* titles of the catalogue
  NameOf, Released,
  Like,          \* the titles whose name contains a given name
  Past,          \* days of watch events
  Scopes,        \* scopes of exports
  Foreign,       \* files of other programs: sequences of rows
  Pdfs,          \* PDFs: sequences of pages, which are sequences of rows
  MaxEdits,      \* bound: changes the user makes
  MaxImports,    \* bound: imports applied
  None

\* Events are of days in the past, and what is uploaded or pasted are rows in an order.
PortabilityAssumption ==
  /\ IsFiniteSet(Works) /\ None \notin Works \cup {"PLAN_TO_WATCH"}
  /\ IsFiniteSet(Past) /\ Past # {} /\ Past \subseteq Nat \ {0}
  /\ MaxImports \in Nat
  /\ \A rows \in Foreign : rows \in Seq(ToSet(rows))
  /\ \A pages \in Pdfs : pages \in Seq(ToSet(pages)) /\ \A page \in ToSet(pages) : page \in Seq(ToSet(page))

VARIABLES
  account,       \* the user's rows
  edits,
  export,        \* the export being read, with its scope and next section
  file,          \* the file downloaded last, with the document it was made of
  wizard,        \* items to import, with what the preview said of them
  imports

vars == <<account, edits, export, file, wizard, imports>>

Tables == <<"library", "watchlist", "watch_history", "ratings", "states", "notes", "reviews", "lists">>

Now == Max(Past) + 1 + imports           \* when an import takes place

\* A watch event; part: of an episode.
Viewing == [title : Works, day : Past \cup (Max(Past) + 1)..(Max(Past) + MaxImports), part : BOOLEAN, note : BOOLEAN]
NoState == [status |-> "absent", fav |-> FALSE]

\* A new account.  Notes are those the user wrote and those that repeat the note of
\* an event; a collection has items with their positions.
Empty ==
  [library |-> {}, states |-> [t \in Works |-> NoState], watch_history |-> [e \in Viewing |-> 0],
   ratings |-> [t \in Works |-> 0], notes |-> [n \in Works \X {"own", "event"} |-> 0],
   reviews |-> {}, lists |-> None]

Row == [id |-> None, display |-> None, name |-> None, year |-> 0, plain |-> TRUE,
        day |-> 0, rating |-> 0, status |-> None, fav |-> FALSE, note |-> FALSE]
NoExport == [scope |-> None, next |-> 0, doc |-> << >>]
NoFile == [format |-> None, doc |-> << >>]
NoWizard == [at |-> "closed", from |-> None, items |-> << >>, verdicts |-> << >>]

Init ==
  /\ account = Empty /\ edits = 0 /\ imports = 0
  /\ export = NoExport /\ file = NoFile /\ wizard = NoWizard
-----------------------------------------------------------------------------
(* What the user does meanwhile *)

\* create_watch_event, which completes a film, and the deletion of an event.
Logged(a) ==
  {[a EXCEPT !.watch_history[e] = @ + 1,
             !.states[e.title].status = IF e.part THEN "WATCHING" ELSE "COMPLETED"] :
     e \in {e \in Viewing : e.day \in Past /\ a.watch_history[e] < 2}}
  \cup {[a EXCEPT !.watch_history[e] = @ - 1] : e \in {e \in Viewing : a.watch_history[e] > 0}}

\* update_user_title_state.
Marked(a) ==
  UNION {{[a EXCEPT !.states[t] = [status |-> "PLAN_TO_WATCH", fav |-> @.fav]],
          [a EXCEPT !.states[t] = [status |-> IF @ = NoState THEN None ELSE @.status, fav |-> ~@.fav]]} :
           t \in Works}

\* set_rating, add_to_library, remove_from_library.
Shelved(a) ==
  UNION {{[a EXCEPT !.ratings[t] = 4],
          [a EXCEPT !.library = IF t \in @ THEN @ \ {t} ELSE @ \cup {t}]} : t \in Works}

\* create_note and delete_note, create_review and delete_review.
Noted(a) == {[a EXCEPT !.notes[<<t, "own">>] = 1 - @] : t \in Works}
Reviewed(a) == {[a EXCEPT !.reviews = IF t \in @ THEN @ \ {t} ELSE @ \cup {t}] : t \in Works}

\* create_collection and delete_collection.
Curated(a) == {[a EXCEPT !.lists = IF @ = None THEN {} ELSE None]}

\* add_collection_item: a title once, at the position that is the number of items.
Collected(a) ==
  {[a EXCEPT !.lists = @ \cup {[title |-> t, position |-> Cardinality(@)]}] :
     t \in {t \in Works : a.lists # None /\ \A i \in a.lists : i.title # t}}

\* remove_collection_item leaves the other positions as they are.
Uncollected(a) == IF a.lists = None THEN {} ELSE {[a EXCEPT !.lists = @ \ {i}] : i \in a.lists}

Edit ==
  /\ edits < MaxEdits /\ edits' = edits + 1
  /\ account' \in Logged(account) \cup Marked(account) \cup Shelved(account) \cup Noted(account)
                  \cup Reviewed(account) \cup Curated(account) \cup Collected(account) \cup Uncollected(account)
  /\ UNCHANGED <<export, file, wizard, imports>>

\* get_collection_detail: the titles by their position, equal ones in any order.
Detail(a) ==
  LET Pos(t) == (CHOOSE i \in a.lists : i.title = t).position
  IN {s \in SetToSeqs({i.title : i \in a.lists}) : \A i, j \in DOMAIN s : i < j => Pos(s[i]) <= Pos(s[j])}
-----------------------------------------------------------------------------
(* Export *)

Planned(a) == {t \in Works : a.states[t].status \in {"PLAN_TO_WATCH", "WATCHLIST"}}

ReadLibraryRows(a)   == a.library
ReadWatchlistRows(a) == Planned(a)
ReadHistoryRows(a)   == a.watch_history
ReadRatingRows(a)    == a.ratings
ReadStateRows(a)     == a.states
ReadNoteRows(a)      == a.notes
ReadReviewRows(a)    == a.reviews
ReadListRows(a)      == a.lists

Read(a, table) ==
  CASE table = "library"       -> ReadLibraryRows(a)
    [] table = "watchlist"     -> ReadWatchlistRows(a)
    [] table = "watch_history" -> ReadHistoryRows(a)
    [] table = "ratings"       -> ReadRatingRows(a)
    [] table = "states"        -> ReadStateRows(a)
    [] table = "notes"         -> ReadNoteRows(a)
    [] table = "reviews"       -> ReadReviewRows(a)
    [] table = "lists"         -> ReadListRows(a)

Blank(table) == IF table = "watchlist" THEN {} ELSE Empty[table]

\* downloadExport, export_personal_data: an export of everything or of one scope; one
\* in each behaviour.
StartExport(scope) ==
  /\ export = NoExport /\ file = NoFile
  /\ export' = [scope |-> scope, next |-> 1, doc |-> [x \in ToSet(Tables) |-> Blank(x)]]
  /\ UNCHANGED <<account, edits, file, wizard, imports>>

\* export_user_data reads the next table.
ReadTable ==
  LET table == Tables[export.next]
  IN /\ export # NoExport /\ export.next <= Len(Tables)
     /\ export' = [export EXCEPT !.next = @ + 1,
          !.doc[table] = IF export.scope \in {"all", table} THEN Read(account, table) ELSE @]
     /\ UNCHANGED <<account, edits, file, wizard, imports>>

\* The file is built and downloaded; other formats are refused.
Download(format) ==
  /\ export # NoExport /\ export.next > Len(Tables)
  /\ export' = NoExport
  /\ file' = IF format \in {"json", "csv", "xlsx", "md"} THEN [format |-> format, doc |-> export.doc] ELSE NoFile
  /\ UNCHANGED <<account, edits, wizard, imports>>
-----------------------------------------------------------------------------
(* The rows of a file *)

About(t) == [Row EXCEPT !.id = t, !.display = t, !.name = NameOf[t], !.year = Released[t]]

\* The rows of the elements in the domain of rows, one after the other.
AllRows(rows) == FoldSet(LAMBDA x, all : all \o rows[x], << >>, DOMAIN rows)
\* A row as often as its table has it.
Times(n, row) == [i \in 1..n |-> row]

LibraryRows(doc)   == AllRows([t \in doc.library |-> <<About(t)>>])
WatchlistRows(doc) == AllRows([t \in doc.watchlist |-> <<About(t)>>])
HistoryRows(doc) ==
  AllRows([e \in Viewing |->
             Times(doc.watch_history[e], [About(e.title) EXCEPT !.day = e.day, !.note = e.note])])
RatingRows(doc) ==
  AllRows([t \in {t \in Works : doc.ratings[t] # 0} |-> <<[About(t) EXCEPT !.rating = doc.ratings[t]]>>])
NoteRows(doc)   == AllRows([n \in DOMAIN doc.notes |-> Times(doc.notes[n], About(n[1]))])
ReviewRows(doc) == AllRows([t \in doc.reviews |-> <<About(t)>>])
ListRows(doc)   == IF doc.lists = None THEN << >> ELSE AllRows([i \in doc.lists |-> <<About(i.title)>>])

\* What a reader keeps of rows: the fields whose header resolve_field_name knows.
\* It turns an underscore into a blank, so that an alias with one never matches.
Keep(rows, fields) == [i \in DOMAIN rows |-> [f \in DOMAIN Row |-> IF f \in fields THEN rows[i][f] ELSE Row[f]]]

\* parse_csv_content of the tables of an archive: of their headers it knows only
\* display_id and notes; and parse_xlsx_content, whose sheets differ.
CsvTable(rows) == Keep(rows, {"display", "note"})
Sheet(rows, fields) == Keep(rows, {"name", "year"} \cup fields)

\* parse_unstructured_text_content finds a title and its year in an item of a list,
\* the name still in its asterisks.
TextLines(rows) == LET found == Keep(rows, {"name", "year"})
                   IN [i \in DOMAIN found |-> [found[i] EXCEPT !.plain = FALSE]]

\* Mutant of JsonRows: planned titles are not marked.
JsonRowsUnmarked(doc) ==
  LibraryRows(doc) \o WatchlistRows(doc) \o HistoryRows(doc) \o RatingRows(doc) \o NoteRows(doc) \o ReviewRows(doc)

\* parse_json_content of build_json_export: every field, but of six tables only.
JsonRows(doc) ==
  LET planned == [i \in DOMAIN WatchlistRows(doc) |-> [WatchlistRows(doc)[i] EXCEPT !.status = "PLAN_TO_WATCH"]]
  IN LibraryRows(doc) \o planned \o HistoryRows(doc) \o RatingRows(doc) \o NoteRows(doc) \o ReviewRows(doc)

\* build_csv_zip_export, a table for each.
CsvRows(doc) ==
  CsvTable(LibraryRows(doc) \o HistoryRows(doc) \o RatingRows(doc) \o NoteRows(doc) \o ReviewRows(doc)
             \o ListRows(doc))

\* build_excel_export: its sheets, but for the overview.
XlsxRows(doc) ==
     Sheet(LibraryRows(doc), {"display"}) \o Sheet(HistoryRows(doc), {"day", "note"})
  \o Sheet(RatingRows(doc) \o NoteRows(doc) \o ReviewRows(doc) \o ListRows(doc), {})

\* build_markdown_export: of its lines only those of collections read as titles.
MarkdownRows(doc) == TextLines(ListRows(doc))

RowsOf(f) ==
  CASE f.format = "json" -> JsonRows(f.doc)
    [] f.format = "csv"  -> CsvRows(f.doc)
    [] f.format = "xlsx" -> XlsxRows(f.doc)
    [] f.format = "md"   -> MarkdownRows(f.doc)
-----------------------------------------------------------------------------
(* Items to import *)

ParseStatus(status) == IF status = None THEN "COMPLETED" ELSE status

\* Five and less count as stars of five.
ParseRating(n) == IF n <= 5 THEN 2 * n ELSE n

\* convert_raw_dict_to_import_payload: watched now, unless it is said when or the
\* title is not completed.
Converted(row) ==
  LET status == ParseStatus(row.status)
  IN [row EXCEPT !.status = status, !.rating = ParseRating(@),
                 !.day = IF @ = 0 /\ status = "COMPLETED" THEN Now ELSE @]

\* The k-th of a set of positions.
Nth(S, k) == CHOOSE i \in S : Cardinality({j \in S : j <= i}) = k

Valid(item) == item.name # None \/ item.id # None

\* upload_import_file, of an archive or of another program's file.
Upload(rows, from) ==
  /\ wizard = NoWizard /\ imports < MaxImports
  /\ LET valid == {i \in DOMAIN rows : Valid(Converted(rows[i]))}
         items == [k \in 1..Cardinality(valid) |-> Converted(rows[Nth(valid, k)])]
     IN wizard' = IF items = << >> THEN NoWizard
                  ELSE [at |-> "items", from |-> from, items |-> items, verdicts |-> << >>]
  /\ UNCHANGED <<account, edits, export, file, imports>>

\* parseImportText of the web client: titles with their year, completed; stars are
\* the rating, and lines without a date are of today.
Pasted(row) ==
  [Keep(<<row>>, {"name", "year", "rating", "day", "note"})[1] EXCEPT !.status = "COMPLETED",
     !.day = IF @ = 0 THEN Now ELSE @]

Paste(rows) ==
  /\ wizard = NoWizard /\ imports < MaxImports /\ rows # << >>
  /\ wizard' = [at |-> "items", from |-> "paste", items |-> [i \in DOMAIN rows |-> Pasted(rows[i])],
                verdicts |-> << >>]
  /\ UNCHANGED <<account, edits, export, file, imports>>

\* extract_pdf_text_for_import: the pages that have text, unless none has.
PdfText(pages) == FlattenSeq(pages)
-----------------------------------------------------------------------------
(* Titles of items *)

Found(t, verdict) == [title |-> t, verdict |-> verdict, among |-> {}]
Unsure(S) == [title |-> None, verdict |-> "REVIEW_REQUIRED", among |-> S]

Named(name) == {t \in Works : NameOf[t] = name}

\* _resolve_import_candidate_titles: what it may answer.  Of several titles with
\* that name and year it takes the first that the database returns.
Resolutions(item) ==
  LET exact == IF item.plain THEN Named(item.name) ELSE {}
      dated == {t \in exact : item.year # 0 /\ Released[t] = item.year}
      alike == IF item.name = None THEN {} ELSE Like[item.name]
  IN CASE item.id # None -> {Found(item.id, "EXACT_MATCH")}
       [] item.id = None /\ item.display # None -> {Found(item.display, "EXACT_MATCH")}
       [] OTHER ->
            IF dated # {}
            THEN {[Found(t, "EXACT_MATCH") EXCEPT !.among = IF Cardinality(dated) > 1 THEN dated ELSE {}] : t \in dated}
            ELSE CASE Cardinality(exact) = 1 ->
                        {Found(t, IF item.year = 0 THEN "EXACT_MATCH" ELSE "PROBABLE_MATCH") : t \in exact}
                   [] Cardinality(exact) > 1 -> {Unsure(exact)}
                   [] exact = {} /\ Cardinality(alike) = 1 -> {Found(t, "PROBABLE_MATCH") : t \in alike}
                   [] exact = {} /\ Cardinality(alike) > 1 -> {Unsure(alike)}
                   [] exact = {} /\ alike = {} -> {Found(None, "UNMATCHED")}

\* What may be answered for each of the items.
AllResolutions(items) ==
  {v \in [DOMAIN items -> UNION {Resolutions(items[i]) : i \in DOMAIN items}] :
     \A i \in DOMAIN items : v[i] \in Resolutions(items[i])}

At(a, t, d) == {e \in Viewing : e.title = t /\ e.day = d /\ a.watch_history[e] > 0}

\* preview_user_import: a verdict for each item, and the watch events that are there.
Preview ==
  /\ wizard.at = "items"
  /\ \E v \in AllResolutions(wizard.items) :
       wizard' = [wizard EXCEPT !.at = "previewed",
         !.verdicts = [i \in DOMAIN v |->
           [resolution |-> v[i],
            duplicate |-> v[i].title # None /\ At(account, v[i].title, wizard.items[i].day) # {}]]]
  /\ UNCHANGED <<account, edits, export, file, imports>>

\* The user picks a candidate: its name and year replace those of the item.
Disambiguate(i, t) ==
  /\ wizard.at = "previewed" /\ i \in DOMAIN wizard.items
  /\ t \in wizard.verdicts[i].resolution.among
  /\ wizard' = [wizard EXCEPT !.at = "items", !.verdicts = << >>,
       !.items[i].name = NameOf[t], !.items[i].year = Released[t], !.items[i].plain = TRUE]
  /\ UNCHANGED <<account, edits, export, file, imports>>
-----------------------------------------------------------------------------
(* Import *)

\* Mutant of ImportsEvent: watch events are not looked for.
ImportsEventAlways(a, t, item) == item.day # 0

ImportsEvent(a, t, item) == item.day # 0 /\ At(a, t, item.day) = {}
ImportsNote(a, t, item) == item.note /\ a.notes[<<t, "event">>] = 0

\* The import fails when it inserts a row twice, since it looks for rows among
\* those that are committed, or when it looks for one note and finds several.
Fails(a, items, at) ==
  \/ \E i, j \in DOMAIN items :
       /\ i < j /\ at[i] # None /\ at[i] = at[j]
       /\ \/ a.states[at[i]] = NoState
          \/ a.ratings[at[i]] = 0 /\ items[i].rating # 0 /\ items[j].rating # 0
          \/ /\ at[i] \notin a.library
             /\ items[i].status # "PLAN_TO_WATCH" /\ items[j].status # "PLAN_TO_WATCH"
  \/ \E i \in DOMAIN items : at[i] # None /\ items[i].note /\ a.notes[<<at[i], "event">>] > 1

\* The account after it: new rows, and with OVERWRITE or MERGE the rating, status
\* and favourite of the last item in the place of those that were there.
Restored(a, items, at, keep) ==
  LET Of(t) == {i \in DOMAIN items : at[i] = t}
      Rated(t) == {i \in Of(t) : items[i].rating # 0}
  IN [a EXCEPT
       !.watch_history = [e \in Viewing |-> a.watch_history[e] +
          IF e.part THEN 0
          ELSE Cardinality({i \in Of(e.title) : /\ items[i].day = e.day /\ items[i].note = e.note
                                                /\ ImportsEvent(a, e.title, items[i])})],
       !.ratings = [t \in Works |-> IF Rated(t) = {} \/ (keep /\ a.ratings[t] # 0) THEN a.ratings[t]
                                    ELSE items[Max(Rated(t))].rating],
       !.states = [t \in Works |-> IF Of(t) = {} \/ (keep /\ a.states[t] # NoState) THEN a.states[t]
                                   ELSE LET last == items[Max(Of(t))] IN [status |-> last.status, fav |-> last.fav]],
       !.library = @ \cup {t \in Works : \E i \in Of(t) : items[i].status # "PLAN_TO_WATCH"},
       !.notes = [n \in Works \X {"own", "event"} |-> a.notes[n] +
          IF n[2] = "own" THEN 0 ELSE Cardinality({i \in Of(n[1]) : ImportsNote(a, n[1], items[i])})]]

\* apply_user_import of what was previewed, resolved anew.
Apply(keep) ==
  /\ wizard.at = "previewed"
  /\ \E v \in AllResolutions(wizard.items) :
       LET at == [i \in DOMAIN v |-> v[i].title]
       IN account' = IF Fails(account, wizard.items, at) THEN account
                     ELSE Restored(account, wizard.items, at, keep)
  /\ wizard' = NoWizard /\ imports' = imports + 1
  /\ UNCHANGED <<edits, export, file>>

\* The user moves to a new account with the file.
Move ==
  /\ file # NoFile /\ wizard = NoWizard /\ imports = 0 /\ account' = Empty
  /\ UNCHANGED <<edits, export, file, wizard, imports>>

Next ==
  \/ Edit \/ ReadTable \/ Preview \/ Move
  \/ \E scope \in Scopes : StartExport(scope)
  \/ \E format \in {"json", "csv", "xlsx", "md", "other"} : Download(format)
  \/ file # NoFile /\ Upload(RowsOf(file), file.format)
  \/ \E rows \in Foreign : Upload(rows, "foreign") \/ Paste(rows)
  \/ \E pages \in Pdfs : Paste(PdfText(pages)) \/ Upload(PdfText(pages), "foreign")
  \/ \E i \in DOMAIN wizard.items, t \in Works : Disambiguate(i, t)
  \/ \E keep \in BOOLEAN : Apply(keep)

Spec == Init /\ [][Next]_vars
-----------------------------------------------------------------------------
(* Properties *)

\* A JSON archive is imported, and not refused as a whole.
Restores ==
  /\ wizard.from = "json" /\ wizard.at = "previewed" /\ wizard'.at = "closed"
  /\ account' # account

Count(history, t, d) ==
  MapThenSumSet(LAMBDA e : history[e], {e \in Viewing : e.title = t /\ e.day = d})

\* What was watched survives the way out and back: when a JSON archive is imported,
\* into whatever account and however often, every day of its history is in the
\* account, as often as it was there or else as the archive has it.
HistoryMoves ==
  [][Restores => \A t \in Works, d \in Past :
       LET had == Count(account.watch_history, t, d)
       IN Count(account'.watch_history, t, d) =
            IF had > 0 THEN had ELSE Count(file.doc.watch_history, t, d)]_vars

\* The titles of the tables that come back as completed.
Elsewhere(doc) ==
  doc.library \cup doc.reviews \cup {t \in Works : doc.ratings[t] # 0}
    \cup {e.title : e \in {e \in Viewing : doc.watch_history[e] > 0}}
    \cup {n[1] : n \in {n \in DOMAIN doc.notes : doc.notes[n] > 0}}

\* A title that is only planned in a JSON archive is not watched, completed or put
\* into the library by its import.
PlannedNotWatched ==
  [][Restores => \A t \in file.doc.watchlist \ Elsewhere(file.doc) :
       /\ \A e \in Viewing : e.title = t => account'.watch_history[e] = account.watch_history[e]
       /\ account'.states[t].status = "COMPLETED" => account.states[t].status = "COMPLETED"
       /\ t \in account'.library => t \in account.library]_vars

\* A JSON archive of everything brings a new account to what the old one was.  It
\* does not: see README.md.
RoundTrip ==
  [][Restores /\ account = Empty => account'.library = file.doc.library /\ account'.states = file.doc.states
       /\ account'.ratings = file.doc.ratings /\ account'.notes = file.doc.notes
       /\ account'.watch_history = file.doc.watch_history]_vars

\* What is added to a collection is shown after what was there.  It is not: see
\* README.md.
AddedLast ==
  [][account.lists # None /\ account'.lists # None =>
       LET new == {i.title : i \in account'.lists} \ {i.title : i \in account.lists}
       IN new # {} => \A s \in Detail(account') : Last(s) \in new]_vars
=============================================================================
