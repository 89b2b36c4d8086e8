----------------------------- MODULE CtrlLogger -----------------------------
(***************************************************************************)
(* xmotion::CtrlLogger: a table logger.  Column names are collected, a     *)
(* header line is passed to the logger, then values are set one by one and *)
(* each PassEntryDataToLogger() logs the current row.                      *)
(*                                                                         *)
(* The class keeps no lock and is used from one thread.  logger_->info()   *)
(* hands a line to spdlog, which writes the lines of one thread in order;  *)
(* lines is the sequence handed over, in a build with ENABLE_LOGGING.      *)
(* Sequences start at 1 and ids at 0: id's element is element id + 1.      *)
(***************************************************************************)
EXTENDS Integers, Sequences, FiniteSets

CONSTANTS Names,         \* column names
          Values, Empty, \* data strings, among them the empty one
          Zero,          \* the string "0"
          MaxLines       \* bound on the number of lines logged

ASSUME ValuesAssumption == Empty \in Values /\ MaxLines \in Nat

VARIABLES
  head_added,      \* head_added_
  entry_names,     \* entry_names_, whose keys are 0 .. item_counter_ - 1
  entry_ids,       \* entry_ids_
  item_data,       \* item_data_
  lines,           \* the lines passed to the logger
  latest,          \* history: the last value set for each name
  undefined        \* item_data_ was indexed out of range

table == <<entry_names, entry_ids>>
vars  == <<head_added, table, item_data, lines, latest, undefined>>

\* item_counter_ is incremented exactly when a name is added.
item_counter == Len(entry_names)

Init ==
  /\ head_added = FALSE
  /\ entry_names = << >>
  /\ entry_ids = [n \in {} |-> 0]
  /\ item_data = << >>
  /\ lines = << >>
  /\ latest = [n \in Names |-> Empty]
  /\ undefined = FALSE

-----------------------------------------------------------------------------
\* The behaviour is still defined: no access out of range so far.
Defined == ~undefined

Known(name) == name \in DOMAIN entry_ids

WithId(name, id) ==
  [n \in DOMAIN entry_ids \cup {name} |-> IF n = name THEN id ELSE entry_ids[n]]

\* Faulty form of AddItemNameToEntryHead: ids start at 1.
AddItemNameFromOne(name) ==
  /\ Defined
  /\ ~Known(name)
  /\ entry_names' = Append(entry_names, name)
  /\ entry_ids' = WithId(name, item_counter + 1)
  /\ UNCHANGED <<head_added, item_data, lines, latest, undefined>>

\* A name that is already there is left alone.
AddItemNameToEntryHead(name) ==
  /\ Defined
  /\ ~Known(name)
  /\ entry_names' = Append(entry_names, name)
  /\ entry_ids' = WithId(name, item_counter)
  /\ UNCHANGED <<head_added, item_data, lines, latest, undefined>>

\* item_data_[id] = v for an id in range.
SetItem(id, v) ==
  /\ item_data' = [item_data EXCEPT ![id + 1] = v]
  /\ latest' = [latest EXCEPT ![entry_names[id + 1]] = v]

\* Data is ignored before the header and for an unknown name.
AddItemDataByName(name, v) ==
  /\ Defined
  /\ head_added
  /\ Known(name)
  /\ entry_ids[name] < Len(item_data)
  /\ SetItem(entry_ids[name], v)
  /\ UNCHANGED <<head_added, table, lines, undefined>>

\* The index is not compared with item_data_.size(): after this, anything.
AddItemDataOutOfRange(name) ==
  /\ Defined
  /\ head_added
  /\ Known(name)
  /\ entry_ids[name] >= Len(item_data)
  /\ undefined' = TRUE
  /\ UNCHANGED <<head_added, table, item_data, lines, latest>>

\* Data for an id out of range is ignored.
AddItemDataById(id, v) ==
  /\ Defined
  /\ head_added
  /\ id < Len(item_data)
  /\ SetItem(id, v)
  /\ UNCHANGED <<head_added, table, lines, undefined>>

\* resize() keeps the data and appends empty strings.
Resized(n) == [k \in 1..n |-> IF k <= Len(item_data) THEN item_data[k] ELSE Empty]

\* Faulty forms of PassEntryHeaderToLogger: only the names added since the
\* last header; the row is not resized.
PassEntryHeaderNewNames ==
  /\ Defined /\ Len(lines) < MaxLines
  /\ item_counter > 0
  /\ lines' = Append(lines, [kind |-> "head",
                 fields |-> SubSeq(entry_names, Len(item_data) + 1, item_counter)])
  /\ item_data' = Resized(item_counter)
  /\ head_added' = TRUE
  /\ UNCHANGED <<table, latest, undefined>>
PassEntryHeaderKeepsSize ==
  /\ Defined /\ Len(lines) < MaxLines
  /\ item_counter > 0
  /\ lines' = Append(lines, [kind |-> "head", fields |-> entry_names])
  /\ item_data' = IF head_added THEN item_data ELSE Resized(item_counter)
  /\ head_added' = TRUE
  /\ UNCHANGED <<table, latest, undefined>>

PassEntryHeaderToLogger ==
  /\ Defined /\ Len(lines) < MaxLines
  /\ item_counter > 0
  /\ lines' = Append(lines, [kind |-> "head", fields |-> entry_names])
  /\ item_data' = Resized(item_counter)
  /\ head_added' = TRUE
  /\ UNCHANGED <<table, latest, undefined>>

Shown(v) == IF v = Empty THEN Zero ELSE v

\* The row is logged unless there is no column; the data stays for the next.
PassEntryDataToLogger ==
  /\ Defined /\ Len(lines) < MaxLines
  /\ item_data # << >>
  /\ lines' = Append(lines, [kind |-> "row",
                             fields |-> [k \in DOMAIN item_data |->
                                           Shown(item_data[k])]])
  /\ UNCHANGED <<head_added, table, item_data, latest, undefined>>

\* The early returns: a name that is known, data before the header, an unknown
\* name, an id out of range, a header without names, a row without columns.  An
\* id out of range can be passed at any time.
Ignored == Defined /\ UNCHANGED vars

\* After an access out of range nothing more is said.
Halted == ~Defined /\ UNCHANGED vars

Next ==
  \/ \E name \in Names : AddItemNameToEntryHead(name) \/ AddItemDataOutOfRange(name)
  \/ \E name \in Names, v \in Values : AddItemDataByName(name, v)
  \/ \E id \in 0..Cardinality(Names), v \in Values : AddItemDataById(id, v)
  \/ PassEntryHeaderToLogger
  \/ PassEntryDataToLogger
  \/ Ignored
  \/ Halted

Spec == Init /\ [][Next]_vars

-----------------------------------------------------------------------------
(* Properties.                                                             *)

\* Types; the two maps are inverse to each other and no item has data without
\* having a name.
TypeOK ==
  /\ head_added \in BOOLEAN /\ undefined \in BOOLEAN
  /\ entry_names \in Seq(Names) /\ DOMAIN entry_ids \subseteq Names
  /\ Cardinality(DOMAIN entry_ids) = item_counter
  /\ \A n \in DOMAIN entry_ids :
       entry_ids[n] < item_counter /\ entry_names[entry_ids[n] + 1] = n
  /\ item_data \in Seq(Values) /\ Len(item_data) <= item_counter
  /\ latest \in [Names -> Values]

Headers == {k \in DOMAIN lines : lines[k].kind = "head"}
LastHeader == lines[CHOOSE k \in Headers : \A j \in Headers : j <= k].fields

\* Every logged row belongs under the header above it: as many fields as that
\* header has names, and under each name the last value set for it, by name or
\* by id, or "0".
RowMatchesHeader ==
  [][Len(lines') > Len(lines) /\ lines'[Len(lines')].kind = "row" =>
       LET row == lines'[Len(lines')].fields
       IN  /\ Headers # {}
           /\ Len(row) = Len(LastHeader)
           /\ \A k \in DOMAIN row : row[k] = Shown(latest[LastHeader[k]])]_vars

\* Columns never move: a later header repeats the earlier one and may add
\* names to it.
HeadersExtend ==
  \A j, k \in Headers : j < k =>
    /\ Len(lines[j].fields) <= Len(lines[k].fields)
    /\ \A c \in DOMAIN lines[j].fields : lines[j].fields[c] = lines[k].fields[c]

\* "the out-of-range-id guard": no call indexes item_data_ out of range.
\* Broken by data for a name that was added after the header.
IndexInRange == ~undefined
=============================================================================
