-------------------------- MODULE CtrlLoggerProofs --------------------------
(***************************************************************************)
(* Proofs about CtrlLogger, for every set of names and values and every    *)
(* number of lines.                                                        *)
(***************************************************************************)
EXTENDS CtrlLogger, SequenceTheorems, FiniteSetTheorems, TLAPS

-----------------------------------------------------------------------------
(* The inductive invariant behind the properties, by parts.                *)

\* Columns are numbered in the order of the names, each name once.
Columns ==
  /\ IsFiniteSet(DOMAIN entry_ids)
  /\ \A n \in DOMAIN entry_ids : entry_ids[n] \in Nat
  /\ \A k \in 1..item_counter :
       entry_names[k] \in DOMAIN entry_ids /\ entry_ids[entry_names[k]] = k - 1

\* The row holds the last value of each name that has a column in it; a name
\* that has none was never given one.
RowData ==
  /\ \A k \in 1..Len(item_data) : item_data[k] = latest[entry_names[k]]
  /\ \A n \in Names :
       (\A k \in 1..Len(item_data) : entry_names[k] # n) => latest[n] = Empty

Lines == [kind : {"head", "row"}, fields : Seq(Names \cup Values \cup {Zero})]

\* Every header shows the names as they were then, and the last one is as wide
\* as the row.
HeaderLines ==
  /\ lines \in Seq(Lines)
  /\ \A k \in Headers :
       /\ Len(lines[k].fields) <= Len(item_data)
       /\ \A c \in 1..Len(lines[k].fields) : lines[k].fields[c] = entry_names[c]
  /\ \A j, k \in Headers :
       j < k => Len(lines[j].fields) <= Len(lines[k].fields)
  /\ item_data # << >> =>
       \E k \in Headers : /\ \A j \in Headers : j <= k
                          /\ Len(lines[k].fields) = Len(item_data)

IInv == TypeOK /\ Columns /\ RowData /\ HeaderLines

-----------------------------------------------------------------------------
\* A function on 1..n is a sequence of length n.
LEMMA TupleIsSeq ==
  ASSUME NEW S, NEW n \in Nat, NEW f \in [1..n -> S]
  PROVE  f \in Seq(S) /\ Len(f) = n
<1>1. f \in Seq(S)
  OBVIOUS
<1>2. DOMAIN f = 1..n /\ DOMAIN f = 1..Len(f) /\ Len(f) \in Nat
  BY <1>1
<1> QED
  BY <1>1, <1>2

\* The initial state: no columns, no lines.
LEMMA InitInv == Init => IInv
<1> SUFFICES ASSUME Init
             PROVE  IInv
  OBVIOUS
<1>1. entry_names = << >> /\ item_data = << >> /\ lines = << >> /\ DOMAIN entry_ids = {}
  BY DEF Init
<1>2. Headers = {}
  BY <1>1 DEF Headers
<1>3. TypeOK
  <2>1. Len(entry_names) = 0 /\ Len(item_data) = 0 /\ Cardinality(DOMAIN entry_ids) = 0
    BY <1>1, FS_EmptySet
  <2>2. head_added \in BOOLEAN /\ undefined \in BOOLEAN /\ latest \in [Names -> Values]
    BY ValuesAssumption DEF Init
  <2>3. entry_names \in Seq(Names) /\ item_data \in Seq(Values)
    BY <1>1
  <2> QED
    BY <1>1, <2>1, <2>2, <2>3 DEF TypeOK, item_counter
<1>4. Columns
  BY <1>1, FS_EmptySet DEF Columns, item_counter
<1>5. RowData
  BY <1>1 DEF Init, RowData
<1>6. HeaderLines
  BY <1>1, <1>2 DEF HeaderLines
<1> QED
  BY <1>3, <1>4, <1>5, <1>6 DEF IInv

-----------------------------------------------------------------------------
\* What the type invariant says of the sequences.
LEMMA Sizes ==
  ASSUME IInv
  PROVE  /\ entry_names \in Seq(Names) /\ item_counter = Len(entry_names)
         /\ item_counter \in Nat /\ Len(item_data) \in Nat
         /\ Len(item_data) <= item_counter
         /\ \A k \in 1..item_counter : entry_names[k] \in Names
         /\ DOMAIN item_data = 1..Len(item_data)
         /\ DOMAIN lines = 1..Len(lines) /\ Len(lines) \in Nat
  BY DEF IInv, TypeOK, HeaderLines, item_counter

\* No name has two columns.
LEMMA ColumnsDiffer ==
  ASSUME IInv, NEW j \in 1..item_counter, NEW k \in 1..item_counter, j # k
  PROVE  entry_names[j] # entry_names[k]
<1>1. entry_ids[entry_names[j]] = j - 1 /\ entry_ids[entry_names[k]] = k - 1
  BY DEF IInv, Columns
<1> QED
  BY <1>1, Sizes

\* A header line is a sequence of names.
LEMMA HeaderFields ==
  ASSUME IInv, NEW k \in Headers
  PROVE  /\ lines[k].fields \in Seq(Names \cup Values \cup {Zero})
         /\ Len(lines[k].fields) \in Nat
         /\ DOMAIN lines[k].fields = 1..Len(lines[k].fields)
         /\ Len(lines[k].fields) <= Len(item_data)
<1>1. k \in 1..Len(lines) /\ lines \in Seq(Lines)
  BY Sizes DEF IInv, HeaderLines, Headers
<1>2. lines[k] \in Lines
  BY <1>1, ElementOfSeq
<1>3. lines[k].fields \in Seq(Names \cup Values \cup {Zero})
  BY <1>2 DEF Lines
<1> QED
  BY <1>3 DEF IInv, HeaderLines

\* A new line leaves the earlier ones and their headers.
LEMMA LineAdded ==
  ASSUME IInv, NEW l \in Lines, lines' = Append(lines, l)
  PROVE  /\ lines' \in Seq(Lines) /\ Len(lines') = Len(lines) + 1
         /\ \A k \in 1..Len(lines) : lines'[k] = lines[k]
         /\ lines'[Len(lines) + 1] = l
         /\ Headers \subseteq 1..Len(lines)
         /\ Headers' = IF l.kind = "head" THEN Headers \cup {Len(lines) + 1}
                                          ELSE Headers
<1>1. lines \in Seq(Lines) /\ DOMAIN lines = 1..Len(lines) /\ Len(lines) \in Nat
  BY DEF IInv, HeaderLines
<1>2. /\ lines' \in Seq(Lines) /\ Len(lines') = Len(lines) + 1
      /\ \A k \in 1..Len(lines) : lines'[k] = lines[k]
      /\ lines'[Len(lines) + 1] = l
  BY <1>1
<1>3. DOMAIN lines' = 1..(Len(lines) + 1)
  BY <1>2
<1>4. Headers \subseteq 1..Len(lines)
  BY <1>1 DEF Headers
<1>5. \A k : k \in Headers' <=> k \in Headers \/ (k = Len(lines) + 1 /\ l.kind = "head")
  BY <1>1, <1>2, <1>3 DEF Headers
<1> QED
  BY <1>2, <1>4, <1>5

-----------------------------------------------------------------------------
\* A new column: its number is the number of columns so far.
LEMMA AddItemNameInv ==
  ASSUME IInv, NEW name \in Names, AddItemNameToEntryHead(name)
  PROVE  IInv'
<1>0. TypeOK /\ Columns /\ RowData /\ HeaderLines
  BY DEF IInv
<1>1. /\ name \notin DOMAIN entry_ids
      /\ entry_names' = Append(entry_names, name)
      /\ DOMAIN entry_ids' = DOMAIN entry_ids \cup {name}
      /\ entry_ids'[name] = item_counter
      /\ \A n \in DOMAIN entry_ids : entry_ids'[n] = entry_ids[n]
      /\ UNCHANGED <<head_added, item_data, lines, latest, undefined>>
  BY DEF AddItemNameToEntryHead, WithId, Known
<1>2. /\ entry_names' \in Seq(Names) /\ item_counter' = item_counter + 1
      /\ \A k \in 1..item_counter : entry_names'[k] = entry_names[k]
      /\ entry_names'[item_counter + 1] = name
  BY <1>1, Sizes DEF item_counter
<1>3. TypeOK'
  <2>1. Cardinality(DOMAIN entry_ids') = item_counter'
    <3>1. /\ IsFiniteSet(DOMAIN entry_ids)
          /\ Cardinality(DOMAIN entry_ids) = item_counter
      BY <1>0 DEF TypeOK, Columns
    <3>2. Cardinality(DOMAIN entry_ids \cup {name}) = item_counter + 1
      BY <1>1, <3>1, FS_AddElement
    <3> QED
      BY <1>1, <1>2, <3>2
  <2>2. \A n \in DOMAIN entry_ids' :
          entry_ids'[n] < item_counter' /\ entry_names'[entry_ids'[n] + 1] = n
    <3> TAKE n \in DOMAIN entry_ids'
    <3>1. CASE n = name
      BY <1>1, <1>2, <3>1, Sizes, SMTT(30)
    <3>2. CASE n \in DOMAIN entry_ids
      <4>1. /\ entry_ids[n] \in Nat /\ entry_ids[n] < item_counter
            /\ entry_names[entry_ids[n] + 1] = n
        BY <1>0, <3>2 DEF TypeOK, Columns
      <4> QED
        BY <1>1, <1>2, <3>2, <4>1, Sizes
    <3> QED
      BY <1>1, <3>1, <3>2
  <2>3. DOMAIN entry_ids' \subseteq Names
    BY <1>0, <1>1 DEF TypeOK
  <2>4. Len(item_data) <= item_counter'
    BY <1>2, Sizes
  <2> QED
    BY <1>0, <1>1, <1>2, <2>1, <2>2, <2>3, <2>4 DEF TypeOK
<1>4. Columns'
  <2>1. IsFiniteSet(DOMAIN entry_ids')
    BY <1>0, <1>1, FS_AddElement DEF Columns
  <2>2. \A n \in DOMAIN entry_ids' : entry_ids'[n] \in Nat
    BY <1>0, <1>1, Sizes DEF Columns
  <2>3. ASSUME NEW k \in 1..(item_counter + 1)
        PROVE  /\ entry_names'[k] \in DOMAIN entry_ids'
               /\ entry_ids'[entry_names'[k]] = k - 1
    <3>1. CASE k = item_counter + 1
      BY <1>1, <1>2, <3>1, Sizes
    <3>2. CASE k \in 1..item_counter
      <4>1. /\ entry_names[k] \in DOMAIN entry_ids
            /\ entry_ids[entry_names[k]] = k - 1
        BY <1>0, <3>2 DEF Columns
      <4>2. entry_names'[k] = entry_names[k]
        BY <1>2, <3>2
      <4> QED
        BY <1>1, <4>1, <4>2
    <3> QED
      BY <3>1, <3>2, Sizes
  <2> QED
    BY <1>2, <2>1, <2>2, <2>3 DEF Columns
<1>5. \A k \in 1..Len(item_data) : entry_names'[k] = entry_names[k]
  BY <1>2, Sizes
<1>6. RowData'
  <2>1. \A k \in 1..Len(item_data) : item_data[k] = latest[entry_names'[k]]
    BY <1>0, <1>5 DEF RowData
  <2>2. ASSUME NEW n \in Names, \A k \in 1..Len(item_data) : entry_names'[k] # n
        PROVE  latest[n] = Empty
    <3>1. \A k \in 1..Len(item_data) : entry_names[k] # n
      BY <1>5, <2>2
    <3> QED
      BY <1>0, <3>1 DEF RowData
  <2> QED
    BY <1>1, <2>1, <2>2 DEF RowData
<1>7. HeaderLines'
  <2>1. Headers' = Headers
    BY <1>1 DEF Headers
  <2>2. \A k \in Headers : \A c \in 1..Len(lines[k].fields) : c \in 1..Len(item_data)
    BY HeaderFields, Sizes
  <2> QED
    BY <1>0, <1>1, <1>5, <2>1, <2>2 DEF HeaderLines
<1> QED
  BY <1>3, <1>4, <1>6, <1>7 DEF IInv

\* A value is stored in the column of its name.
LEMMA SetItemInv ==
  ASSUME IInv, NEW id \in 0..(Len(item_data) - 1), NEW v \in Values,
         SetItem(id, v), UNCHANGED <<head_added, table, lines, undefined>>
  PROVE  IInv'
<1> USE DEF table
<1>0. TypeOK /\ Columns /\ RowData /\ HeaderLines
  BY DEF IInv
<1>1. /\ id + 1 \in 1..Len(item_data) /\ id + 1 \in 1..item_counter
      /\ entry_names[id + 1] \in Names
  BY Sizes
<1>2. /\ item_data' \in Seq(Values) /\ Len(item_data') = Len(item_data)
      /\ item_data'[id + 1] = v
      /\ \A k \in 1..Len(item_data) : k # id + 1 => item_data'[k] = item_data[k]
  BY <1>0, <1>1 DEF TypeOK, SetItem
<1>3. /\ latest' \in [Names -> Values] /\ latest'[entry_names[id + 1]] = v
      /\ \A n \in Names : n # entry_names[id + 1] => latest'[n] = latest[n]
  BY <1>0, <1>1 DEF TypeOK, SetItem
<1>4. TypeOK'
  BY <1>0, <1>2, <1>3 DEF TypeOK, item_counter
<1>5. Columns'
  BY <1>0 DEF Columns, item_counter
<1>6. RowData'
  <2>1. ASSUME NEW k \in 1..Len(item_data)
        PROVE  item_data'[k] = latest'[entry_names[k]]
    <3>1. CASE k = id + 1
      BY <1>2, <1>3, <3>1
    <3>2. CASE k # id + 1
      <4>1. k \in 1..item_counter /\ entry_names[k] \in Names
        BY Sizes
      <4>2. entry_names[k] # entry_names[id + 1]
        BY <1>1, <3>2, <4>1, ColumnsDiffer
      <4> QED
        BY <1>0, <1>2, <1>3, <3>2, <4>1, <4>2 DEF RowData
    <3> QED
      BY <3>1, <3>2
  <2>2. ASSUME NEW n \in Names, \A k \in 1..Len(item_data) : entry_names[k] # n
        PROVE  latest'[n] = Empty
    BY <1>0, <1>1, <1>3, <2>2 DEF RowData
  <2> QED
    BY <1>2, <2>1, <2>2 DEF RowData
<1>7. HeaderLines'
  <2>1. Headers' = Headers
    BY DEF Headers
  <2>2. item_data' # << >> => item_data # << >>
    BY <1>0, <1>2 DEF TypeOK
  <2> QED
    BY <1>0, <1>2, <2>1, <2>2 DEF HeaderLines
<1> QED
  BY <1>4, <1>5, <1>6, <1>7 DEF IInv

\* A header with all names so far; the row grows to its width.
LEMMA PassEntryHeaderInv ==
  ASSUME IInv, PassEntryHeaderToLogger
  PROVE  IInv'
<1>0. TypeOK /\ Columns /\ RowData /\ HeaderLines
  BY DEF IInv
<1> DEFINE l == [kind |-> "head", fields |-> entry_names]
<1>1. /\ item_counter > 0 /\ head_added' = TRUE
      /\ lines' = Append(lines, l) /\ item_data' = Resized(item_counter)
      /\ UNCHANGED <<entry_names, entry_ids, latest, undefined>>
  BY DEF PassEntryHeaderToLogger, table
<1>2. l \in Lines /\ l.kind = "head" /\ l.fields = entry_names
  <2>1. entry_names \in Seq(Names \cup Values \cup {Zero})
    BY Sizes, SeqMonotonic
  <2> QED
    BY <2>1 DEF Lines
<1> HIDE DEF l
<1>3. /\ item_data' \in Seq(Values) /\ Len(item_data') = item_counter
      /\ \A k \in 1..item_counter :
           item_data'[k] = IF k <= Len(item_data) THEN item_data[k] ELSE Empty
  <2>1. \A k \in 1..item_counter :
          (IF k <= Len(item_data) THEN item_data[k] ELSE Empty) \in Values
    BY <1>0, ValuesAssumption, Sizes DEF TypeOK
  <2>2. item_data' \in [1..item_counter -> Values]
    BY <1>1, <2>1 DEF Resized
  <2>3. item_data' \in Seq(Values) /\ Len(item_data') = item_counter
    BY <2>2, Sizes, TupleIsSeq
  <2> QED
    BY <1>1, <2>3 DEF Resized
<1>4. item_counter' = item_counter
  BY <1>1 DEF item_counter
<1>5. TypeOK' /\ Columns'
  BY <1>0, <1>1, <1>3, <1>4, Sizes DEF TypeOK, Columns
<1>6. RowData'
  <2>1. ASSUME NEW k \in 1..item_counter
        PROVE  item_data'[k] = latest[entry_names[k]]
    <3>1. CASE k \in 1..Len(item_data)
      BY <1>0, <1>3, <3>1, Sizes DEF RowData
    <3>2. CASE k \notin 1..Len(item_data)
      <4>1. ~(k <= Len(item_data)) /\ entry_names[k] \in Names
        BY <3>2, Sizes
      <4>2. \A j \in 1..Len(item_data) : entry_names[j] # entry_names[k]
        BY <3>2, Sizes, ColumnsDiffer
      <4> QED
        BY <1>0, <1>3, <4>1, <4>2 DEF RowData
    <3> QED
      BY <3>1, <3>2
  <2>2. ASSUME NEW n \in Names, \A k \in 1..item_counter : entry_names[k] # n
        PROVE  latest[n] = Empty
    BY <1>0, <2>2, Sizes DEF RowData
  <2> QED
    BY <1>1, <1>3, <2>1, <2>2 DEF RowData
<1>7. HeaderLines'
  <2>1. /\ lines' \in Seq(Lines) /\ Len(lines') = Len(lines) + 1
        /\ \A k \in 1..Len(lines) : lines'[k] = lines[k]
        /\ lines'[Len(lines) + 1] = l
        /\ Headers \subseteq 1..Len(lines)
        /\ Headers' = Headers \cup {Len(lines) + 1}
    BY <1>1, <1>2, LineAdded
  <2>2. \A k \in Headers : /\ lines'[k] = lines[k]
                           /\ Len(lines[k].fields) \in Nat
                           /\ Len(lines[k].fields) <= item_counter
    BY <2>1, HeaderFields, Sizes
  <2>3. \A k \in Headers' :
          /\ Len(lines'[k].fields) <= Len(item_data')
          /\ \A c \in 1..Len(lines'[k].fields) : lines'[k].fields[c] = entry_names[c]
    <3> TAKE k \in Headers'
    <3>1. CASE k \in Headers
      <4>1. \A c \in 1..Len(lines[k].fields) : lines[k].fields[c] = entry_names[c]
        BY <1>0, <3>1 DEF HeaderLines
      <4> QED
        BY <1>3, <2>2, <3>1, <4>1
    <3>2. CASE k = Len(lines) + 1
      <4>1. lines'[k].fields = entry_names /\ Len(entry_names) = item_counter
        BY <1>2, <2>1, <3>2, Sizes
      <4> QED
        BY <1>3, <4>1
    <3> QED
      BY <2>1, <3>1, <3>2
  <2>4. \A j, k \in Headers' :
          j < k => Len(lines'[j].fields) <= Len(lines'[k].fields)
    <3> TAKE j, k \in Headers'
    <3>1. /\ j \in Headers => j \in 1..Len(lines)
          /\ k \in Headers => k \in 1..Len(lines)
          /\ j \in Headers \/ j = Len(lines) + 1
          /\ k \in Headers \/ k = Len(lines) + 1
          /\ Len(lines) \in Nat
      BY <2>1, Sizes
    <3>2. CASE j \in Headers /\ k \in Headers
      BY <1>0, <2>2, <3>2 DEF HeaderLines
    <3>3. CASE j \in Headers /\ k = Len(lines) + 1
      <4>1. Len(lines'[k].fields) = item_counter
        BY <1>2, <2>1, <3>3, Sizes
      <4> QED
        BY <2>2, <3>3, <4>1
    <3>4. CASE j = Len(lines) + 1
      BY <3>1, <3>4
    <3> QED
      BY <3>1, <3>2, <3>3, <3>4
  <2>5. \E k \in Headers' : /\ \A j \in Headers' : j <= k
                            /\ Len(lines'[k].fields) = Len(item_data')
    <3>1. Len(lines) + 1 \in Headers' /\ \A j \in Headers' : j <= Len(lines) + 1
      BY <2>1, Sizes
    <3> QED
      BY <1>2, <1>3, <2>1, <3>1, Sizes
  <2> QED
    BY <1>1, <2>1, <2>3, <2>4, <2>5 DEF HeaderLines
<1> QED
  BY <1>5, <1>6, <1>7 DEF IInv

\* The fields of a row, as they are logged.
LEMMA RowFields ==
  ASSUME IInv
  PROVE  LET row == [k \in DOMAIN item_data |-> Shown(item_data[k])]
         IN  /\ row \in Seq(Names \cup Values \cup {Zero})
             /\ Len(row) = Len(item_data) /\ DOMAIN row = 1..Len(item_data)
<1>1. \A k \in 1..Len(item_data) : Shown(item_data[k]) \in Names \cup Values \cup {Zero}
  BY DEF IInv, TypeOK, Shown
<1>2. DOMAIN item_data = 1..Len(item_data) /\ Len(item_data) \in Nat
  BY Sizes
<1> QED
  BY <1>1, <1>2

\* A row is logged; nothing but the lines changes.
LEMMA PassEntryDataInv ==
  ASSUME IInv, PassEntryDataToLogger
  PROVE  IInv'
<1>0. TypeOK /\ Columns /\ RowData /\ HeaderLines
  BY DEF IInv
<1> DEFINE row == [k \in DOMAIN item_data |-> Shown(item_data[k])]
           l   == [kind |-> "row", fields |-> row]
<1>1. /\ lines' = Append(lines, l)
      /\ UNCHANGED <<head_added, entry_names, entry_ids, item_data, latest, undefined>>
  BY DEF PassEntryDataToLogger, table
<1>2. l \in Lines /\ l.kind = "row"
  <2>1. row \in Seq(Names \cup Values \cup {Zero})
    BY RowFields
  <2> HIDE DEF row
  <2> QED
    BY <2>1 DEF Lines
<1> HIDE DEF l
<1>3. item_counter' = item_counter
  BY <1>1 DEF item_counter
<1>4. TypeOK' /\ Columns' /\ RowData'
  BY <1>0, <1>1, <1>3 DEF TypeOK, Columns, RowData
<1>5. /\ lines' \in Seq(Lines) /\ Headers' = Headers
      /\ \A k \in Headers : lines'[k] = lines[k]
  BY <1>1, <1>2, LineAdded
<1>6. HeaderLines'
  <2>1. \A k \in Headers :
          /\ Len(lines'[k].fields) <= Len(item_data)
          /\ \A c \in 1..Len(lines'[k].fields) : lines'[k].fields[c] = entry_names[c]
    BY <1>0, <1>5 DEF HeaderLines
  <2>2. \A j, k \in Headers : j < k => Len(lines'[j].fields) <= Len(lines'[k].fields)
    BY <1>0, <1>5 DEF HeaderLines
  <2>3. item_data # << >> =>
          \E k \in Headers : /\ \A j \in Headers : j <= k
                             /\ Len(lines'[k].fields) = Len(item_data)
    BY <1>0, <1>5 DEF HeaderLines
  <2> QED
    BY <1>1, <1>5, <2>1, <2>2, <2>3 DEF HeaderLines
<1> QED
  BY <1>4, <1>6 DEF IInv

\* The early returns, and the access out of range, which leaves the table.
LEMMA NothingStoredInv ==
  ASSUME IInv, (\E name \in Names : AddItemDataOutOfRange(name)) \/ UNCHANGED vars
  PROVE  IInv'
<1>1. /\ undefined' \in BOOLEAN
      /\ UNCHANGED <<head_added, entry_names, entry_ids, item_data, lines, latest>>
  BY DEF AddItemDataOutOfRange, vars, table, IInv, TypeOK
<1>2. item_counter' = item_counter /\ Headers' = Headers
  BY <1>1 DEF item_counter, Headers
<1>3. TypeOK' /\ Columns' /\ RowData'
  BY <1>1, <1>2 DEF IInv, TypeOK, Columns, RowData
<1>4. HeaderLines'
  BY <1>1, <1>2 DEF IInv, HeaderLines
<1> QED
  BY <1>3, <1>4 DEF IInv

\* Every call keeps IInv.
LEMMA StepInv == IInv /\ [Next]_vars => IInv'
<1> SUFFICES ASSUME IInv, [Next]_vars
             PROVE  IInv'
  OBVIOUS
<1>1. CASE \E name \in Names : AddItemNameToEntryHead(name)
  BY <1>1, AddItemNameInv
<1>2. CASE \E name \in Names, v \in Values : AddItemDataByName(name, v)
  <2>1. PICK name \in Names, v \in Values : AddItemDataByName(name, v)
    BY <1>2
  <2>2. entry_ids[name] \in 0..(Len(item_data) - 1)
    BY <2>1, Sizes DEF AddItemDataByName, Known, IInv, Columns
  <2> QED
    BY <2>1, <2>2, SetItemInv DEF AddItemDataByName
<1>3. CASE \E id \in 0..Cardinality(Names), v \in Values : AddItemDataById(id, v)
  <2>1. PICK id \in 0..Cardinality(Names), v \in Values : AddItemDataById(id, v)
    BY <1>3
  <2>2. id \in 0..(Len(item_data) - 1)
    BY <2>1, Sizes DEF AddItemDataById
  <2> QED
    BY <2>1, <2>2, SetItemInv DEF AddItemDataById
<1>4. CASE PassEntryHeaderToLogger \/ PassEntryDataToLogger
  BY <1>4, PassEntryHeaderInv, PassEntryDataInv
<1>5. CASE (\E name \in Names : AddItemDataOutOfRange(name)) \/ Ignored \/ Halted
           \/ UNCHANGED vars
  BY <1>5, NothingStoredInv DEF Ignored, Halted
<1> QED
  BY <1>1, <1>2, <1>3, <1>4, <1>5 DEF Next

-----------------------------------------------------------------------------
(* The theorems.                                                           *)

\* IInv, the inductive invariant, holds in every reachable state.
THEOREM Invariance == Spec => []IInv
<1> QED
  BY InitInv, StepInv, PTL DEF Spec

\* Types; names and ids stay inverse to each other, and no column has data
\* without a name.
THEOREM TypeCorrect == Spec => []TypeOK
<1>1. IInv => TypeOK
  BY DEF IInv
<1> QED
  BY <1>1, Invariance, PTL

\* Columns never move from one header to a later one.
THEOREM ColumnsNeverMove == Spec => []HeadersExtend
<1>1. IInv => HeadersExtend
  <2> SUFFICES ASSUME IInv, NEW j \in Headers, NEW k \in Headers, j < k
               PROVE  /\ Len(lines[j].fields) <= Len(lines[k].fields)
                      /\ \A c \in DOMAIN lines[j].fields :
                           lines[j].fields[c] = lines[k].fields[c]
    BY DEF HeadersExtend
  <2>1. /\ Len(lines[j].fields) \in Nat /\ Len(lines[k].fields) \in Nat
        /\ DOMAIN lines[j].fields = 1..Len(lines[j].fields)
    BY HeaderFields
  <2>2. Len(lines[j].fields) <= Len(lines[k].fields)
    BY DEF IInv, HeaderLines
  <2>3. ASSUME NEW c \in DOMAIN lines[j].fields
        PROVE  lines[j].fields[c] = lines[k].fields[c]
    <3>1. c \in 1..Len(lines[j].fields) /\ c \in 1..Len(lines[k].fields)
      BY <2>1, <2>2
    <3> QED
      BY <3>1 DEF IInv, HeaderLines
  <2> QED
    BY <2>2, <2>3
<1> QED
  BY <1>1, Invariance, PTL

\* Every row logged belongs under the header above it and shows, under each
\* name, the last value set for it.
THEOREM RowsUnderTheirHeader == Spec => RowMatchesHeader
<1> DEFINE last == lines'[Len(lines')]
           Matches == /\ Headers # {}
                      /\ Len(last.fields) = Len(LastHeader)
                      /\ \A k \in DOMAIN last.fields :
                           last.fields[k] = Shown(latest[LastHeader[k]])
           Grows == Len(lines') > Len(lines) /\ last.kind = "row"
<1>1. ASSUME IInv, PassEntryDataToLogger
      PROVE  Matches
  <2> DEFINE row == [k \in DOMAIN item_data |-> Shown(item_data[k])]
             l   == [kind |-> "row", fields |-> row]
  <2>1. /\ row \in Seq(Names \cup Values \cup {Zero})
        /\ Len(row) = Len(item_data) /\ DOMAIN row = 1..Len(item_data)
        /\ \A k \in 1..Len(item_data) : row[k] = Shown(item_data[k])
    BY <1>1, RowFields, Sizes
  <2>2. lines' = Append(lines, l) /\ item_data # << >>
    BY <1>1 DEF PassEntryDataToLogger
  <2>3. l \in Lines /\ l.fields = row
    <3> HIDE DEF row
    <3> QED
      BY <2>1 DEF Lines
  <2> HIDE DEF row, l
  <2>4. last.fields = row
    BY <1>1, <2>2, <2>3, LineAdded
  <2>5. PICK k \in Headers : /\ \A j \in Headers : j <= k
                             /\ Len(lines[k].fields) = Len(item_data)
    BY <1>1, <2>2 DEF IInv, HeaderLines
  <2>6. LastHeader = lines[k].fields
    <3>1. Headers \subseteq Nat
      BY <1>1, Sizes DEF Headers
    <3>2. \A i \in Headers : (\A j \in Headers : j <= i) => i = k
      BY <2>5, <3>1
    <3> QED
      BY <2>5, <3>2 DEF LastHeader
  <2>7. \A c \in 1..Len(item_data) : row[c] = Shown(latest[LastHeader[c]])
    BY <1>1, <2>1, <2>5, <2>6 DEF IInv, RowData, HeaderLines
  <2> QED
    BY <2>1, <2>4, <2>5, <2>6, <2>7
<1>2. ASSUME IInv, PassEntryHeaderToLogger
      PROVE  ~Grows
  <2> DEFINE l == [kind |-> "head", fields |-> entry_names]
  <2>1. l \in Lines /\ l.kind = "head"
    <3>1. entry_names \in Seq(Names \cup Values \cup {Zero})
      BY <1>2, Sizes, SeqMonotonic
    <3> QED
      BY <3>1 DEF Lines
  <2>2. lines' = Append(lines, l)
    BY <1>2 DEF PassEntryHeaderToLogger
  <2> HIDE DEF l
  <2> QED
    BY <1>2, <2>1, <2>2, LineAdded
<1>3. ASSUME IInv, lines' = lines
      PROVE  ~Grows
  BY <1>3, Sizes
<1>4. ASSUME [Next]_vars, ~PassEntryDataToLogger, ~PassEntryHeaderToLogger
      PROVE  lines' = lines
  BY <1>4 DEF Next, vars, AddItemNameToEntryHead, AddItemDataOutOfRange,
     AddItemDataByName, AddItemDataById, Ignored, Halted
<1>5. IInv /\ [Next]_vars => [Grows => Matches]_vars
  BY <1>1, <1>2, <1>3, <1>4
<1> QED
  BY <1>5, Invariance, PTL DEF Spec, RowMatchesHeader
=============================================================================
