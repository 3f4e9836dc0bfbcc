---------------------------- MODULE AndroidProps ----------------------------
(***************************************************************************)
(* The property table of the Android container (properties.c): a fixed     *)
(* array searched from the front, filled with defaults, then from a file.  *)
(***************************************************************************)
EXTENDS Naturals, Sequences, SequencesExt

CONSTANTS
  Keys, Vals,
  Defaults,   \* the calls of props_set in props_load_defaults
  Lines,      \* lines a properties file may have: Setting(k, v) or Skipped
  MaxLines,   \* bound: lines of the file
  MaxProps,   \* MAX_PROPS (256)
  MaxAsked    \* bound: properties asked for in all

VARIABLES
  props,   \* g_props[0 .. g_prop_count - 1]
  asked    \* history: the settings asked for since props_init

vars == <<props, asked>>

Setting(k, v) == [key |-> k, val |-> v]
\* A comment, an empty line, or one without "=".
Skipped == [key |-> "", val |-> ""]

Places(table, k) == {i \in 1 .. Len(table) : table[i].key = k}
FirstPlace(table, k) == CHOOSE i \in Places(table, k) : \A j \in Places(table, k) : i <= j

\* Mutant: a full table refuses updates too.
SetFullFirst(table, s) ==
  IF Len(table) >= MaxProps THEN table
  ELSE IF Places(table, s.key) # {} THEN [table EXCEPT ![FirstPlace(table, s.key)] = s]
  ELSE Append(table, s)
\* props_set: update in place, else append, else refuse.
Set(table, s) ==
  IF Places(table, s.key) # {} THEN [table EXCEPT ![FirstPlace(table, s.key)] = s]
  ELSE IF Len(table) >= MaxProps THEN table ELSE Append(table, s)

SetAll(table, settings) ==
  LET After[i \in 0 .. Len(settings)] ==
        IF i = 0 THEN table ELSE Set(After[i - 1], settings[i])
  IN  After[Len(settings)]

\* props_get; "" stands for NULL
Get(k) == IF Places(props, k) = {} THEN "" ELSE props[FirstPlace(props, k)].val

Init == props = <<>> /\ asked = <<>>

PropsInit == props' = <<>> /\ asked' = <<>>

Ask(settings) ==
  /\ Len(asked) + Len(settings) <= MaxAsked
  /\ props' = SetAll(props, settings)
  /\ asked' = asked \o settings

PropsSet(s) == Ask(<<s>>)

\* The lines of a file that are not skipped.
Settings(file) ==
  LET From[i \in 0 .. Len(file)] ==
        IF i = 0 THEN <<>>
        ELSE IF file[i] = Skipped THEN From[i - 1] ELSE Append(From[i - 1], file[i])
  IN  From[Len(file)]

\* props_load_defaults; a file that cannot be opened is like an empty one.
LoadDefaults(file) == Ask(Defaults \o Settings(file))

Next ==
  \/ PropsInit
  \/ \E k \in Keys, v \in Vals : PropsSet(Setting(k, v))
  \/ \E n \in 0 .. MaxLines : \E file \in [1 .. n -> Lines] : LoadDefaults(file)

Spec == Init /\ [][Next]_vars

-----------------------------------------------------------------------------
(* Properties.                                                             *)

TypeOK == Len(props) <= MaxProps /\ Len(asked) <= MaxAsked

\* What was asked for, without the table: the first MaxProps keys ever asked
\* for have the value asked for last, the others have none.
FirstAsked(k) == CHOOSE i \in Places(asked, k) : \A j \in Places(asked, k) : i <= j
LastAsked(k)  == CHOOSE i \in Places(asked, k) : \A j \in Places(asked, k) : j <= i
Before(k) == {asked[i].key : i \in 1 .. FirstAsked(k) - 1}
Wanted(k) ==
  IF Places(asked, k) = {} \/ Cardinality(Before(k)) >= MaxProps
  THEN "" ELSE asked[LastAsked(k)].val

\* In whatever order keys are set, set again and loaded, and however full the
\* table is: a key that got in is never lost or stuck at an old value.
GetIsLastSet == \A k \in Keys : Get(k) = Wanted(k)
=============================================================================
