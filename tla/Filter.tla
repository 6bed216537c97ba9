------------------------------- MODULE Filter -------------------------------
(***************************************************************************)
(* filter.cpp: the text of a filter box becomes a tree of groups and        *)
(* tokens, one word after the other, under a cursor.  FilterMeaning is what *)
(* the tree should match.  Words arrive as set() cuts them: at spaces and   *)
(* closing quotes, their quotes and anchors turned into flags.              *)
(***************************************************************************)
EXTENDS FilterMeaning, Integers, FiniteSets, FiniteSetsExt

CONSTANTS
  Words,      \* words with their flags: see WordAssumption
  Synonyms,   \* sequences of texts that mean the same
  Letters,    \* characters for isalnum
  AnySynonym, \* a word with synonyms may follow OR
  MaxWords    \* a bound on the length of a filter

\* A text is a sequence of characters, a row a sequence of texts (its cells).
\* Universe has no row without cells.
ASSUME WordAssumption ==
  /\ \A w \in Words : w.text # <<>> /\ w.flags \subseteq {"start", "end", "literal", "full"}
  /\ \A s \in Synonyms : s \in Seq({s[i] : i \in DOMAIN s})
  /\ \A s, t \in Synonyms : (\E i \in DOMAIN s, j \in DOMAIN t : s[i] = t[j]) => s = t
  /\ \A row \in Universe : Len(row) > 0
  /\ AnySynonym \in BOOLEAN /\ MaxWords \in Nat

VARIABLES
  nodes,  \* the tree: each node has the index of its group
  group,  \* the group that set() pushes the next word to
  flags,  \* flags for the next node
  expand, \* filter.expandSynonyms of the configuration
  count   \* words so far (a bound)

tree == <<nodes, group, flags>>
filterVars == <<tree, meaning, expand, count>>

Root == 1

Group(type, fl, parent) == [type |-> type, flags |-> fl, text |-> <<>>, parent |-> parent]
Token(text, fl, parent) == [type |-> "token", flags |-> fl, text |-> text, parent |-> parent]

Children(ns, g) == {n \in DOMAIN ns : ns[n].parent = g}

-----------------------------------------------------------------------------
(* Matching *)

Occurs(text, str, pos) == \A i \in DOMAIN text : str[pos + i] = text[i]

\* Where text begins in str: std::string::find, only the first place counts.
Places(text, str) == {pos \in 0..(Len(str) - Len(text)) : Occurs(text, str, pos)}

matchRow(text, fl, str) ==
  /\ Places(text, str) # {}
  /\ LET pos == Min(Places(text, str))
         end == pos + Len(text)
     IN /\ "start" \in fl => pos = 0
        /\ "end" \in fl => end = Len(str)
        /\ "full" \in fl => /\ pos = 0 \/ str[pos] \notin Letters
                            /\ end = Len(str) \/ str[end + 1] \notin Letters

matchToken(text, fl, row) ==
  IF "not" \in fl THEN Len(row) > 0 /\ \A i \in DOMAIN row : ~matchRow(text, fl, row[i])
                  ELSE \E i \in DOMAIN row : matchRow(text, fl, row[i])

matchGroup(type, fl, results) ==
  IF type = "any" THEN TRUE \in results
                  ELSE (FALSE \notin results) # ("not" \in fl)

match(ns, row) ==
  LET Matches[n \in DOMAIN ns] ==
        IF ns[n].type = "token" THEN matchToken(ns[n].text, ns[n].flags, row)
        ELSE matchGroup(ns[n].type, ns[n].flags, {Matches[c] : c \in Children(ns, n)})
  IN Matches[Root]

-----------------------------------------------------------------------------
(* Building the tree *)

FilterInit ==
  /\ nodes = <<Group("all", {}, 0)>>
  /\ group = Root
  /\ flags = {}
  /\ expand \in BOOLEAN
  /\ count = 0
  /\ MeaningInit

Toggle(fl) == IF "not" \in fl THEN fl \ {"not"} ELSE fl \cup {"not"}

\* The nearest group of type MatchAll at or above g, 0 above the root.
NearestAll(g) ==
  LET Up[n \in 0..Len(nodes)] ==
        IF n = 0 \/ nodes[n].type = "all" THEN n ELSE Up[nodes[n].parent]
  IN Up[g]

pushNot ==
  /\ flags' = Toggle(flags)
  /\ UNCHANGED <<nodes, group>>

\* The previous node moves to a new group of type MatchAny, unless it is one.
pushOr ==
  /\ UNCHANGED flags
  /\ LET back == Max(Children(nodes, group))
     IN CASE Children(nodes, group) = {} -> UNCHANGED <<nodes, group>>
          [] Children(nodes, group) # {} /\ nodes[back].type = "any" ->
               UNCHANGED nodes /\ group' = back
          [] OTHER ->
               /\ nodes' = [Append(nodes, Group("any", {}, group))
                            EXCEPT ![back].parent = Len(nodes) + 1]
               /\ group' = Len(nodes) + 1

pushOpen ==
  /\ nodes' = Append(nodes, Group("all", flags, group))
  /\ group' = Len(nodes) + 1
  /\ flags' = {}

\* Mutant: ) goes back to the parent, of whatever type.
MutantpushClose ==
  /\ group' = IF nodes[group].parent = 0 THEN group ELSE nodes[group].parent
  /\ UNCHANGED <<nodes, flags>>

pushClose ==
  /\ group' = LET above == NearestAll(nodes[group].parent)
              IN IF above = 0 THEN group ELSE above
  /\ UNCHANGED <<nodes, flags>>

\* A word and its synonyms become a group of type MatchAny, in a group that
\* negates it after NOT.  The cursor stays where it is.
pushSynonyms(w, others) ==
  LET own == (flags \ {"not"}) \cup w.flags
      outer == IF "not" \in flags THEN Append(nodes, Group("all", {"not"}, group)) ELSE nodes
      any == Len(outer) + 1
      above == IF "not" \in flags THEN Len(outer) ELSE group
      same == IF "full" \in own THEN <<>> ELSE <<Token(w.text, own, any)>>
  IN /\ nodes' = Append(outer, Group("any", {}, above)) \o same
                 \o [i \in DOMAIN others |-> Token(others[i], own \cup {"full"}, any)]
     /\ flags' = {}
     /\ UNCHANGED group

SynonymsOf(w) == {s \in Synonyms : \E i \in DOMAIN s : s[i] = w.text}

pushToken(w) ==
  /\ nodes' = Append(nodes, Token(w.text, flags \cup w.flags, group))
  /\ group' = NearestAll(group)
  /\ flags' = {}

-----------------------------------------------------------------------------
(* Words as they come, and what they mean *)

Matching(text, fl) == {row \in Universe : matchToken(text, fl, row)}

Expanded(w) == expand /\ "literal" \notin w.flags /\ SynonymsOf(w) # {}

MeaningOf(w) ==
  Matching(w.text, w.flags) \cup
    IF ~Expanded(w) THEN {}
    ELSE UNION {UNION {Matching(s[i], w.flags \cup {"full"}) : i \in DOMAIN s} : s \in SynonymsOf(w)}

\* What set() cuts out of the input, its flags set before it is pushed.
PushWord(w) ==
  /\ Expanded(w) => AnySynonym \/ ~join
  /\ IF Expanded(w) THEN LET s == CHOOSE s \in SynonymsOf(w) : TRUE
                         IN pushSynonyms(w, s)
                    ELSE pushToken(w)
  /\ AddOperand(MeaningOf(w))

\* OR and NOT want an operand: a parenthesis is not closed right after them.
PushOperator(op) ==
  \/ op = "NOT" /\ pushNot /\ AddNot
  \/ op = "OR" /\ pushOr /\ AddOr
  \/ op = "(" /\ pushOpen /\ OpenLevel
  \/ op = ")" /\ ~join /\ ~negate /\ pushClose /\ CloseLevel

FilterNext ==
  /\ count < MaxWords
  /\ count' = count + 1
  /\ UNCHANGED expand
  /\ \/ \E op \in {"NOT", "OR", "(", ")"} : PushOperator(op)
     \/ \E w \in Words : PushWord(w)

FilterSpec == FilterInit /\ [][FilterNext]_filterVars

-----------------------------------------------------------------------------
(* Properties *)

\* Whatever was typed so far, the list shows the rows that it means: OR takes
\* one operand on each side, NOT one after it, a parenthesis gives the cursor
\* back where it was opened, and synonyms stand for one word.
MatchesItsMeaning == \A row \in Universe : match(nodes, row) <=> row \in Meaning
=============================================================================
