---------------------------- MODULE SqlAnalyzer ----------------------------
(***************************************************************************)
(* What becomes of the text of a query: the dispatcher cuts the first      *)
(* nested SELECT out of it, puts the values that one finds in its place,   *)
(* and goes on until none is left; then WHERE is taken apart at AND and OR *)
(* into a query of ElasticSearch, whose terms have to be the ones that the *)
(* indexer computed from the triads.                                       *)
(*                                                                         *)
(* A text is a sequence of tokens: keywords, brackets, quotation marks,    *)
(* commas, operators, blanks, and pieces of words; a keyword inside a word *)
(* is a token like any other.  Where the code counts characters, so does   *)
(* Width.  hash64 is taken to be free of collisions.                       *)
(***************************************************************************)
EXTENDS Integers, FiniteSets, SequencesExt

CONSTANTS Entities,    \* documents: [id, triads : Seq([predicate, value, priority, to])]
          PropertyIds, \* what Redis holds: names to positive numbers
          stop_terms,  \* predicates that are not indexed
          Lower,       \* utils::normalize, token by token
          IdWidth,     \* 32: bits of termID32_t
          Requests     \* what clients ask: [select, where, tail, gaps], see Text
ASSUME IdsFit == \A p \in DOMAIN PropertyIds : PropertyIds[p] \in 1..2^IdWidth - 2

VARIABLES m_propertyMap,  \* ids of the SQL server
          request,
          taskStack,      \* [sql, start, end]: a text and its place in the one below
          answer          \* <<>>, or the ids found
vars == <<m_propertyMap, request, taskStack, answer>>

Quote == "\""
Blank == " "
Count(s, to, tokens) == Cardinality({i \in 1..to : s[i] \in tokens})
Quoted(s, i) == Count(s, i - 1, {Quote}) % 2 = 1
Level(s, i) == Count(s, i - 1, {"("}) - Count(s, i - 1, {")"})
Before(s, i) == SubSeq(s, 1, i - 1)
After(s, i) == SubSeq(s, i + 1, Len(s))
Least(S) == CHOOSE i \in S : \A j \in S : i <= j
Wrapped(s, open, close) == Len(s) > 1 /\ s[1] = open /\ s[Len(s)] = close
Inside(s) == SubSeq(s, 2, Len(s) - 1)
Width(s) == FoldLeft(LAMBDA width, token : width + Len(token), 0, s)

(* utils::trim takes commas off like blanks.                               *)
Trim(s) == LET word == {i \in DOMAIN s : s[i] \notin {",", Blank}} IN
           IF word = {} THEN <<>> ELSE SubSeq(s, Least(word), Max(word))
Normal(s) == LET trimmed == Trim(s) IN
             [i \in DOMAIN trimmed |-> IF trimmed[i] \in DOMAIN Lower THEN Lower[trimmed[i]]
                                                                      ELSE trimmed[i]]

RECURSIVE Split(_, _)
Split(s, comma) == IF s = <<>> THEN <<>>
                   ELSE LET at == {i \in DOMAIN s : s[i] = comma} IN
                        IF at = {} THEN <<s>>
                        ELSE <<Before(s, Least(at))>> \o Split(After(s, Least(at)), comma)

-----------------------------------------------------------------------------
(* Entity::calculateTermList: of each predicate the triads of the highest  *)
(* priority, whose names lose their prefix.                                *)
KeyPrefixes == {"webfact_", "schema_"}
Name(predicate) == IF predicate[1] \in KeyPrefixes THEN Tail(predicate) ELSE predicate
TermId(value, pId) == <<value, pId % 2^IdWidth>>

AddToDoc(docEntity, t) ==
  LET key == t.predicate IN
  IF t.value = <<>> \/ key \in stop_terms THEN docEntity
  ELSE IF key \notin DOMAIN docEntity THEN [k \in DOMAIN docEntity \cup {key} |->
                                              IF k = key THEN {t} ELSE docEntity[k]]
  ELSE LET priority == (CHOOSE o \in docEntity[key] : TRUE).priority IN
       [docEntity EXCEPT ![key] = CASE priority < t.priority -> {t}
                                    [] priority = t.priority -> @ \cup {t}
                                    [] OTHER -> @]
TermList(e) ==
  LET docEntity == FoldLeft(AddToDoc, <<>>, e.triads)
      indexed == {t \in UNION {docEntity[k] : k \in DOMAIN docEntity} :
                    Name(t.predicate) \in DOMAIN PropertyIds}
  IN  {TermId(Normal(t.value), PropertyIds[Name(t.predicate)]) : t \in indexed}
Index == [e \in Entities |-> TermList(e)]

-----------------------------------------------------------------------------
(* preprocess: brackets around the whole text come off, then quotes.       *)
RECURSIVE Unbracket(_)
Unbracket(sql) ==
  LET s == Trim(sql) IN
  IF Wrapped(s, "(", ")") /\ \A i \in 1..Len(s) - 1 : Level(Inside(s), i) >= 0
  THEN Unbracket(Inside(s)) ELSE s
Unquote(s) == IF Wrapped(s, Quote, Quote) /\ ~Contains(Inside(s), Quote) THEN Inside(s) ELSE s
PreprocessKept(s) == Unbracket(s)  \* mutant: keeps quotes
Preprocess(s) == Unquote(Unbracket(s))

(* splitQuery2Subsentence: brackets count inside quotes, too, and an       *)
(* operand on the right of the operator loses its brackets before it is    *)
(* cut further.                                                            *)
RECURSIVE SplitQuery(_, _)
SplitQuery(ws, oper) ==
  LET where == Preprocess(ws)
      cuts == {i \in DOMAIN where :
                 where[i] = oper /\ Level(where, i) = 0 /\ ~Quoted(where, i)}
  IN  IF cuts = {} THEN {where}
      ELSE {Preprocess(Before(where, Least(cuts)))}
             \cup SplitQuery(After(where, Least(cuts)), oper)

(* Queries of ElasticSearch.                                               *)
Query(kind, of, terms) == [kind |-> kind, of |-> of, terms |-> terms]
Empty == Query("{}", {}, {})

(* calTermId compares an unsigned id with 0: a property without an id gets *)
(* the largest number.                                                     *)
CalTermId(key, value) ==
  LET name == Trim(key) IN
  TermId(Trim(value), IF name \in DOMAIN m_propertyMap THEN m_propertyMap[name] ELSE -1)

GenTermESQuery(ws) ==
  LET where == Preprocess(ws)
      oper == IF Contains(where, "!=") THEN "!=" ELSE "="
      at == Least({i \in DOMAIN where : where[i] = oper})
      key == Preprocess(Before(where, at))
      text == After(where, at)
      value == Normal(Preprocess(text))
      vs == Split(value, ",")
      string == Unbracket(text) = Trim(text) \/ Len(vs) = 1
      termJ == Query("terms", {}, IF string THEN {CalTermId(key, value)}
                                  ELSE {CalTermId(key, Preprocess(v)) : v \in ToSet(vs)})
  IN  IF ~Contains(where, oper) \/ text = <<>> THEN Empty
      ELSE IF key = <<"ID">> THEN Query("ids", {}, {<<Preprocess(v), 0>> : v \in ToSet(vs)})
      ELSE IF oper = "!=" THEN Query("must_not", {termJ}, {})
      ELSE termJ

RECURSIVE AnalyzeWhere(_)
AnalyzeWhere(where) ==
  LET andSubsentence == SplitQuery(where, "AND")
      orSubsentence == SplitQuery(where, "OR")
      Children(S) == {AnalyzeWhere(s) : s \in S} \ {Empty}
  IN  IF Cardinality(andSubsentence) > 1 THEN Query("must", Children(andSubsentence), {})
      ELSE IF Cardinality(orSubsentence) > 1 THEN Query("should", Children(orSubsentence), {})
      ELSE GenTermESQuery(where)

(* ElasticSearch: a bool query without clauses finds everything.           *)
RECURSIVE Finds(_, _)
Finds(q, e) == CASE q.kind = "must" -> \A c \in q.of : Finds(c, e)
                 [] q.kind = "should" -> q.of = {} \/ \E c \in q.of : Finds(c, e)
                 [] q.kind = "must_not" -> \A c \in q.of : ~Finds(c, e)
                 [] q.kind = "terms" -> q.terms \cap Index[e] # {}
                 [] q.kind = "ids" -> <<e.id, 0>> \in q.terms
                 [] q.kind = "{}" -> FALSE

-----------------------------------------------------------------------------
(* findKeyWord ignores what is in quotes or brackets.                      *)
FindAnywhere(s, word) ==  \* mutant: std::string::find
  LET at == {i \in DOMAIN s : s[i] = word} IN IF at = {} THEN 0 ELSE Least(at)
FindKeyWord(s, word) ==
  LET brackets(i) == {j \in 1..i - 1 : s[j] \in {"(", ")"} /\ ~Quoted(s, j)}
      at == {i \in DOMAIN s : /\ s[i] = word /\ ~Quoted(s, i)
                              /\ 2 * Cardinality({j \in brackets(i) : s[j] = "("})
                                   = Cardinality(brackets(i))}
  IN  IF at = {} THEN 0 ELSE Least(at)
WhereStart(sql) == FindKeyWord(sql, "WHERE") + 1
WhereEnd(sql) == LET orderBy == FindKeyWord(sql, "ORDER BY") limit == FindKeyWord(sql, "LIMIT") IN
                 CASE orderBy > 0 -> orderBy - 1
                   [] orderBy = 0 /\ limit > 0 -> limit - 1
                   [] OTHER -> Len(sql)
Where(sql) == SubSeq(sql, WhereStart(sql), WhereEnd(sql))
Select(sql) == Trim(SubSeq(sql, FindKeyWord(sql, "SELECT") + 1, WhereStart(sql) - 2))

(* sql_analyzer::splitSubTask on sql[start..end]: brackets come off        *)
(* whether they match or not; of the first operand with a SELECT in it the *)
(* rest behind SELECT is taken, but for the closing bracket.               *)
RECURSIVE Narrow(_, _, _)
Narrow(sql, start, end) ==
  CASE start > end -> <<start, end>>
    [] start <= end /\ sql[start] = Blank -> Narrow(sql, start + 1, end)
    [] start <= end /\ sql[start] # Blank /\ sql[end] = Blank -> Narrow(sql, start, end - 1)
    [] start < end /\ sql[start] = "(" /\ sql[end] = ")" -> Narrow(sql, start + 1, end - 1)
    [] OTHER -> <<start, end>>
None == <<0, 0>>
(* Three characters are skipped at a cut, which is one more than OR has.   *)
Resume(sql, cut) == IF /\ sql[cut] = "OR" /\ cut < Len(sql) /\ Len(sql[cut + 1]) = 1
                    THEN cut + 2 ELSE cut + 1
RECURSIVE SplitSubTask(_, _, _)
SplitSubTask(sql, from, to) ==
  LET start == Narrow(sql, from, to)[1]
      end == Narrow(sql, from, to)[2]
      part == SubSeq(sql, start, end)
      cuts == {i \in start..end : /\ sql[i] \in {"AND", "OR", "ORDER BY"}
                                  /\ Level(part, i - start + 1) = 0
                                  /\ ~Quoted(part, i - start + 1)}
      selects == {i \in start..end : sql[i] = "SELECT" /\ ~Quoted(part, i - start + 1)}
      left == SplitSubTask(sql, start, Least(cuts) - 1)
  IN  CASE from > to -> None
        [] cuts # {} -> IF left # None THEN left
                        ELSE SplitSubTask(sql, Resume(sql, Least(cuts)), end)
        [] selects # {} -> <<Least(selects), end - 1>>
        [] OTHER -> None
SubTask(sql) == SplitSubTask(sql, WhereStart(sql), WhereEnd(sql))

-----------------------------------------------------------------------------
(* A request as clients mean and write it.  A condition is                 *)
(* [key, oper, form, values, sub], where sub holds the nested request of   *)
(* the form "nested"; a formula is [op, l, r, br], in brackets if br.  The *)
(* gaps are the numbers of blanks around a word, before and after an       *)
(* operator, and behind the bracket that opens a nested request.           *)
IsFormula(w) == "op" \in DOMAIN w
Quotes(s) == <<Quote>> \o s \o <<Quote>>
Listed(vs) == FoldLeft(LAMBDA text, v : text \o v \o <<",">>, <<>>, vs)
Gap(n) == [i \in 1..n |-> Blank]
Word(w, gaps) == Gap(gaps.word) \o w \o Gap(gaps.word)
Tight == [word |-> 0, before |-> 0, after |-> 0, open |-> 0]

RECURSIVE Text(_, _), WhereText(_, _)
Text(r, gaps) == <<"SELECT">> \o Word(r.select, gaps) \o <<"WHERE">>
                   \o Word(WhereText(r.where, gaps), gaps) \o r.tail
WhereText(w, gaps) ==
  IF IsFormula(w)
  THEN LET text == WhereText(w.l, gaps) \o Word(<<w.op>>, gaps) \o WhereText(w.r, gaps) IN
       IF w.br THEN <<"(">> \o text \o <<")">> ELSE text
  ELSE LET oper == Gap(gaps.before) \o <<w.oper>> \o Gap(gaps.after) IN
       CASE w.form = "plain" -> w.key \o oper \o w.values[1]
         [] w.form = "quoted" -> Quotes(w.key) \o oper \o Quotes(w.values[1])
         [] w.form = "set" -> LET quoted == [i \in DOMAIN w.values |-> Quotes(w.values[i])] IN
                              w.key \o oper \o <<"(">> \o Front(Listed(quoted)) \o <<")">>
         [] w.form = "nested" -> w.key \o oper \o <<"(">> \o Gap(gaps.open)
                                   \o Text(w.sub[1], gaps) \o <<")">>

-----------------------------------------------------------------------------
NewTask(sql, start, end) == [sql |-> sql, start |-> start, end |-> end]
Top == taskStack[Len(taskStack)]

(* main leaves the ids of the SQL server empty: PropertyIdService::init is *)
(* commented out.  Both cases are modelled.                                *)
Init == /\ m_propertyMap \in {<<>>, PropertyIds}
        /\ request \in Requests
        /\ LET sql == Text(request, request.gaps) IN taskStack = <<NewTask(sql, 1, Len(sql))>>
        /\ answer = <<>>

Dispatch == /\ taskStack # <<>>
            /\ LET at == SubTask(Top.sql) IN
                 /\ at # None
                 /\ taskStack' = Append(taskStack,
                                        NewTask(SubSeq(Top.sql, at[1], at[2]), at[1], at[2]))
            /\ UNCHANGED <<m_propertyMap, request, answer>>

(* SqlService::searchBySql: one "ID =" and no AND or OR between blanks is  *)
(* a search by id, which takes the ids from the fifth character on; the    *)
(* others are up to ElasticSearch.                                         *)
Running == taskStack # <<>> /\ SubTask(Top.sql) = None
HasPart(s, part) == \E i \in Len(part)..Len(s) : SubSeq(s, i - Len(part) + 1, i) = part
IsIDSearch(where) == /\ HasPart(where, <<"ID", Blank, "=">>)
                     /\ \A word \in {"AND", "OR"} : ~HasPart(where, <<Blank, word, Blank>>)
SearchedIds(where) ==
  LET begun == {i \in DOMAIN where : Width(Before(where, i)) < 4}
      ids == Trim(After(where, Cardinality(begun)))
      open == IF Wrapped(ids, "(", ")") THEN Inside(ids) ELSE ids
      unquoted == [i \in DOMAIN open |-> IF open[i] = Quote THEN Blank ELSE open[i]]
  IN  {Trim(id) : id \in ToSet(Split(unquoted, ","))}
Found == LET where == Trim(Where(Top.sql)) q == AnalyzeWhere(where) IN
         IF IsIDSearch(where) THEN {e \in Entities : e.id \in SearchedIds(where)}
                              ELSE {e \in Entities : Finds(q, e)}
FoundIds == LET where == Trim(Where(Top.sql)) IN
            IF IsIDSearch(where) THEN SearchedIds(where) ELSE {e.id : e \in Found}

(* dispatchCallback: the fields selected, or links for a search by id,     *)
(* which is one with ID among the six characters in front of SELECT.       *)
Selected(found, select, byId) ==
  LET selected == {t \in UNION {ToSet(e.triads) : e \in found} : Name(t.predicate) = select} IN
  IF byId THEN {t.to : t \in selected} \ {<<"-1">>} ELSE {t.value : t \in selected}
Behind(sql, at, word, width) ==
  \E i \in 1..at - 1 : sql[i] = word /\ Width(SubSeq(sql, i, at - 1)) <= width
ReplaceInTask(task, below) ==
  LET byId == Behind(below.sql, task.start, "ID", 6)
      select == Select(task.sql)
      values == IF select = <<"*">> THEN FoundIds ELSE Selected(Found, select, byId)
      result == Listed(SetToSeq(values))
  IN  [below EXCEPT !.sql = Before(@, task.start) \o result \o After(@, task.end)]
DispatchCallback == /\ Running /\ Len(taskStack) > 1
                    /\ LET below == Front(taskStack) IN
                       taskStack' = [below EXCEPT ![Len(below)] = ReplaceInTask(Top, @)]
                    /\ UNCHANGED <<m_propertyMap, request, answer>>

Answer == /\ Running /\ Len(taskStack) = 1
          /\ answer' = <<{e.id : e \in Found}>>
          /\ taskStack' = <<>>
          /\ UNCHANGED <<m_propertyMap, request>>

Next == Dispatch \/ DispatchCallback \/ Answer
Spec == Init /\ [][Next]_vars

-----------------------------------------------------------------------------
(* What a request means: conditions speak of the values with the highest   *)
(* priority of a property that has an id, AND binds tighter than OR.       *)
Has(e, key, value) ==
  /\ key \in DOMAIN m_propertyMap
  /\ \E t \in ToSet(e.triads) :
       /\ Name(t.predicate) = key /\ t.predicate \notin stop_terms
       /\ Normal(t.value) = Normal(value)
       /\ \A o \in ToSet(e.triads) : o.predicate = t.predicate => o.priority <= t.priority

RECURSIVE Holds(_, _), Meaning(_), Result(_, _)
Meaning(r) == {e \in Entities : Holds(e, r.where)}
Result(r, byId) == IF r.select = <<"*">> THEN {e.id : e \in Meaning(r)}
                                       ELSE Selected(Meaning(r), r.select, byId)
Holds(e, w) ==
  IF IsFormula(w)
  THEN IF w.op = "AND" THEN Holds(e, w.l) /\ Holds(e, w.r) ELSE Holds(e, w.l) \/ Holds(e, w.r)
  ELSE LET wanted == IF w.form = "nested" THEN Result(w.sub[1], w.key = <<"ID">>)
                                          ELSE ToSet(w.values)
           hit == IF w.key = <<"ID">> THEN e.id \in wanted
                                      ELSE \E v \in wanted : Has(e, w.key, v)
       IN  IF w.oper = "!=" THEN ~hit ELSE hit

(* The texts that the code reads otherwise.                                *)
RECURSIVE Conditions(_), Formulas(_)
Conditions(w) == IF ~IsFormula(w) THEN {w}
                 ELSE Conditions(w.l) \cup Conditions(w.r)
Formulas(w) == IF ~IsFormula(w) THEN {} ELSE {w} \cup Formulas(w.l) \cup Formulas(w.r)
Mixed(w) == \E f \in Formulas(w) : \E c \in {f.l, f.r} : IsFormula(c) /\ ~c.br /\ c.op # f.op
Repeated(w) == \E f \in Formulas(w) : Cardinality(Conditions(f)) = 1
NegatedId(c) == c.key = <<"ID">> /\ c.oper = "!="
Unsupported(c) == c.oper \notin {"=", "!="}
Keywords == {"AND", "OR"}
Syntax == {"(", ")", ",", "!=", Quote}
Words(c) == IF c.form = "nested" THEN Result(c.sub[1], c.key = <<"ID">>) ELSE ToSet(c.values)
Unclear(c) ==
  \/ c.form # "quoted" /\ Count(c.key, Len(c.key), Keywords) > 0
  \/ \E v \in Words(c) :
       \/ Count(v, Len(v), {"!=", Quote}) > 0 \/ Level(v, Len(v) + 1) # 0
       \/ CASE c.form = "plain" -> Count(v, Len(v), Syntax \cup Keywords) > 0
            [] c.form = "nested" -> Count(v, Len(v), Syntax) > 0
            [] c.form = "set" -> Contains(v, ",")
            [] c.form = "quoted" -> FALSE
NestsIn(w) == \E c \in Conditions(w) : c.form = "nested"
TornBrackets(w) ==
  LET text == WhereText(w, Tight)
      Starts(i) == i = 1 \/ text[i - 1] \in {"(", "AND", "OR"}
      Ends(j) == j = Len(text) \/ text[j + 1] = ")"
  IN  NestsIn(w) /\ \E i, j \in DOMAIN text :
        /\ i < j /\ Starts(i) /\ Ends(j)
        /\ LET part == SubSeq(text, i, j) IN
             /\ Wrapped(part, "(", ")") /\ Unbracket(part) = part
             /\ \A k \in DOMAIN part : Level(part, k) >= 0

EndsInId(c) == Last(c.key) = "ID" /\ c.key # <<"ID">>
FarId(c, gaps) == LET text == WhereText(c, gaps) IN
                  /\ c.form = "nested" /\ c.key = <<"ID">>
                  /\ ~Behind(text, Least({i \in DOMAIN text : text[i] = "SELECT"}), "ID", 6)
EatenByOr(w, gaps) == LET text == WhereText(w, gaps) IN
                      /\ NestsIn(w)
                      /\ \E i \in 2..Len(text) : text[i - 1] = "OR" /\ text[i] \in {"(", Quote}
OneId(w, gaps) == IsFormula(w) /\ IsIDSearch(WhereText(w, gaps))

RECURSIVE Misread(_, _)
Misread(r, gaps) == \/ Mixed(r.where) \/ Repeated(r.where) \/ TornBrackets(r.where)
                    \/ EatenByOr(r.where, gaps) \/ OneId(r.where, gaps)
                    \/ \E c \in Conditions(r.where) :
                         \/ NegatedId(c) \/ Unsupported(c) \/ Unclear(c)
                         \/ EndsInId(c) \/ FarId(c, gaps)
                         \/ c.form = "nested" /\ Misread(c.sub[1], gaps)

(* An answer is what the request means, through all nested queries and     *)
(* both programs' ideas of a term, unless the text is one of those the     *)
(* code misreads: AND and OR side by side without brackets, a condition    *)
(* repeated, an ID that must differ, an operator it does not know,         *)
(* syntax inside words, a nested query in a text that begins and ends with *)
(* brackets which do not belong together, a bracket or quote that an OR in *)
(* front of it swallows, an ID too far from its nested query, a name that  *)
(* ends in ID, an ID among conditions with no blanks around AND and OR.    *)
WhereMeans == answer # <<>> => \/ answer[1] = {e.id : e \in Meaning(request)}
                               \/ Misread(request, request.gaps)

(* A task is what stands between two brackets of the one below, and its    *)
(* own brackets match, so that its values take the place of a SELECT and   *)
(* of nothing else.                                                        *)
SubTasksBracketed == \A i \in 2..Len(taskStack) :
  LET task == taskStack[i] below == taskStack[i - 1].sql IN
  \/ /\ task.sql[1] = "SELECT"
     /\ LET front == Trim(Before(below, task.start)) IN front[Len(front)] = "("
     /\ below[task.end + 1] = ")"
     /\ Level(task.sql, Len(task.sql) + 1) = 0
     /\ \A k \in DOMAIN task.sql : Level(task.sql, k) >= 0
  \/ Misread(request, request.gaps)
=============================================================================
