---------------------------- MODULE PolicyTexts -----------------------------
(***************************************************************************)
(* Policies that are kept as text, and how the text is read. First that of *)
(* an access structure of fraud-service, `(role:analyst OR role:admin) AND *)
(* dept:fraud_team`: build_access_tree, _split_top_level and               *)
(* AccessTreeNode.evaluate of app/services/abe_engine.py, beside the       *)
(* structure that was meant, which grows one attribute at a time, and a    *)
(* user's attributes. Words are between spaces; a word keeps the           *)
(* parentheses it touches, as the code's split() leaves them. Attributes   *)
(* are <<key, value>>, and the two operators are written the same way.     *)
(* Then, from the constant Pair on, the study of sharing between banks,    *)
(* fds_scripts/consortium_sharing_sim.py and its earlier copy under fds-   *)
(* research: data that is bound to attributes (KPABEProtocol), keys with a *)
(* policy, whose text is read by a parser in the one copy and by Python's  *)
(* eval in the other, and the filter that answers for the attributes       *)
(* instead (AttributeBloomFilter). Hashes stand for cryptography; a policy *)
(* is the sequence of its words.                                           *)
(***************************************************************************)
EXTENDS Integers, Sequences, FiniteSets, FiniteSetsExt
LOCAL INSTANCE SequencesExt

CONSTANTS Attribute,  \* <<key, value>>
          MaxLeaves   \* bound

And == <<"AND", "">>
Or == <<"OR", "">>
Wild == {<<attribute[1], "*">> : attribute \in Attribute}

VARIABLES
    meant,   \* the structure: [op, leaf, parts], op "leaf", "AND" or "OR"
    spare,   \* an alternative inside of an AND is written without parentheses
    carries    \* the attributes of a user

treeVars == <<meant, spare, carries>>

Leaf(attribute) == [op |-> "leaf", leaf |-> attribute, parts |-> <<>>]
Group(op, parts) == [op |-> op, leaf |-> And, parts |-> parts]

TreeInit ==
    /\ meant \in {Leaf(attribute) : attribute \in Attribute} /\ spare \in BOOLEAN /\ carries = {}
-----------------------------------------------------------------------------
\* Words: how many parentheses they open and close, and what is between.
Word(w) == [opens |-> 0, word |-> w, closes |-> 0]
Wrapped(words) ==
    LET opened == [words EXCEPT ![1].opens = @ + 1] IN [opened EXCEPT ![Len(words)].closes = @ + 1]

RECURSIVE TextOf(_)
TextOf(node) ==
    LET Part(i) == IF node.parts[i].op = "leaf" \/ (spare /\ node.op = "AND" /\ node.parts[i].op = "OR")
                   THEN TextOf(node.parts[i]) ELSE Wrapped(TextOf(node.parts[i]))
        text[i \in 1..Len(node.parts)] ==
            IF i = 1 THEN Part(1)
            ELSE text[i - 1] \o <<Word(IF node.op = "AND" THEN And ELSE Or)>> \o Part(i)
    IN  IF node.op = "leaf" THEN <<Word(node.leaf)>> ELSE text[Len(node.parts)]

\* The parentheses that are open after each word.
Depth(words, i) ==
    FoldLeft(LAMBDA d, word : d + word.opens - word.closes, 0, SubSeq(words, 1, i))

Mut_EveryDepth(words, op) == {i \in 1..Len(words) : words[i].word = op}

\* Where _split_top_level cuts.
Cuts(words, op) == {i \in 1..Len(words) : words[i].word = op /\ Depth(words, i) = 0}

SplitTopLevel(words, op) ==
    LET at == SetToSortSeq(Cuts(words, op), <)
        From(k) == IF k = 1 THEN 1 ELSE at[k - 1] + 1
        To(k) == IF k > Len(at) THEN Len(words) ELSE at[k] - 1
    IN  [k \in 1..Len(at) + 1 |-> SubSeq(words, From(k), To(k))]

\* The outer parentheses are taken away if they belong together.
Stripped(words) ==
    LET n == Len(words)
        inner == [[words EXCEPT ![1].opens = @ - 1] EXCEPT ![n].closes = @ - 1]
    IN  IF words[1].opens > 0 /\ words[n].closes > 0 /\ \A i \in 1..n : Depth(inner, i) >= 0
        THEN inner ELSE words

\* build_access_tree: AND is looked for before OR.  What is neither is a leaf,
\* whatever it is; a word that is left with parentheses is no one's attribute.
RECURSIVE BuildAccessTree(_)
BuildAccessTree(text) ==
    LET words == Stripped(text)
        Branch(parts, threshold) ==
            [threshold |-> threshold, attribute |-> <<>>,
             children |-> [i \in DOMAIN parts |-> BuildAccessTree(parts[i])]]
        ands == SplitTopLevel(words, And)
        ors == SplitTopLevel(words, Or)
    IN  IF Len(ands) > 1 THEN Branch(ands, Len(ands))
        ELSE IF Len(ors) > 1 THEN Branch(ors, 1)
        ELSE [threshold |-> 1, attribute |-> words, children |-> <<>>]

\* AccessTreeNode.evaluate
RECURSIVE Evaluates(_, _)
Evaluates(node, attributes) ==
    IF node.attribute # <<>>
    THEN \E a \in attributes :
             \/ node.attribute = <<Word(a)>> \/ node.attribute = <<Word(<<a[1], "*">>)>>
    ELSE Cardinality({i \in DOMAIN node.children : Evaluates(node.children[i], attributes)})
             >= node.threshold
-----------------------------------------------------------------------------
RECURSIVE Leaves(_)
Leaves(node) ==
    IF node.op = "leaf" THEN 1 ELSE FoldLeft(LAMBDA n, part : n + Leaves(part), 0, node.parts)

\* One alternative, or one condition, more; before or behind the others.
Extend(op, attribute, first) ==
    /\ Leaves(meant) < MaxLeaves
    /\ meant' = IF meant.op = op /\ ~first THEN [meant EXCEPT !.parts = Append(@, Leaf(attribute))]
                ELSE IF first THEN Group(op, <<Leaf(attribute), meant>>)
                ELSE Group(op, <<meant, Leaf(attribute)>>)
    /\ UNCHANGED <<spare, carries>>

\* Two groups of two.
Double(op, inner) ==
    /\ meant.op = "leaf"
    /\ \E b, c, d \in Attribute :
          meant' = Group(op, <<Group(inner, <<meant, Leaf(b)>>), Group(inner, <<Leaf(c), Leaf(d)>>)>>)
    /\ UNCHANGED <<spare, carries>>

Gain(attribute) ==
    /\ carries' = carries \cup {attribute} /\ carries' # carries /\ UNCHANGED <<meant, spare>>

TreeNext ==
    \/ \E op \in {"AND", "OR"}, attribute \in Attribute \cup Wild, first \in BOOLEAN :
          Extend(op, attribute, first)
    \/ \E op, inner \in {"AND", "OR"} : op # inner /\ Double(op, inner)
    \/ \E attribute \in Attribute : Gain(attribute)
-----------------------------------------------------------------------------
TreeTypeOK == meant.op \in {"leaf", "AND", "OR"} /\ spare \in BOOLEAN /\ carries \subseteq Attribute

RECURSIVE Meets(_)
Meets(node) ==
    CASE node.op = "leaf" -> \E a \in carries : node.leaf \in {a, <<a[1], "*">>}
      [] node.op = "AND" -> \A i \in DOMAIN node.parts : Meets(node.parts[i])
      [] node.op = "OR" -> \E i \in DOMAIN node.parts : Meets(node.parts[i])

\* A structure whose groups are in one pair of parentheses each is read as it
\* was meant, also where two groups stand side by side and their outer
\* parentheses do not belong together (abe_engine.py:112).  An alternative
\* inside of an AND needs none, because AND is looked for first; a conjunction
\* inside of an OR does, unlike in most languages.
ReadAsMeant == Evaluates(BuildAccessTree(TextOf(meant)), carries) = Meets(meant)
-----------------------------------------------------------------------------
CONSTANTS Pair,       \* attributes, as the text "key:value"
          SameKey,    \* {{a, b}}: two values of one key, of which data has one
          Inside,     \* {<<a, b>>}: the text of a is a part of that of b
          Positions,  \* _hash_positions: [attribute -> places in the filter]
          MaxWords    \* bound

VARIABLES
    bound,    \* the attributes of the data, in the order of the dictionary
    filter,   \* bit_array, as the set of the places of its ones
    keyPolicy    \* access_policy of the key

consortiumVars == <<bound, filter, keyPolicy>>

ConsortiumInit == bound = <<>> /\ filter = {} /\ keyPolicy = <<>>
-----------------------------------------------------------------------------
\* _policy_match: each attribute in turn replaces its text wherever it stands.
\* What is left of a longer text is neither; a text that was not touched is not
\* among the attributes.
Replaced(token) ==
    LET touches == {i \in 1..Len(bound) : bound[i] = token \/ <<bound[i], token>> \in Inside}
    IN  IF token \notin Pair THEN token
        ELSE IF touches = {} THEN "False"
        ELSE IF bound[CHOOSE i \in touches : \A j \in touches : i <= j] = token THEN "True"
        ELSE "remainder"

\* What _parse_or and the others return; past the end they raise an IndexError.
Raised == [value |-> FALSE, at |-> 0]

RECURSIVE ParseOr(_, _), ParseAnd(_, _), OrTail(_, _), AndTail(_, _)
ParseAtom(t, i) ==
    IF i > Len(t) THEN Raised
    ELSE IF t[i] = "("
         THEN LET inner == ParseOr(t, i + 1)
              IN  IF inner.at \in 1..Len(t) /\ t[inner.at] = ")" THEN [inner EXCEPT !.at = @ + 1] ELSE inner
         ELSE [value |-> t[i] = "True", at |-> i + 1]

\* The loops of _parse_and and _parse_or.
AndTail(t, left) ==
    IF left.at \in 1..Len(t) /\ t[left.at] = "and"
    THEN LET right == ParseAtom(t, left.at + 1)
         IN  IF right = Raised THEN Raised
             ELSE AndTail(t, [right EXCEPT !.value = left.value /\ @])
    ELSE left
ParseAnd(t, i) == AndTail(t, ParseAtom(t, i))
OrTail(t, left) ==
    IF left.at \in 1..Len(t) /\ t[left.at] = "or"
    THEN LET right == ParseAnd(t, left.at + 1)
         IN  IF right = Raised THEN Raised
             ELSE OrTail(t, [right EXCEPT !.value = left.value \/ @])
    ELSE left
ParseOr(t, i) == OrTail(t, ParseAnd(t, i))

Tokens(t) == [i \in 1..Len(t) |-> Replaced(t[i])]

\* decrypt, of the copy with the parser.
Decrypts(t) == ParseOr(Tokens(t), 1).value
-----------------------------------------------------------------------------
\* Where a word stands outside of all parentheses.
Nesting(t, i) == Cardinality({j \in 1..i : t[j] = "("}) - Cardinality({j \in 1..i : t[j] = ")"})
Outside(t, word) == {i \in 1..Len(t) : t[i] = word /\ Nesting(t, i) = 0}
FirstOf(places) == CHOOSE i \in places : \A j \in places : i <= j
FinalOf(places)  == CHOOSE i \in places : \A j \in places : j <= i

\* Python's `and` and `or` look at the right only where the left leaves it open;
\* a name that is not known raises an error, and the error denies.
RECURSIVE PythonSays(_)
PythonSays(t) ==
    LET ors  == Outside(t, "or")
        ands == Outside(t, "and")
        Decide(places, decides) ==
            LET i    == FinalOf(places)
                left == PythonSays(SubSeq(t, 1, i - 1))
            IN  IF left \in {decides, "error"} THEN left ELSE PythonSays(SubSeq(t, i + 1, Len(t)))
    IN  IF ors # {} THEN Decide(ors, "True")
        ELSE IF ands # {} THEN Decide(ands, "False")
        ELSE IF t[1] = "(" THEN PythonSays(SubSeq(t, 2, Len(t) - 1))
        ELSE IF t[1] = "remainder" THEN "error" ELSE t[1]

\* decrypt, of the copy with eval.
EvalDecrypts(t) == PythonSays(Tokens(t)) = "True"
-----------------------------------------------------------------------------
\* add_attributes: all the data's attributes go into the filter.
Bind(a) ==
    /\ \A b \in ToSet(bound) : b # a /\ {a, b} \notin SameKey
    /\ bound' = Append(bound, a) /\ filter' = filter \cup Positions[a]
    /\ UNCHANGED keyPolicy

\* contains, match_attributes
Matches(required) == \A a \in required : Positions[a] \subseteq filter

\* run_comparison: a key for the first k of the data's own attributes, and the
\* filter asked for the same, of both copies.
Conjunction(k) == [i \in 1..2 * k - 1 |-> IF i % 2 = 1 THEN bound[(i + 1) \div 2] ELSE "and"]
Compared(k)        == <<Decrypts(Conjunction(k)), Matches({bound[i] : i \in 1..k})>>
EarlierCompared(k) == <<EvalDecrypts(Conjunction(k)), Matches({bound[i] : i \in 1..k})>>

\* The words that may follow in a policy that is written correctly.
Operand  == IF keyPolicy = <<>> THEN TRUE ELSE Last(keyPolicy) \in {"and", "or", "("}
StillOpen == Nesting(keyPolicy, Len(keyPolicy))
Complete == keyPolicy # <<>> /\ ~Operand /\ StillOpen = 0

WriteWord(word) ==
    /\ Len(keyPolicy) < MaxWords
    /\ IF word \in Pair \cup {"("} THEN Operand ELSE ~Operand
    /\ word = ")" => StillOpen > 0
    /\ keyPolicy' = Append(keyPolicy, word) /\ UNCHANGED <<bound, filter>>

ConsortiumNext ==
    \/ \E a \in Pair : Bind(a)
    \/ \E word \in Pair \cup {"and", "or", "(", ")"} : WriteWord(word)
-----------------------------------------------------------------------------
ConsortiumTypeOK ==
    /\ ToSet(bound) \subseteq Pair /\ filter = UNION {Positions[a] : a \in ToSet(bound)}
    /\ Len(keyPolicy) <= MaxWords

\* What a policy means: or is between ands.
RECURSIVE Means(_)
Means(t) ==
    LET ors  == Outside(t, "or")
        ands == Outside(t, "and")
        Sides(i) == <<Means(SubSeq(t, 1, i - 1)), Means(SubSeq(t, i + 1, Len(t)))>>
    IN  IF ors # {} THEN LET s == Sides(FirstOf(ors)) IN s[1] \/ s[2]
        ELSE IF ands # {} THEN LET s == Sides(FirstOf(ands)) IN s[1] /\ s[2]
        ELSE IF t[1] = "(" THEN Means(SubSeq(t, 2, Len(t) - 1))
        ELSE t[1] \in ToSet(bound)

\* Whatever the policy, the parser lets a key open nothing that its policy does
\* not, and eval nothing that the parser does not, although texts of attributes
\* are replaced inside of each other; where no text is inside of another, the
\* three are the same (_policy_match of both copies).  The filter never misses
\* what the data has, and so matches whatever a key of a conjunction opens; the
\* study asks each owner for its own attributes, and so counts a match of both
\* every time (run_comparison).
SharedAsMeant ==
    /\ Complete =>
          /\ EvalDecrypts(keyPolicy) => Decrypts(keyPolicy)
          /\ Decrypts(keyPolicy) => Means(keyPolicy)
          /\ (Means(keyPolicy) /\ \A a \in ToSet(bound), b \in ToSet(keyPolicy) : <<a, b>> \notin Inside)
                 => EvalDecrypts(keyPolicy)
          /\ ("or" \notin ToSet(keyPolicy) /\ Decrypts(keyPolicy)) => Matches(ToSet(keyPolicy) \cap Pair)
    /\ Matches(ToSet(bound))
    /\ (\A a, b \in ToSet(bound) : <<a, b>> \notin Inside) =>
           \A k \in 1..Len(bound) : Compared(k) = <<TRUE, TRUE>> /\ EarlierCompared(k) = <<TRUE, TRUE>>

\* A policy that is kept as text is read as it was written: by the tree of the
\* access control (abe_engine.py) and by the two copies of the consortium's
\* study (consortium_sharing_sim.py), each by its own rule of precedence.
PoliciesReadAsMeant == TreeTypeOK /\ ConsortiumTypeOK /\ ReadAsMeant /\ SharedAsMeant
=============================================================================
