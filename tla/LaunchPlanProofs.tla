-------------------------- MODULE LaunchPlanProofs --------------------------
(***************************************************************************)
(* The command line a document becomes, for every create request: no part  *)
(* of the planner knows what another one wrote, and yet each id is defined *)
(* once and before it is needed, there is one display and the right one,   *)
(* the cards have the addresses of the document, and the run is the one    *)
(* that was asked for. A part is described by the ids it defines and by    *)
(* what it needs; the invariant says what stands before each step.         *)
(***************************************************************************)
EXTENDS LaunchPlan, SequenceTheorems, FiniteSetTheorems, WellFoundedInduction, TLAPS

-----------------------------------------------------------------------------
(* Lists of arguments *)

IsList(s) == \E S : s \in Seq(S)

(* A list has its places, and a tuple is one. *)
LEMMA Listed ==
    ASSUME NEW s, IsList(s)
    PROVE  Len(s) \in Nat /\ DOMAIN s = 1..Len(s)
BY LenProperties DEF IsList

LEMMA EmptyIsList == IsList(<<>>) /\ DOMAIN <<>> = {}
<1>1. <<>> \in Seq({})
  BY EmptySeq
<1> QED BY <1>1 DEF IsList

One(t, a) == IsList(t) /\ DOMAIN t = {1} /\ t[1] = a
Two(t, a, b) == IsList(t) /\ DOMAIN t = {1, 2} /\ t[1] = a /\ t[2] = b
Three(t, a, b, c) == IsList(t) /\ DOMAIN t = {1, 2, 3} /\ t[1] = a /\ t[2] = b /\ t[3] = c

LEMMA OneIsList == ASSUME NEW a PROVE One(<<a>>, a)
<1>1. <<a>> \in Seq({a}) /\ Len(<<a>>) = 1
  OBVIOUS
<1>2. IsList(<<a>>)
  BY <1>1 DEF IsList
<1> QED BY <1>1, <1>2, Listed DEF One

LEMMA TwoIsList == ASSUME NEW a, NEW b PROVE Two(<<a, b>>, a, b)
<1>1. <<a, b>> \in Seq({a, b}) /\ Len(<<a, b>>) = 2
  OBVIOUS
<1>2. IsList(<<a, b>>)
  BY <1>1 DEF IsList
<1> QED BY <1>1, <1>2, Listed DEF Two

LEMMA ThreeIsList == ASSUME NEW a, NEW b, NEW c PROVE Three(<<a, b, c>>, a, b, c)
<1>1. <<a, b, c>> \in Seq({a, b, c}) /\ Len(<<a, b, c>>) = 3
  OBVIOUS
<1>2. IsList(<<a, b, c>>)
  BY <1>1 DEF IsList
<1>3. DOMAIN <<a, b, c>> = 1..3
  BY <1>1, <1>2, Listed
<1> QED BY <1>2, <1>3 DEF Three

(* x stands before place k. *)
Precedes(t, x, k) == \E j \in DOMAIN t : t[j] = x /\ j < k

(* In a tuple each argument stands behind the ones before it. *)
LEMMA TwoInOrder ==
    ASSUME NEW t, NEW a, NEW b, Two(t, a, b)
    PROVE  \A i \in DOMAIN t : t[i] = a \/ (t[i] = b /\ Precedes(t, a, i))
<1>1. 1 \in DOMAIN t /\ t[1] = a /\ 1 < 2
  BY DEF Two
<1>2. Precedes(t, a, 2)
  BY <1>1 DEF Precedes
<1> QED BY <1>2 DEF Two

LEMMA ThreeInOrder ==
    ASSUME NEW t, NEW a, NEW b, NEW c, Three(t, a, b, c)
    PROVE  \A i \in DOMAIN t :
             \/ t[i] = a
             \/ t[i] = b /\ Precedes(t, a, i)
             \/ t[i] = c /\ Precedes(t, a, i) /\ Precedes(t, b, i)
<1>1. 1 \in DOMAIN t /\ t[1] = a /\ 1 < 2 /\ 1 < 3
  BY DEF Three
<1>2. 2 \in DOMAIN t /\ t[2] = b /\ 2 < 3
  BY DEF Three
<1>3. Precedes(t, a, 2) /\ Precedes(t, a, 3) /\ Precedes(t, b, 3)
  BY <1>1, <1>2 DEF Precedes
<1> QED BY <1>3 DEF Three

(* A second list is placed behind the first. *)
Place(s, i) == Len(s) + i

(* What Place does to the order. *)
LEMMA Behind ==
    ASSUME NEW n \in Nat, NEW i \in Nat, NEW j \in Nat
    PROVE  /\ n + i = n + j => i = j
           /\ i < j => n + i < n + j
OBVIOUS

Placed(s, t, u) ==
    /\ \A i \in DOMAIN s : i \in DOMAIN u /\ u[i] = s[i]
    /\ \A i \in DOMAIN t : Place(s, i) \in DOMAIN u /\ u[Place(s, i)] = t[i]
    /\ \A k \in DOMAIN u : k \in DOMAIN s \/ \E i \in DOMAIN t : k = Place(s, i)

Ordered(s, t) ==
    /\ \A i \in DOMAIN s, j \in DOMAIN t : i < Place(s, j)
    /\ \A i, j \in DOMAIN t : Place(s, i) = Place(s, j) => i = j
    /\ \A i, j \in DOMAIN t : i < j => Place(s, i) < Place(s, j)

(* Where the arguments of two lists are in the list of both. *)
LEMMA Placing ==
    ASSUME NEW s, NEW t, IsList(s), IsList(t)
    PROVE  IsList(s \o t) /\ Placed(s, t, s \o t) /\ Ordered(s, t)
<1>1. PICK S : s \in Seq(S)
  BY DEF IsList
<1>2. PICK T : t \in Seq(T)
  BY DEF IsList
<1>3. s \in Seq(S \cup T) /\ t \in Seq(S \cup T)
  BY <1>1, <1>2, SeqMonotonic
<1> DEFINE u == s \o t
           m == Len(s)
           n == Len(t)
<1>4. /\ u \in Seq(S \cup T) /\ Len(u) = m + n
      /\ \A i \in 1 .. m + n : u[i] = IF i <= m THEN s[i] ELSE t[i - m]
  BY <1>3, ConcatProperties
<1>5. /\ m \in Nat /\ n \in Nat
      /\ DOMAIN s = 1..m /\ DOMAIN t = 1..n
  BY Listed
<1>6. IsList(u)
  BY <1>4 DEF IsList
<1>7. DOMAIN u = 1 .. m + n
  BY <1>4, <1>6, Listed
<1> HIDE DEF u, m, n
<1>8. ASSUME NEW i \in DOMAIN s PROVE i \in DOMAIN u /\ u[i] = s[i]
  <2>1. i \in 1 .. m + n /\ i <= m
    BY <1>5, <1>8
  <2> QED BY <1>4, <1>7, <2>1
<1>9. ASSUME NEW i \in DOMAIN t PROVE m + i \in DOMAIN u /\ u[m + i] = t[i]
  <2>1. m + i \in 1 .. m + n /\ ~(m + i <= m) /\ (m + i) - m = i
    BY <1>5, <1>9
  <2>2. u[m + i] = t[(m + i) - m]
    BY <1>4, <2>1
  <2> QED BY <1>7, <2>1, <2>2
<1>10. ASSUME NEW k \in DOMAIN u PROVE k \in DOMAIN s \/ \E i \in DOMAIN t : k = m + i
  <2>1. CASE k <= m
    BY <1>5, <1>7, <2>1
  <2>2. CASE ~(k <= m)
    <3>1. (k - m) \in 1..n /\ k = m + (k - m)
      BY <1>5, <1>7, <2>2
    <3> QED BY <1>5, <3>1
  <2> QED BY <2>1, <2>2
<1>11. ASSUME NEW i \in DOMAIN s, NEW j \in DOMAIN t PROVE i < m + j
  BY <1>5
<1>12. ASSUME NEW i \in DOMAIN t, NEW j \in DOMAIN t
       PROVE  (m + i = m + j => i = j) /\ (i < j => m + i < m + j)
  <2>1. i \in Nat /\ j \in Nat
    BY <1>5
  <2> QED BY <1>5, <2>1, Behind
<1>13. Placed(s, t, u)
  BY <1>8, <1>9, <1>10 DEF Placed, Place, m
<1>14. Ordered(s, t)
  BY <1>11, <1>12 DEF Ordered, Place, m
<1> QED BY <1>6, <1>13, <1>14 DEF u

-----------------------------------------------------------------------------
(* Parts of a command line *)

Formed(a) == {"opt", "kind", "id", "uses"} \subseteq DOMAIN a
NoScreen(a) ==
    /\ a.opt # "-display" /\ a.opt # "-vga"
    /\ a.id # "me-video" /\ a.id # "pc-video"
    /\ ~Has(a, "port")
NoCard(a) == ~Has(a, "mac")
NoRoot(a) == ~(a.opt = "-drive" /\ a.kind = "overlay")

AllFormed(s) == \A i \in DOMAIN s : Formed(s[i])
Within(s, ids) == \A i \in DOMAIN s : s[i].id \in ids \cup {""}
Screenless(s) == \A i \in DOMAIN s : NoScreen(s[i])
Cardless(s) == \A i \in DOMAIN s : NoCard(s[i])
Rootless(s) == \A i \in DOMAIN s : NoRoot(s[i])

Quiet(s) == Screenless(s) /\ Cardless(s) /\ Rootless(s)

Unique(s) == \A i, j \in DOMAIN s : s[i].id = s[j].id => s[i].id = "" \/ i = j

(* What an argument names is known, or defined with it: a bus before it. *)
Served(s, known) ==
    \A i \in DOMAIN s : \A named \in s[i].uses \ known :
      \E j \in DOMAIN s : named \in Defines(s[j]) /\ (named[1] = "bus" => j < i)

Part(s, ids, known) == IsList(s) /\ AllFormed(s) /\ Within(s, ids) /\ Unique(s) /\ Served(s, known)

(* No options at all are a part. *)
LEMMA EmptyPart ==
    ASSUME NEW known
    PROVE  Part(<<>>, {}, known) /\ Quiet(<<>>)
BY EmptyIsList DEF Part, AllFormed, Within, Unique, Served, Quiet, Screenless, Cardless, Rootless

LEMMA Widened == ASSUME NEW s, NEW ids, NEW more, NEW known, Part(s, ids, known), ids \subseteq more
                 PROVE  Part(s, more, known)
BY DEF Part, Within

(* Lists joined keep what each of their arguments has. *)
LEMMA Keeping ==
    ASSUME NEW s, NEW t, NEW u, NEW ids, NEW more, Placed(s, t, u)
    PROVE  /\ AllFormed(s) /\ AllFormed(t) => AllFormed(u)
           /\ Within(s, ids) /\ Within(t, more) => Within(u, ids \cup more)
           /\ Screenless(s) /\ Screenless(t) => Screenless(u)
           /\ Cardless(s) /\ Cardless(t) => Cardless(u)
           /\ Rootless(s) /\ Rootless(t) => Rootless(u)
<1>1. \A k \in DOMAIN u : (\E i \in DOMAIN s : u[k] = s[i]) \/ (\E i \in DOMAIN t : u[k] = t[i])
  BY DEF Placed
<1>2. AllFormed(s) /\ AllFormed(t) => AllFormed(u)
  BY <1>1 DEF AllFormed
<1>3. Within(s, ids) /\ Within(t, more) => Within(u, ids \cup more)
  BY <1>1 DEF Within
<1>4. Screenless(s) /\ Screenless(t) => Screenless(u)
  BY <1>1 DEF Screenless
<1>5. Cardless(s) /\ Cardless(t) => Cardless(u)
  BY <1>1 DEF Cardless
<1>6. Rootless(s) /\ Rootless(t) => Rootless(u)
  BY <1>1 DEF Rootless
<1> QED BY <1>2, <1>3, <1>4, <1>5, <1>6

(* The same, for lists joined with \o. *)
LEMMA Joined ==
    ASSUME NEW s, NEW t, IsList(s), IsList(t)
    PROVE  /\ Screenless(s) /\ Screenless(t) => Screenless(s \o t)
           /\ Cardless(s) /\ Cardless(t) => Cardless(s \o t)
           /\ Rootless(s) /\ Rootless(t) => Rootless(s \o t)
           /\ Quiet(s) /\ Quiet(t) => Quiet(s \o t)
BY Placing, Keeping DEF Quiet

(* Parts that share no id make a part: the second may name what the first
   defines. *)
Provided(s) == UNION {Defines(s[i]) : i \in DOMAIN s}

LEMMA Chaining ==
    ASSUME NEW s, NEW t, NEW ids, NEW more, NEW known,
           Part(s, ids, known), Part(t, more, known \cup Provided(s)), ids \cap more = {}
    PROVE  Part(s \o t, ids \cup more, known)
<1> DEFINE u == s \o t
<1>0. IsList(s) /\ IsList(t)
  BY DEF Part
<1>1. IsList(u) /\ Placed(s, t, u) /\ Ordered(s, t)
  BY <1>0, Placing
<1> HIDE DEF u
<1>2. AllFormed(u) /\ Within(u, ids \cup more)
  BY <1>1, Keeping DEF Part
<1>4. Unique(u)
  <2> SUFFICES ASSUME NEW i \in DOMAIN u, NEW j \in DOMAIN u, u[i].id = u[j].id, u[i].id # ""
               PROVE  i = j
    BY DEF Unique
  <2>1. CASE i \in DOMAIN s /\ j \in DOMAIN s
    BY <1>1, <2>1 DEF Part, Unique, Placed
  <2>2. CASE i \in DOMAIN s /\ j \notin DOMAIN s
    <3>1. u[i].id \in ids
      BY <1>1, <2>2 DEF Part, Within, Placed
    <3>2. u[j].id \in more
      <4>1. PICK k \in DOMAIN t : u[j] = t[k]
        BY <1>1, <2>2 DEF Placed
      <4> QED BY <4>1 DEF Part, Within
    <3> QED BY <3>1, <3>2
  <2>3. CASE i \notin DOMAIN s /\ j \in DOMAIN s
    <3>1. u[i].id \in more
      <4>1. PICK k \in DOMAIN t : u[i] = t[k]
        BY <1>1, <2>3 DEF Placed
      <4> QED BY <4>1 DEF Part, Within
    <3>2. u[j].id \in ids
      BY <1>1, <2>3 DEF Part, Within, Placed
    <3> QED BY <3>1, <3>2
  <2>4. CASE i \notin DOMAIN s /\ j \notin DOMAIN s
    <3>1. PICK k \in DOMAIN t : i = Place(s, k) /\ u[i] = t[k]
      BY <1>1, <2>4 DEF Placed
    <3>2. PICK l \in DOMAIN t : j = Place(s, l) /\ u[j] = t[l]
      BY <1>1, <2>4 DEF Placed
    <3>3. k = l
      BY <3>1, <3>2 DEF Part, Unique
    <3> QED BY <3>1, <3>2, <3>3
  <2> QED BY <2>1, <2>2, <2>3, <2>4
<1>5. Served(u, known)
  <2> SUFFICES ASSUME NEW k \in DOMAIN u, NEW named \in u[k].uses \ known
               PROVE  \E j \in DOMAIN u : named \in Defines(u[j]) /\ (named[1] = "bus" => j < k)
    BY DEF Served
  <2>1. CASE k \in DOMAIN s
    <3>1. PICK j \in DOMAIN s : named \in Defines(s[j]) /\ (named[1] = "bus" => j < k)
      BY <1>1, <2>1 DEF Part, Served, Placed
    <3> QED BY <1>1, <3>1 DEF Placed
  <2>2. CASE k \notin DOMAIN s
    <3>1. PICK i \in DOMAIN t : k = Place(s, i) /\ u[k] = t[i]
      BY <1>1, <2>2 DEF Placed
    <3>2. CASE named \in Provided(s)
      <4>1. PICK j \in DOMAIN s : named \in Defines(s[j])
        BY <3>2 DEF Provided
      <4>2. j < k
        BY <1>1, <3>1 DEF Ordered
      <4> QED BY <1>1, <4>1, <4>2 DEF Placed
    <3>3. CASE named \notin Provided(s)
      <4>1. PICK j \in DOMAIN t : named \in Defines(t[j]) /\ (named[1] = "bus" => j < i)
        BY <3>1, <3>3 DEF Part, Served
      <4>2. named[1] = "bus" => Place(s, j) < k
        BY <1>1, <3>1, <4>1 DEF Ordered
      <4> QED BY <1>1, <4>1, <4>2 DEF Placed
    <3> QED BY <3>2, <3>3
  <2> QED BY <2>1, <2>2
<1> QED BY <1>1, <1>2, <1>4, <1>5 DEF Part, u

(* Parts that name nothing of each other. *)
LEMMA Pairing ==
    ASSUME NEW s, NEW t, NEW ids, NEW more, NEW known,
           Part(s, ids, known), Part(t, more, known), ids \cap more = {}
    PROVE  Part(s \o t, ids \cup more, known)
<1>1. Part(t, more, known \cup Provided(s))
  BY DEF Part, Served
<1> QED BY <1>1, Chaining

-----------------------------------------------------------------------------
(* The parts written out *)

(* An argument is what it is made of. *)
Bare(a, opt, kind, id, uses) ==
    /\ Formed(a) /\ ~Has(a, "port")
    /\ a.opt = opt /\ a.kind = kind /\ a.id = id /\ a.uses = uses

(* The three ways the planner writes an argument. *)
LEMMA MadeDefining ==
    ASSUME NEW opt, NEW kind, NEW id, NEW uses
    PROVE  Bare(Defining(opt, kind, id, uses), opt, kind, id, uses) /\ NoCard(Defining(opt, kind, id, uses))
BY DEF Defining, Bare, Formed, NoCard, Has

LEMMA MadeUsing ==
    ASSUME NEW opt, NEW kind, NEW uses
    PROVE  Bare(Using(opt, kind, uses), opt, kind, "", uses) /\ NoCard(Using(opt, kind, uses))
BY DEF Using, Defining, Bare, Formed, NoCard, Has

LEMMA MadeArg ==
    ASSUME NEW opt, NEW kind
    PROVE  Bare(Arg(opt, kind), opt, kind, "", {}) /\ NoCard(Arg(opt, kind))
BY DEF Arg, Bare, Formed, NoCard, Has

WithMac(a, mac) == a ++ [mac |-> mac]

(* Giving a card its address changes nothing else of it. *)
LEMMA MacAdded ==
    ASSUME NEW a, NEW opt, NEW kind, NEW id, NEW uses, NEW mac, Bare(a, opt, kind, id, uses)
    PROVE  Bare(WithMac(a, mac), opt, kind, id, uses)
BY DEF WithMac, ++, Bare, Formed, Has

LEMMA MacCarried ==
    ASSUME NEW a, NEW mac, NoCard(a)
    PROVE  Has(WithMac(a, mac), "mac") /\ WithMac(a, mac).mac = mac
BY DEF WithMac, ++, Has, NoCard

(* A tuple of arguments is a part when each names what was defined before. *)
LEMMA OnePart ==
    ASSUME NEW a, NEW ids, NEW known, Formed(a), a.id \in ids \cup {""}, a.uses \subseteq known
    PROVE  Part(<<a>>, ids, known)
<1> DEFINE t == <<a>>
<1>1. One(t, a)
  BY OneIsList
<1> HIDE DEF t
<1>2. \A i \in DOMAIN t : i = 1 /\ t[i] = a
  BY <1>1 DEF One
<1>3. AllFormed(t) /\ Within(t, ids) /\ Unique(t)
  BY <1>2 DEF AllFormed, Within, Unique
<1>4. Served(t, known)
  BY <1>2 DEF Served
<1> QED BY <1>1, <1>3, <1>4 DEF Part, One, t

LEMMA TwoUnique ==
    ASSUME NEW t, NEW a, NEW b, Two(t, a, b), a.id = b.id => a.id = ""
    PROVE  Unique(t)
BY DEF Two, Unique

LEMMA ThreeUnique ==
    ASSUME NEW t, NEW a, NEW b, NEW c, Three(t, a, b, c),
           a.id = b.id => a.id = "", a.id = c.id => a.id = "", b.id = c.id => b.id = ""
    PROVE  Unique(t)
BY DEF Three, Unique

(* Two options, the second of which may name the first. *)
LEMMA TwoPart ==
    ASSUME NEW a, NEW b, NEW ids, NEW known, Formed(a), Formed(b),
           a.id \in ids \cup {""}, b.id \in ids \cup {""}, a.id = b.id => a.id = "",
           a.uses \subseteq known, b.uses \subseteq known \cup Defines(a)
    PROVE  Part(<<a, b>>, ids, known)
<1> DEFINE t == <<a, b>>
<1>1. Two(t, a, b)
  BY TwoIsList
<1> HIDE DEF t
<1>2. \A i \in DOMAIN t : t[i] = a \/ (t[i] = b /\ Precedes(t, a, i))
  BY <1>1, TwoInOrder
<1>3. AllFormed(t) /\ Within(t, ids) /\ Unique(t)
  BY <1>1, <1>2, TwoUnique DEF AllFormed, Within
<1>4. Served(t, known)
  <2> SUFFICES ASSUME NEW i \in DOMAIN t, NEW named \in t[i].uses, named \notin known
               PROVE  \E j \in DOMAIN t : named \in Defines(t[j]) /\ (named[1] = "bus" => j < i)
    BY DEF Served
  <2>1. named \in Defines(a) /\ Precedes(t, a, i)
    BY <1>2
  <2> QED BY <2>1 DEF Precedes
<1> QED BY <1>1, <1>3, <1>4 DEF Part, Two, t

(* Three options, each of which may name those before it. *)
LEMMA ThreePart ==
    ASSUME NEW a, NEW b, NEW c, NEW ids, NEW known, Formed(a), Formed(b), Formed(c),
           a.id \in ids \cup {""}, b.id \in ids \cup {""}, c.id \in ids \cup {""},
           a.id = b.id => a.id = "", a.id = c.id => a.id = "", b.id = c.id => b.id = "",
           a.uses \subseteq known, b.uses \subseteq known \cup Defines(a),
           c.uses \subseteq known \cup Defines(a) \cup Defines(b)
    PROVE  Part(<<a, b, c>>, ids, known)
<1> DEFINE t == <<a, b, c>>
<1>1. Three(t, a, b, c)
  BY ThreeIsList
<1> HIDE DEF t
<1>2. \A i \in DOMAIN t :
        \/ t[i] = a
        \/ t[i] = b /\ Precedes(t, a, i)
        \/ t[i] = c /\ Precedes(t, a, i) /\ Precedes(t, b, i)
  BY <1>1, ThreeInOrder
<1>3. AllFormed(t) /\ Within(t, ids) /\ Unique(t)
  BY <1>1, <1>2, ThreeUnique DEF AllFormed, Within
<1>4. Served(t, known)
  <2> SUFFICES ASSUME NEW i \in DOMAIN t, NEW named \in t[i].uses, named \notin known
               PROVE  \E j \in DOMAIN t : named \in Defines(t[j]) /\ (named[1] = "bus" => j < i)
    BY DEF Served
  <2>1. \/ named \in Defines(a) /\ Precedes(t, a, i)
        \/ named \in Defines(b) /\ Precedes(t, b, i)
    BY <1>2
  <2> QED BY <2>1 DEF Precedes
<1> QED BY <1>1, <1>3, <1>4 DEF Part, Three, t

(* What holds of each option of a tuple holds of the tuple. *)
LEMMA TuplesPlain ==
    ASSUME NEW a, NEW b, NEW c
    PROVE  /\ NoScreen(a) => Screenless(<<a>>)
           /\ NoScreen(a) /\ NoScreen(b) => Screenless(<<a, b>>)
           /\ NoScreen(a) /\ NoScreen(b) /\ NoScreen(c) => Screenless(<<a, b, c>>)
           /\ NoCard(a) => Cardless(<<a>>)
           /\ NoCard(a) /\ NoCard(b) => Cardless(<<a, b>>)
           /\ NoCard(a) /\ NoCard(b) /\ NoCard(c) => Cardless(<<a, b, c>>)
           /\ NoRoot(a) => Rootless(<<a>>)
           /\ NoRoot(a) /\ NoRoot(b) => Rootless(<<a, b>>)
           /\ NoRoot(a) /\ NoRoot(b) /\ NoRoot(c) => Rootless(<<a, b, c>>)
<1>1. \A i \in DOMAIN <<a>> : <<a>>[i] = a
  BY OneIsList DEF One
<1>2. \A i \in DOMAIN <<a, b>> : <<a, b>>[i] = a \/ <<a, b>>[i] = b
  BY TwoIsList DEF Two
<1>3. \A i \in DOMAIN <<a, b, c>> : <<a, b, c>>[i] = a \/ <<a, b, c>>[i] = b \/ <<a, b, c>>[i] = c
  BY ThreeIsList DEF Three
<1>4. /\ NoScreen(a) => Screenless(<<a>>)
      /\ NoCard(a) => Cardless(<<a>>)
      /\ NoRoot(a) => Rootless(<<a>>)
  BY <1>1 DEF Screenless, Cardless, Rootless
<1>5. /\ NoScreen(a) /\ NoScreen(b) => Screenless(<<a, b>>)
      /\ NoCard(a) /\ NoCard(b) => Cardless(<<a, b>>)
      /\ NoRoot(a) /\ NoRoot(b) => Rootless(<<a, b>>)
  BY <1>2 DEF Screenless, Cardless, Rootless
<1>6. /\ NoScreen(a) /\ NoScreen(b) /\ NoScreen(c) => Screenless(<<a, b, c>>)
      /\ NoCard(a) /\ NoCard(b) /\ NoCard(c) => Cardless(<<a, b, c>>)
      /\ NoRoot(a) /\ NoRoot(b) /\ NoRoot(c) => Rootless(<<a, b, c>>)
  BY <1>3 DEF Screenless, Cardless, Rootless
<1> QED BY <1>4, <1>5, <1>6

TpmOptions ==
    <<Defining("-chardev", "socket", "chrtpm", {}),
      Defining("-tpmdev", "emulator", "tpm0", {<<"chardev", "chrtpm">>}),
      Using("-device", "tpm-tis", {<<"tpmdev", "tpm0">>})>>

(* append_tpm: the socket, the emulator on it, the device on that. *)
LEMMA TpmPart ==
    ASSUME NEW known
    PROVE  /\ Part(TpmOptions, {"chrtpm", "tpm0"}, known)
           /\ Quiet(TpmOptions)
<1> DEFINE a == Defining("-chardev", "socket", "chrtpm", {})
           b == Defining("-tpmdev", "emulator", "tpm0", {<<"chardev", "chrtpm">>})
           c == Using("-device", "tpm-tis", {<<"tpmdev", "tpm0">>})
<1>1. Bare(a, "-chardev", "socket", "chrtpm", {}) /\ NoCard(a)
  BY MadeDefining
<1>2. Bare(b, "-tpmdev", "emulator", "tpm0", {<<"chardev", "chrtpm">>}) /\ NoCard(b)
  BY MadeDefining
<1>3. Bare(c, "-device", "tpm-tis", "", {<<"tpmdev", "tpm0">>}) /\ NoCard(c)
  BY MadeUsing
<1>4. TpmOptions = <<a, b, c>>
  BY DEF TpmOptions
<1> HIDE DEF a, b, c
<1>5. Defines(a) = {<<"chardev", "chrtpm">>} /\ Defines(b) = {<<"tpmdev", "tpm0">>}
  BY <1>1, <1>2 DEF Defines, ClassOf, Bare
<1>6. Part(<<a, b, c>>, {"chrtpm", "tpm0"}, known)
  BY <1>1, <1>2, <1>3, <1>5, ThreePart DEF Bare
<1>7. NoScreen(a) /\ NoScreen(b) /\ NoScreen(c) /\ NoRoot(a) /\ NoRoot(b) /\ NoRoot(c)
  BY <1>1, <1>2, <1>3 DEF NoScreen, NoRoot, Bare
<1> QED BY <1>1, <1>2, <1>3, <1>4, <1>6, <1>7, TuplesPlain DEF Quiet

(* An option that is neither display, adapter nor drive. *)
LEMMA OneQuiet ==
    ASSUME NEW a, NEW opt, NEW kind, NEW id, NEW uses, Bare(a, opt, kind, id, uses), NoCard(a),
           opt \notin {"-display", "-vga", "-drive"}, id \notin {"me-video", "pc-video"}
    PROVE  Quiet(<<a>>) /\ NoScreen(a) /\ NoRoot(a)
<1>1. NoScreen(a) /\ NoRoot(a)
  BY DEF Bare, NoScreen, NoRoot
<1> QED BY <1>1, TuplesPlain DEF Quiet

(* An option that defines and names nothing. *)
LEMMA ArgPart ==
    ASSUME NEW opt, NEW kind, NEW known, opt \notin {"-display", "-vga", "-drive"}
    PROVE  Part(<<Arg(opt, kind)>>, {}, known) /\ Quiet(<<Arg(opt, kind)>>)
<1> DEFINE a == Arg(opt, kind)
<1>1. Bare(a, opt, kind, "", {}) /\ NoCard(a)
  BY MadeArg
<1> HIDE DEF a
<1>2. Part(<<a>>, {}, known)
  BY <1>1, OnePart DEF Bare
<1>3. opt \notin {"-display", "-vga", "-drive"} /\ "" \notin {"me-video", "pc-video"}
  OBVIOUS
<1>4. Quiet(<<a>>)
  BY <1>1, <1>3, OneQuiet
<1> QED BY <1>2, <1>4 DEF a

MachineIds == {"pcie-root-port-iso", "pcie-root-port-1", "pcie-root-port-2"}

(* The machine and, for a Q35, its root ports. *)
LEMMA MachinePart ==
    ASSUME NEW p, NEW known
    PROVE  Part(MachineOptions(p), MachineIds, known) /\ Quiet(MachineOptions(p))
<1> DEFINE a == RootPort("pcie-root-port-iso")
           b == RootPort("pcie-root-port-1")
           c == RootPort("pcie-root-port-2")
           d == Arg("-smp", "vcpus")
           e == Arg("-qmp", "qmp.sock")
           f == Arg("-pidfile", "qemu.pid")
           g == Arg("-machine", p.machine)
           slots == IF IsQ35(p.machine) THEN <<a, b, c>> ELSE <<>>
<1>1. /\ Bare(a, "-device", "pcie-root-port", "pcie-root-port-iso", {}) /\ NoCard(a)
      /\ Bare(b, "-device", "pcie-root-port", "pcie-root-port-1", {}) /\ NoCard(b)
      /\ Bare(c, "-device", "pcie-root-port", "pcie-root-port-2", {}) /\ NoCard(c)
  BY MadeDefining DEF RootPort
<1>2. /\ Bare(d, "-smp", "vcpus", "", {}) /\ NoCard(d)
      /\ Bare(e, "-qmp", "qmp.sock", "", {}) /\ NoCard(e)
      /\ Bare(f, "-pidfile", "qemu.pid", "", {}) /\ NoCard(f)
  BY MadeArg
<1>3. Part(<<g>>, {}, known) /\ Quiet(<<g>>)
  BY ArgPart
<1>4. MachineOptions(p) = <<g>> \o slots \o <<d, e, f>>
  BY DEF MachineOptions
<1> HIDE DEF a, b, c, d, e, f, g
<1>5. Part(<<a, b, c>>, MachineIds, known)
  BY <1>1, ThreePart DEF Bare, MachineIds
<1>6. Part(<<d, e, f>>, {}, known)
  BY <1>2, ThreePart DEF Bare
<1>7. NoScreen(a) /\ NoScreen(b) /\ NoScreen(c) /\ NoRoot(a) /\ NoRoot(b) /\ NoRoot(c)
  BY <1>1 DEF NoScreen, NoRoot, Bare
<1>8. NoScreen(d) /\ NoScreen(e) /\ NoScreen(f) /\ NoRoot(d) /\ NoRoot(e) /\ NoRoot(f)
  BY <1>2 DEF NoScreen, NoRoot, Bare
<1>9. Quiet(<<a, b, c>>) /\ Quiet(<<d, e, f>>)
  BY <1>1, <1>2, <1>7, <1>8, TuplesPlain DEF Quiet
<1>10. Part(slots, MachineIds, known) /\ Quiet(slots)
  <2>1. Part(<<>>, MachineIds, known) /\ Quiet(<<>>)
    BY EmptyPart, Widened
  <2> QED BY <1>5, <1>9, <2>1
<1> HIDE DEF slots
<1>11. Part(<<g>> \o slots, MachineIds, known) /\ Quiet(<<g>> \o slots)
  <2>1. Part(<<g>> \o slots, {} \cup MachineIds, known)
    BY <1>3, <1>10, Pairing
  <2>2. Quiet(<<g>> \o slots)
    BY <1>3, <1>10, Joined DEF Part
  <2> QED BY <2>1, <2>2
<1>12. Part(<<g>> \o slots \o <<d, e, f>>, MachineIds \cup {}, known)
  BY <1>6, <1>11, Pairing
<1>13. Quiet(<<g>> \o slots \o <<d, e, f>>)
  BY <1>6, <1>9, <1>11, Joined DEF Part
<1> QED BY <1>4, <1>12, <1>13

-----------------------------------------------------------------------------
(* Cards and their addresses *)

(* A list with at most one card, that of the given address. *)
SoleCard(s, mac) ==
    /\ \A i, j \in MacsOf(s) : i = j
    /\ \A i \in MacsOf(s) : s[i].mac = mac

LEMMA CardlessIsSole == ASSUME NEW s, NEW mac, Cardless(s) PROVE SoleCard(s, mac)
BY DEF Cardless, NoCard, SoleCard, MacsOf

(* append_network: no card, or one with the address of the profile. *)
LEMMA NetworkPart ==
    ASSUME NEW p, NEW known, Network(p) # Refused
    PROVE  /\ Part(Network(p), {"net0"}, known) /\ Screenless(Network(p)) /\ Rootless(Network(p))
           /\ SoleCard(Network(p), Address(p))
<1> DEFINE type == NetworkType(p, "user")
           kind == Field(p, "nic", "virtio-net-pci")
           mac == Address(p)
           bare == Using("-device", kind, {<<"netdev", "net0">>})
           card == Card(kind, "net0", mac)
           net(t) == Defining("-netdev", t, "net0", {})
<1>1. Bare(card, "-device", kind, "", {<<"netdev", "net0">>}) /\ Has(card, "mac") /\ card.mac = mac
  <2>1. Bare(bare, "-device", kind, "", {<<"netdev", "net0">>}) /\ NoCard(bare)
    BY MadeUsing
  <2>2. card = WithMac(bare, mac)
    BY DEF Card, WithMac
  <2> HIDE DEF bare, card, kind, mac, net, type
  <2>3. Bare(WithMac(bare, mac), "-device", kind, "", {<<"netdev", "net0">>})
    BY <2>1, MacAdded
  <2>4. Has(WithMac(bare, mac), "mac") /\ WithMac(bare, mac).mac = mac
    BY <2>1, MacCarried
  <2> QED BY <2>2, <2>3, <2>4
<1>2. \/ Network(p) = <<Arg("-nic", "none")>>
      \/ Network(p) = <<net("user"), card>>
      \/ Network(p) = <<net("bridge"), card>>
  BY DEF Network
<1>3. CASE Network(p) = <<Arg("-nic", "none")>>
  <2>1. Part(<<Arg("-nic", "none")>>, {}, known) /\ Quiet(<<Arg("-nic", "none")>>)
    BY ArgPart
  <2> QED BY <1>3, <2>1, Widened, CardlessIsSole DEF Quiet
<1> HIDE DEF card, net, mac, kind
<1>4. ASSUME NEW t, Network(p) = <<net(t), card>> PROVE
         /\ Part(Network(p), {"net0"}, known) /\ Screenless(Network(p)) /\ Rootless(Network(p))
         /\ SoleCard(Network(p), mac)
  <2> DEFINE a == net(t)
             s == <<a, card>>
  <2>1. Bare(a, "-netdev", t, "net0", {}) /\ NoCard(a)
    BY MadeDefining DEF net
  <2> HIDE DEF a
  <2>2. Defines(a) = {<<"netdev", "net0">>}
    BY <2>1 DEF Defines, ClassOf, Bare
  <2>3. Part(s, {"net0"}, known)
    BY <1>1, <2>1, <2>2, TwoPart DEF Bare
  <2>4. NoScreen(a) /\ NoScreen(card) /\ NoRoot(a) /\ NoRoot(card)
    BY <1>1, <2>1 DEF NoScreen, NoRoot, Bare
  <2>5. Screenless(s) /\ Rootless(s)
    BY <2>4, TuplesPlain
  <2>6. Two(s, a, card)
    BY TwoIsList
  <2> HIDE DEF s
  <2>7. MacsOf(s) = {2} /\ s[2] = card
    BY <1>1, <2>1, <2>6 DEF MacsOf, Two, NoCard
  <2>8. SoleCard(s, mac)
    BY <1>1, <2>7 DEF SoleCard
  <2>9. Network(p) = s
    BY <1>4 DEF s, a
  <2> QED BY <2>3, <2>5, <2>8, <2>9
<1> QED BY <1>2, <1>3, <1>4 DEF mac

(* The cards of the appliance's ports: each is told by the port it names. *)
Ported(p) == Has(p, "network") /\ Has(p.network, "ports")

PortMac(p, n) ==
    IF Has(p.network.ports[n], "mac") THEN p.network.ports[n].mac
                                      ELSE <<Address(p)[1], Address(p)[2] + n - 1>>

OfPort(a, p, n) == a.uses = {<<"netdev", UdmPorts[n]>>} /\ a.mac = PortMac(p, n)

Cabled(s, p, ports) ==
    /\ \A i \in MacsOf(s) : \E n \in ports : OfPort(s[i], p, n)
    /\ \A i, j \in MacsOf(s) : s[i].uses = s[j].uses => i = j

(* The four ports of the appliance have four names. *)
LEMMA PortNames ==
    /\ UdmPorts[1] = "udm-port0" /\ UdmPorts[2] = "udm-port1"
    /\ UdmPorts[3] = "udm-port2" /\ UdmPorts[4] = "udm-port3"
BY DEF UdmPorts

UdmPortIds == {"udm-port0", "udm-port1", "udm-port2", "udm-port3"}

LEMMA PortIds ==
    /\ \A n \in 1..4 : UdmPorts[n] \in UdmPortIds
    /\ \A m, n \in 1..4 : m # n => UdmPorts[m] # UdmPorts[n]
<1>1. \A n \in 1..4 : n = 1 \/ n = 2 \/ n = 3 \/ n = 4
  OBVIOUS
<1> DEFINE f(n) == UdmPorts[n]
<1>2. f(1) = "udm-port0" /\ f(2) = "udm-port1" /\ f(3) = "udm-port2" /\ f(4) = "udm-port3"
  BY PortNames
<1> HIDE DEF f
<1>3. \A n \in 1..4 : f(n) \in UdmPortIds
  BY <1>1, <1>2 DEF UdmPortIds
<1>4. \A m, n \in 1..4 : m # n => f(m) # f(n)
  BY <1>1, <1>2
<1> QED BY <1>3, <1>4 DEF f

LEMMA CardlessIsCabled == ASSUME NEW s, NEW p, NEW ports, Cardless(s) PROVE Cabled(s, p, ports)
BY DEF Cardless, NoCard, Cabled, MacsOf

LEMMA MacsPlaced ==
    ASSUME NEW s, NEW t, NEW u, Placed(s, t, u), NEW k \in MacsOf(u)
    PROVE  \/ k \in MacsOf(s) /\ u[k] = s[k]
           \/ \E i \in MacsOf(t) : k = Place(s, i) /\ u[k] = t[i]
BY DEF MacsOf, Placed

(* Ports joined keep a card each. *)
LEMMA Cabling ==
    ASSUME NEW s, NEW t, NEW p, NEW ms, NEW ns, IsList(s), IsList(t), Cabled(s, p, ms), Cabled(t, p, ns),
           \A m \in ms, n \in ns : UdmPorts[m] # UdmPorts[n]
    PROVE  Cabled(s \o t, p, ms \cup ns)
<1> DEFINE u == s \o t
<1>1. Placed(s, t, u)
  BY Placing
<1> HIDE DEF u
<1>2. \A k \in MacsOf(u) :
        \/ k \in MacsOf(s) /\ u[k] = s[k]
        \/ \E i \in MacsOf(t) : k = Place(s, i) /\ u[k] = t[i]
  BY <1>1, MacsPlaced
<1>3. \A i \in MacsOf(u) : \E n \in ms \cup ns : OfPort(u[i], p, n)
  BY <1>2 DEF Cabled
<1>4. ASSUME NEW i \in MacsOf(s), NEW j \in MacsOf(t) PROVE s[i].uses # t[j].uses
  <2>1. PICK m \in ms : OfPort(s[i], p, m)
    BY DEF Cabled
  <2>2. PICK n \in ns : OfPort(t[j], p, n)
    BY DEF Cabled
  <2>3. <<"netdev", UdmPorts[m]>> # <<"netdev", UdmPorts[n]>>
    OBVIOUS
  <2> QED BY <2>1, <2>2, <2>3 DEF OfPort
<1>5. ASSUME NEW i \in MacsOf(u), NEW j \in MacsOf(u), u[i].uses = u[j].uses PROVE i = j
  <2>1. CASE i \in MacsOf(s) /\ u[i] = s[i]
    BY <1>2, <1>4, <1>5, <2>1 DEF Cabled
  <2>2. ASSUME NEW k \in MacsOf(t), i = Place(s, k), u[i] = t[k] PROVE i = j
    <3>1. PICK l \in MacsOf(t) : j = Place(s, l) /\ u[j] = t[l]
      BY <1>2, <1>4, <1>5, <2>2
    <3> QED BY <1>5, <2>2, <3>1 DEF Cabled
  <2> QED BY <1>2, <2>1, <2>2
<1> QED BY <1>3, <1>5 DEF Cabled, u

(* One port: a network and the card that names it. *)
LEMMA PortPart ==
    ASSUME NEW p, NEW n, NEW known, UdmPorts[n] \notin {"", "me-video", "pc-video"}
    PROVE  /\ Part(UdmPort(p, n), {UdmPorts[n]}, known)
           /\ Screenless(UdmPort(p, n)) /\ Rootless(UdmPort(p, n))
           /\ Cabled(UdmPort(p, n), p, {n})
<1> DEFINE id == UdmPorts[n]
           mac == PortMac(p, n)
           type == p.network.ports[n].type
           a == Defining("-netdev", type, id, {})
           bare == Using("-net", "nic", {<<"netdev", id>>})
           card == WithMac(bare, mac)
           s == <<a, card>>
<1>1. UdmPort(p, n) = s
  BY DEF UdmPort, PortMac, WithMac
<1>2. Bare(bare, "-net", "nic", "", {<<"netdev", id>>}) /\ NoCard(bare)
  BY MadeUsing
<1>3. Bare(a, "-netdev", type, id, {}) /\ NoCard(a)
  BY MadeDefining
<1> HIDE DEF bare, a, mac, type
<1>4. Bare(card, "-net", "nic", "", {<<"netdev", id>>})
  BY <1>2, MacAdded
<1>5. Has(card, "mac") /\ card.mac = mac
  BY <1>2, MacCarried
<1> HIDE DEF card
<1>6. NoScreen(a) /\ NoScreen(card) /\ NoRoot(a) /\ NoRoot(card)
  BY <1>3, <1>4 DEF NoScreen, NoRoot, Bare
<1>7. Defines(a) = {<<"netdev", id>>}
  BY <1>3 DEF Defines, ClassOf, Bare
<1>8. Two(s, a, card)
  BY TwoIsList
<1>9. Part(s, {id}, known)
  BY <1>3, <1>4, <1>7, TwoPart DEF Bare
<1>10. Screenless(s) /\ Rootless(s)
  BY <1>6, TuplesPlain
<1> HIDE DEF s
<1>11. MacsOf(s) = {2} /\ s[2] = card
  BY <1>3, <1>5, <1>8 DEF MacsOf, Two, NoCard
<1>12. OfPort(card, p, n)
  BY <1>4, <1>5 DEF OfPort, Bare, mac
<1>13. Cabled(s, p, {n})
  BY <1>11, <1>12 DEF Cabled
<1> QED BY <1>1, <1>9, <1>10, <1>13

Wiring(s, p, known, ports) ==
    /\ Part(s, {UdmPorts[n] : n \in ports}, known)
    /\ Screenless(s) /\ Rootless(s) /\ Cabled(s, p, ports)

(* One more port behind those already there. *)
LEMMA NextPort ==
    ASSUME NEW s, NEW p, NEW known, NEW ports, ports \subseteq 1..4, NEW n \in 1..4, n \notin ports,
           Wiring(s, p, known, ports)
    PROVE  Wiring(s \o UdmPort(p, n), p, known, ports \cup {n})
<1> DEFINE t == UdmPort(p, n)
           ids == {UdmPorts[m] : m \in ports}
<1>1. /\ Part(t, {UdmPorts[n]}, known)
      /\ Screenless(t) /\ Rootless(t) /\ Cabled(t, p, {n})
  <2>1. UdmPorts[n] \notin {"", "me-video", "pc-video"}
    BY PortIds DEF UdmPortIds
  <2> QED BY <2>1, PortPart
<1>2. /\ Part(s, ids, known)
      /\ Screenless(s) /\ Rootless(s) /\ Cabled(s, p, ports)
  BY DEF Wiring
<1>3. IsList(s) /\ IsList(t)
  BY <1>1, <1>2 DEF Part
<1>4. \A m \in ports : UdmPorts[m] # UdmPorts[n]
  BY PortIds
<1>5. ids \cap {UdmPorts[n]} = {} /\ ids \cup {UdmPorts[n]} = {UdmPorts[m] : m \in ports \cup {n}}
  BY <1>4
<1> HIDE DEF t, ids
<1>6. Part(s \o t, ids \cup {UdmPorts[n]}, known)
  BY <1>1, <1>2, <1>5, Pairing
<1>7. Screenless(s \o t) /\ Rootless(s \o t)
  BY <1>1, <1>2, <1>3, Joined
<1>8. Cabled(s \o t, p, ports \cup {n})
  BY <1>1, <1>2, <1>3, <1>4, Cabling
<1> QED BY <1>5, <1>6, <1>7, <1>8 DEF Wiring, t

(* append_udm_network: four ports, or one card, or none. *)
LEMMA UdmNetworkPart ==
    ASSUME NEW p, NEW known, UdmNetwork(p) # Refused
    PROVE  /\ Part(UdmNetwork(p), UdmPortIds, known)
           /\ Screenless(UdmNetwork(p)) /\ Rootless(UdmNetwork(p))
           /\ \/ SoleCard(UdmNetwork(p), Address(p))
              \/ Ported(p) /\ Cabled(UdmNetwork(p), p, 1..4)
<1> DEFINE s0 == <<Arg("-net", "none")>>
<1>0. Part(s0, {}, known) /\ Quiet(s0)
  BY ArgPart
<1>1. CASE Ported(p)
  <2> DEFINE s1 == s0 \o UdmPort(p, 1)
             s2 == s1 \o UdmPort(p, 2)
             s3 == s2 \o UdmPort(p, 3)
             s4 == s3 \o UdmPort(p, 4)
  <2>1. UdmNetwork(p) = s4
    BY <1>1 DEF UdmNetwork, Ported
  <2>2. Wiring(s0, p, known, {})
    <3>1. {UdmPorts[n] : n \in {}} = {}
      OBVIOUS
    <3> QED BY <1>0, <3>1, CardlessIsCabled DEF Quiet, Wiring
  <2> HIDE DEF s0
  <2>3. Wiring(s1, p, known, {1})
    <3>1. 1 \in 1..4 /\ 1 \notin {} /\ {} \subseteq 1..4 /\ {} \cup {1} = {1}
      OBVIOUS
    <3>2. Wiring(s1, p, known, {} \cup {1})
      BY <2>2, <3>1, NextPort
    <3> QED BY <3>1, <3>2
  <2> HIDE DEF s1
  <2>4. Wiring(s2, p, known, {1, 2})
    <3>1. 2 \in 1..4 /\ 2 \notin {1} /\ {1} \subseteq 1..4 /\ {1} \cup {2} = {1, 2}
      OBVIOUS
    <3>2. Wiring(s2, p, known, {1} \cup {2})
      BY <2>3, <3>1, NextPort
    <3> QED BY <3>1, <3>2
  <2> HIDE DEF s2
  <2>5. Wiring(s3, p, known, {1, 2, 3})
    <3>1. 3 \in 1..4 /\ 3 \notin {1, 2} /\ {1, 2} \subseteq 1..4 /\ {1, 2} \cup {3} = {1, 2, 3}
      OBVIOUS
    <3>2. Wiring(s3, p, known, {1, 2} \cup {3})
      BY <2>4, <3>1, NextPort
    <3> QED BY <3>1, <3>2
  <2> HIDE DEF s3
  <2>6. Wiring(s4, p, known, 1..4)
    <3>1. 4 \in 1..4 /\ 4 \notin {1, 2, 3} /\ {1, 2, 3} \subseteq 1..4 /\ {1, 2, 3} \cup {4} = 1..4
      OBVIOUS
    <3>2. Wiring(s4, p, known, {1, 2, 3} \cup {4})
      BY <2>5, <3>1, NextPort
    <3> QED BY <3>1, <3>2
  <2> HIDE DEF s4
  <2>7. {UdmPorts[n] : n \in 1..4} \subseteq UdmPortIds
    BY PortIds
  <2>8. Part(s4, UdmPortIds, known)
    BY <2>6, <2>7, Widened DEF Wiring
  <2> QED BY <1>1, <2>1, <2>6, <2>8 DEF Wiring
<1>2. CASE ~Ported(p)
  <2> DEFINE type == NetworkType(p, "disabled")
             bare == Arg("-nic", type)
             card == WithMac(bare, Address(p))
             none == Arg("-net", "none")
             s == <<none, card>>
  <2>1. UdmNetwork(p) = s0 \/ UdmNetwork(p) = s
    BY <1>2 DEF UdmNetwork, Ported, WithMac
  <2>2. CASE UdmNetwork(p) = s0
    BY <1>0, <2>2, Widened, CardlessIsSole DEF Quiet
  <2>3. CASE UdmNetwork(p) = s
    <3>1. Bare(none, "-net", "none", "", {}) /\ NoCard(none)
      BY MadeArg
    <3>2. Bare(bare, "-nic", type, "", {}) /\ NoCard(bare)
      BY MadeArg
    <3> HIDE DEF bare, none, type
    <3>3. Bare(card, "-nic", type, "", {})
      BY <3>2, MacAdded
    <3>4. Has(card, "mac") /\ card.mac = Address(p)
      BY <3>2, MacCarried
    <3> HIDE DEF card
    <3>5. NoScreen(none) /\ NoScreen(card) /\ NoRoot(none) /\ NoRoot(card)
      BY <3>1, <3>3 DEF NoScreen, NoRoot, Bare
    <3>6. Two(s, none, card)
      BY TwoIsList
    <3>7. Part(s, UdmPortIds, known)
      BY <3>1, <3>3, TwoPart DEF Bare
    <3>8. Screenless(s) /\ Rootless(s)
      BY <3>5, TuplesPlain
    <3> HIDE DEF s
    <3>9. MacsOf(s) = {2} /\ s[2] = card
      BY <3>1, <3>4, <3>6 DEF MacsOf, Two, NoCard
    <3>10. SoleCard(s, Address(p))
      BY <3>4, <3>9 DEF SoleCard
    <3> QED BY <2>3, <3>7, <3>8, <3>10
  <2> HIDE DEF s
  <2> QED BY <2>1, <2>2, <2>3
<1> QED BY <1>1, <1>2

-----------------------------------------------------------------------------
(* Firmware, boot and disks *)

FirmwareOptions == <<Arg("-drive", "pflash-code"), Arg("-drive", "pflash-vars")>>

(* append_firmware: the code and the variables. *)
LEMMA FirmwarePart == ASSUME NEW known PROVE Part(FirmwareOptions, {}, known) /\ Quiet(FirmwareOptions)
<1> DEFINE a == Arg("-drive", "pflash-code")
           b == Arg("-drive", "pflash-vars")
<1>1. Bare(a, "-drive", "pflash-code", "", {}) /\ NoCard(a)
  BY MadeArg
<1>2. Bare(b, "-drive", "pflash-vars", "", {}) /\ NoCard(b)
  BY MadeArg
<1>3. FirmwareOptions = <<a, b>>
  BY DEF FirmwareOptions
<1> HIDE DEF a, b
<1>4. Part(<<a, b>>, {}, known)
  BY <1>1, <1>2, TwoPart DEF Bare
<1>5. NoScreen(a) /\ NoScreen(b) /\ NoRoot(a) /\ NoRoot(b)
  BY <1>1, <1>2 DEF NoScreen, NoRoot, Bare
<1> QED BY <1>1, <1>2, <1>3, <1>4, <1>5, TuplesPlain DEF Quiet

LEMMA QuietPairing ==
    ASSUME NEW s, NEW t, NEW known, Part(s, {}, known), Part(t, {}, known), Quiet(s), Quiet(t)
    PROVE  Part(s \o t, {}, known) /\ Quiet(s \o t)
<1>1. Part(s \o t, {} \cup {}, known)
  BY Pairing
<1> QED BY <1>1, Joined DEF Part

(* append_direct_boot defines no id and names none. *)
LEMMA DirectBootPart ==
    ASSUME NEW p, NEW known, DirectBoot(p) # Refused
    PROVE  Part(DirectBoot(p), {}, known) /\ Quiet(DirectBoot(p))
<1> DEFINE boot == Field(p, "boot", <<>>)
           first == IF Has(boot, "from") THEN <<Arg("-boot", boot.from)>> ELSE <<>>
           Good(s) == Part(s, {}, known) /\ Quiet(s)
<1>1. Good(first)
  <2>1. Good(<<Arg("-boot", boot.from)>>)
    BY ArgPart
  <2>2. Good(<<>>)
    BY EmptyPart
  <2> QED BY <2>1, <2>2
<1>2. \A part : Good(BootPart(boot, part))
  <2>1. ASSUME NEW part PROVE Good(BootPart(boot, part))
    <3>1. Good(<<Arg("-boot-part", boot[part])>>)
      BY ArgPart
    <3>2. Good(<<>>)
      BY EmptyPart
    <3> QED BY <3>1, <3>2 DEF BootPart
  <2> QED BY <2>1
<1> DEFINE s1 == first \o BootPart(boot, "kernel")
           s2 == s1 \o BootPart(boot, "initrd")
           s3 == s2 \o BootPart(boot, "dtb")
<1>3. DirectBoot(p) = s3
  BY DEF DirectBoot
<1>4. \A s, t : Good(s) /\ Good(t) => Good(s \o t)
  BY QuietPairing
<1> HIDE DEF Good, first, boot
<1>5. Good(s1)
  BY <1>1, <1>2, <1>4
<1>6. Good(s2)
  BY <1>2, <1>4, <1>5
<1>7. Good(s3)
  BY <1>2, <1>4, <1>6
<1> HIDE DEF s3
<1> QED BY <1>3, <1>7 DEF Good

StorageIds == {"pc-disk", "pc-sata"}

(* append_storage: an overlay only of a component of the image. *)
LEMMA StoragePart ==
    ASSUME NEW p, Storage(p) # Refused
    PROVE  /\ Part(Storage(p), StorageIds, OnBoard(p.machine))
           /\ Screenless(Storage(p)) /\ Cardless(Storage(p))
           /\ \/ Rootless(Storage(p))
              \/ Has(p, "storage") /\ Available(p, p.storage.disk.component)
<1> DEFINE disk == p.storage.disk
           bus == Field(disk, "bus", "sata")
           overlay == Defining("-drive", "overlay", "pc-disk", {})
           ahci == Defining("-device", "ich9-ahci", "pc-sata", {})
           On(kind, uses) == Using("-device", kind, {<<"drive", "pc-disk">>} \cup uses)
           virtio == On("virtio-blk-pci", {})
           ide == On("ide-hd", {<<"bus", "ide">>})
           sata == On("ide-hd", {<<"bus", "pc-sata">>})
           known == OnBoard(p.machine)
<1>1. CASE ~Has(p, "storage")
  <2>1. Storage(p) = <<>>
    BY <1>1 DEF Storage
  <2>2. Part(<<>>, StorageIds, known) /\ Quiet(<<>>)
    BY EmptyPart, Widened
  <2> HIDE DEF known
  <2> QED BY <2>1, <2>2 DEF Quiet, known
<1>2. CASE Has(p, "storage")
  <2>1. Available(p, disk.component)
    BY <1>2 DEF Storage
  <2>2. \/ Storage(p) = <<overlay, virtio>>
        \/ p.machine = "pc" /\ Storage(p) = <<overlay, ide>>
        \/ Storage(p) = <<ahci, overlay, sata>>
    BY <1>2, <2>1 DEF Storage
  <2>3. Bare(overlay, "-drive", "overlay", "pc-disk", {}) /\ NoCard(overlay)
    BY MadeDefining
  <2>4. Bare(ahci, "-device", "ich9-ahci", "pc-sata", {}) /\ NoCard(ahci)
    BY MadeDefining
  <2>5. /\ Bare(virtio, "-device", "virtio-blk-pci", "", {<<"drive", "pc-disk">>} \cup {})
        /\ NoCard(virtio)
    BY MadeUsing
  <2>6. Bare(ide, "-device", "ide-hd", "", {<<"drive", "pc-disk">>} \cup {<<"bus", "ide">>}) /\ NoCard(ide)
    BY MadeUsing
  <2>7. /\ Bare(sata, "-device", "ide-hd", "", {<<"drive", "pc-disk">>} \cup {<<"bus", "pc-sata">>})
        /\ NoCard(sata)
    BY MadeUsing
  <2> HIDE DEF overlay, ahci, virtio, ide, sata, known
  <2>8. Defines(overlay) = {<<"drive", "pc-disk">>} /\ Defines(ahci) = {<<"bus", "pc-sata">>}
    BY <2>3, <2>4 DEF Defines, ClassOf, Bare
  <2>9. /\ NoScreen(overlay) /\ NoScreen(ahci) /\ NoScreen(virtio) /\ NoScreen(ide) /\ NoScreen(sata)
    BY <2>3, <2>4, <2>5, <2>6, <2>7 DEF NoScreen, Bare
  <2>10. CASE Storage(p) = <<overlay, virtio>>
    <3>1. Part(<<overlay, virtio>>, StorageIds, known)
      BY <2>3, <2>5, <2>8, TwoPart DEF Bare, StorageIds
    <3> QED BY <1>2, <2>1, <2>3, <2>5, <2>9, <2>10, <3>1, TuplesPlain DEF known
  <2>11. CASE p.machine = "pc" /\ Storage(p) = <<overlay, ide>>
    <3>1. known = {<<"bus", "ide">>}
      BY <2>11 DEF known, OnBoard
    <3>2. Part(<<overlay, ide>>, StorageIds, known)
      BY <2>3, <2>6, <2>8, <3>1, TwoPart DEF Bare, StorageIds
    <3> QED BY <1>2, <2>1, <2>3, <2>6, <2>9, <2>11, <3>2, TuplesPlain DEF known
  <2>12. CASE Storage(p) = <<ahci, overlay, sata>>
    <3>1. Part(<<ahci, overlay, sata>>, StorageIds, known)
      BY <2>3, <2>4, <2>7, <2>8, ThreePart DEF Bare, StorageIds
    <3> QED BY <1>2, <2>1, <2>3, <2>4, <2>7, <2>9, <2>12, <3>1, TuplesPlain DEF known
  <2> QED BY <2>2, <2>10, <2>11, <2>12
<1> QED BY <1>1, <1>2

UdmStorageIds == {"udm-boot", "udm-config"}

(* append_udm_storage: two snapshots, and no overlay. *)
LEMMA UdmStoragePart ==
    ASSUME NEW p, NEW known, UdmStorage(p) # Refused
    PROVE  Part(UdmStorage(p), UdmStorageIds, known) /\ Quiet(UdmStorage(p))
<1> DEFINE a == Defining("-drive", "snapshot", "udm-boot", {})
           b == Defining("-drive", "snapshot", "udm-config", {})
<1>1. Bare(a, "-drive", "snapshot", "udm-boot", {}) /\ NoCard(a)
  BY MadeDefining
<1>2. Bare(b, "-drive", "snapshot", "udm-config", {}) /\ NoCard(b)
  BY MadeDefining
<1>3. UdmStorage(p) = <<a, b>>
  BY DEF UdmStorage
<1> HIDE DEF a, b
<1>4. Part(<<a, b>>, UdmStorageIds, known)
  BY <1>1, <1>2, TwoPart DEF Bare, UdmStorageIds
<1>5. NoScreen(a) /\ NoScreen(b) /\ NoRoot(a) /\ NoRoot(b)
  BY <1>1, <1>2 DEF NoScreen, NoRoot, Bare
<1> QED BY <1>1, <1>2, <1>3, <1>4, <1>5, TuplesPlain DEF Quiet

-----------------------------------------------------------------------------
(* What a list shows: its display, and its adapter *)

VideoIds == {"me-video", "pc-video"}

HasOpt(s, o) == \E i \in DOMAIN s : s[i].opt = o
HasVideo(s) == \E i \in DOMAIN s : s[i].id \in VideoIds

(* The only argument of the option, the only adapter. *)
OneOpt(s, o, a) ==
    /\ a.opt = o
    /\ \E k \in DOMAIN s : s[k] = a /\ \A i \in DOMAIN s : s[i].opt = o => i = k
OneVideo(s, a) ==
    /\ a.id \in VideoIds
    /\ \E k \in DOMAIN s : s[k] = a /\ \A i \in DOMAIN s : s[i].id \in VideoIds => i = k

Portless(s) == \A i \in DOMAIN s : ~Has(s[i], "port")

(* The only argument of an option stays the only one. *)
LEMMA OptJoined ==
    ASSUME NEW s, NEW t, NEW u, NEW o, Placed(s, t, u)
    PROVE  /\ ~HasOpt(s, o) /\ ~HasOpt(t, o) => ~HasOpt(u, o)
           /\ \A a : OneOpt(s, o, a) /\ ~HasOpt(t, o) => OneOpt(u, o, a)
           /\ \A a : ~HasOpt(s, o) /\ OneOpt(t, o, a) => OneOpt(u, o, a)
<1>1. /\ \A k \in DOMAIN u :
           \/ k \in DOMAIN s /\ u[k] = s[k]
           \/ \E i \in DOMAIN t : k = Place(s, i) /\ u[k] = t[i]
      /\ \A i \in DOMAIN s : i \in DOMAIN u /\ u[i] = s[i]
      /\ \A i \in DOMAIN t : Place(s, i) \in DOMAIN u /\ u[Place(s, i)] = t[i]
  BY DEF Placed
<1>2. ~HasOpt(s, o) /\ ~HasOpt(t, o) => ~HasOpt(u, o)
  BY <1>1 DEF HasOpt
<1>3. ASSUME NEW a, OneOpt(s, o, a), ~HasOpt(t, o) PROVE OneOpt(u, o, a)
  <2>1. PICK k \in DOMAIN s : s[k] = a /\ \A i \in DOMAIN s : s[i].opt = o => i = k
    BY <1>3 DEF OneOpt
  <2>2. \A i \in DOMAIN u : u[i].opt = o => i = k
    BY <1>1, <1>3, <2>1 DEF HasOpt
  <2> QED BY <1>1, <1>3, <2>1, <2>2 DEF OneOpt
<1>4. ASSUME NEW a, ~HasOpt(s, o), OneOpt(t, o, a) PROVE OneOpt(u, o, a)
  <2>1. PICK k \in DOMAIN t : t[k] = a /\ \A i \in DOMAIN t : t[i].opt = o => i = k
    BY <1>4 DEF OneOpt
  <2>2. \A i \in DOMAIN u : u[i].opt = o => i = Place(s, k)
    BY <1>1, <1>4, <2>1 DEF HasOpt
  <2>3. Place(s, k) \in DOMAIN u /\ u[Place(s, k)] = a
    BY <1>1, <2>1
  <2> QED BY <1>4, <2>2, <2>3 DEF OneOpt
<1> QED BY <1>2, <1>3, <1>4

(* The same for the adapter. *)
LEMMA VideoJoined ==
    ASSUME NEW s, NEW t, NEW u, Placed(s, t, u)
    PROVE  /\ ~HasVideo(s) /\ ~HasVideo(t) => ~HasVideo(u)
           /\ \A a : OneVideo(s, a) /\ ~HasVideo(t) => OneVideo(u, a)
           /\ \A a : ~HasVideo(s) /\ OneVideo(t, a) => OneVideo(u, a)
<1>1. /\ \A k \in DOMAIN u :
           \/ k \in DOMAIN s /\ u[k] = s[k]
           \/ \E i \in DOMAIN t : k = Place(s, i) /\ u[k] = t[i]
      /\ \A i \in DOMAIN s : i \in DOMAIN u /\ u[i] = s[i]
      /\ \A i \in DOMAIN t : Place(s, i) \in DOMAIN u /\ u[Place(s, i)] = t[i]
  BY DEF Placed
<1>2. ~HasVideo(s) /\ ~HasVideo(t) => ~HasVideo(u)
  BY <1>1 DEF HasVideo
<1>3. ASSUME NEW a, OneVideo(s, a), ~HasVideo(t) PROVE OneVideo(u, a)
  <2>1. PICK k \in DOMAIN s : s[k] = a /\ \A i \in DOMAIN s : s[i].id \in VideoIds => i = k
    BY <1>3 DEF OneVideo
  <2>2. \A i \in DOMAIN u : u[i].id \in VideoIds => i = k
    BY <1>1, <1>3, <2>1 DEF HasVideo
  <2> QED BY <1>1, <1>3, <2>1, <2>2 DEF OneVideo
<1>4. ASSUME NEW a, ~HasVideo(s), OneVideo(t, a) PROVE OneVideo(u, a)
  <2>1. PICK k \in DOMAIN t : t[k] = a /\ \A i \in DOMAIN t : t[i].id \in VideoIds => i = k
    BY <1>4 DEF OneVideo
  <2>2. \A i \in DOMAIN u : u[i].id \in VideoIds => i = Place(s, k)
    BY <1>1, <1>4, <2>1 DEF HasVideo
  <2>3. Place(s, k) \in DOMAIN u /\ u[Place(s, k)] = a
    BY <1>1, <2>1
  <2> QED BY <1>4, <2>2, <2>3 DEF OneVideo
<1> QED BY <1>2, <1>3, <1>4

Unshown(s) == ~HasOpt(s, "-display")
Shown(s, kind) == \E a : OneOpt(s, "-display", a) /\ a.kind = kind

Bareheaded(s) == ~HasOpt(s, "-vga") /\ ~HasVideo(s)
Forged(s, id, kind) ==
    /\ \E v : OneOpt(s, "-vga", v) /\ v.kind = "none"
    /\ \E a : OneVideo(s, a) /\ a.opt = "-device" /\ a.id = id /\ a.kind = kind

(* A list without screen shows nothing. *)
LEMMA ScreenlessShows ==
    ASSUME NEW s, Screenless(s)
    PROVE  Unshown(s) /\ Bareheaded(s) /\ Portless(s)
BY DEF Screenless, NoScreen, Unshown, Bareheaded, Portless, HasOpt, HasVideo, VideoIds

(* What a list shows, another that shows nothing does not change. *)
LEMMA ShowsJoined ==
    ASSUME NEW s, NEW t, IsList(s), IsList(t)
    PROVE  /\ Unshown(s) /\ Unshown(t) => Unshown(s \o t)
           /\ \A kind : Shown(s, kind) /\ Unshown(t) => Shown(s \o t, kind)
           /\ \A kind : Unshown(s) /\ Shown(t, kind) => Shown(s \o t, kind)
           /\ Bareheaded(s) /\ Bareheaded(t) => Bareheaded(s \o t)
           /\ \A id, kind : Forged(s, id, kind) /\ Bareheaded(t) => Forged(s \o t, id, kind)
           /\ \A id, kind : Bareheaded(s) /\ Forged(t, id, kind) => Forged(s \o t, id, kind)
           /\ Portless(s) /\ Portless(t) => Portless(s \o t)
<1> DEFINE u == s \o t
<1>1. Placed(s, t, u)
  BY Placing
<1> HIDE DEF u
<1>2. \A o : /\ ~HasOpt(s, o) /\ ~HasOpt(t, o) => ~HasOpt(u, o)
             /\ \A a : OneOpt(s, o, a) /\ ~HasOpt(t, o) => OneOpt(u, o, a)
             /\ \A a : ~HasOpt(s, o) /\ OneOpt(t, o, a) => OneOpt(u, o, a)
  BY <1>1, OptJoined
<1>3. /\ ~HasVideo(s) /\ ~HasVideo(t) => ~HasVideo(u)
      /\ \A a : OneVideo(s, a) /\ ~HasVideo(t) => OneVideo(u, a)
      /\ \A a : ~HasVideo(s) /\ OneVideo(t, a) => OneVideo(u, a)
  BY <1>1, VideoJoined
<1>4. Unshown(s) /\ Unshown(t) => Unshown(u)
  BY <1>2 DEF Unshown
<1>5. \A kind : Shown(s, kind) /\ Unshown(t) => Shown(u, kind)
  BY <1>2 DEF Unshown, Shown
<1>6. \A kind : Unshown(s) /\ Shown(t, kind) => Shown(u, kind)
  BY <1>2 DEF Unshown, Shown
<1>7. Bareheaded(s) /\ Bareheaded(t) => Bareheaded(u)
  BY <1>2, <1>3 DEF Bareheaded
<1>8. \A id, kind : Forged(s, id, kind) /\ Bareheaded(t) => Forged(u, id, kind)
  BY <1>2, <1>3 DEF Bareheaded, Forged
<1>9. \A id, kind : Bareheaded(s) /\ Forged(t, id, kind) => Forged(u, id, kind)
  BY <1>2, <1>3 DEF Bareheaded, Forged
<1>10. Portless(s) /\ Portless(t) => Portless(u)
  BY <1>1 DEF Portless, Placed
<1> QED BY <1>4, <1>5, <1>6, <1>7, <1>8, <1>9, <1>10 DEF u

-----------------------------------------------------------------------------
(* The devices *)

LEMMA AgentPart ==
    ASSUME NEW p, NEW known
    PROVE  Part(Agent(p), {"qga0", "virtio-serial0"}, known) /\ Quiet(Agent(p))
<1> DEFINE a == Defining("-chardev", "socket", "qga0", {})
           b == Defining("-device", "virtio-serial-pci", "virtio-serial0", {})
           c == Using("-device", "virtserialport", {<<"chardev", "qga0">>, <<"bus", "virtio-serial0">>})
           ids == {"qga0", "virtio-serial0"}
<1>1. Bare(a, "-chardev", "socket", "qga0", {}) /\ NoCard(a)
  BY MadeDefining
<1>2. Bare(b, "-device", "virtio-serial-pci", "virtio-serial0", {}) /\ NoCard(b)
  BY MadeDefining
<1>3. /\ Bare(c, "-device", "virtserialport", "", {<<"chardev", "qga0">>, <<"bus", "virtio-serial0">>})
      /\ NoCard(c)
  BY MadeUsing
<1>4. Agent(p) = <<a, b, c>> \/ Agent(p) = <<>>
  BY DEF Agent
<1> HIDE DEF a, b, c
<1>5. Defines(a) = {<<"chardev", "qga0">>} /\ Defines(b) = {<<"bus", "virtio-serial0">>}
  BY <1>1, <1>2 DEF Defines, ClassOf, Bare
<1>6. Part(<<a, b, c>>, ids, known)
  BY <1>1, <1>2, <1>3, <1>5, ThreePart DEF Bare
<1>7. NoScreen(a) /\ NoScreen(b) /\ NoScreen(c) /\ NoRoot(a) /\ NoRoot(b) /\ NoRoot(c)
  BY <1>1, <1>2, <1>3 DEF NoScreen, NoRoot, Bare
<1>8. Quiet(<<a, b, c>>)
  BY <1>1, <1>2, <1>3, <1>7, TuplesPlain DEF Quiet
<1>9. Part(<<>>, ids, known) /\ Quiet(<<>>)
  BY EmptyPart, Widened
<1> QED BY <1>4, <1>6, <1>8, <1>9

(* A socket and the port that reads it: the serial console, the Bluetooth UART. *)
LEMMA UartPart ==
    ASSUME NEW id, NEW known, id \notin {"", "me-video", "pc-video"}
    PROVE  LET s == <<Defining("-chardev", "socket", id, {}), Using("-serial", "chardev", {<<"chardev", id>>})>>
           IN  Part(s, {id}, known) /\ Quiet(s)
<1> DEFINE a == Defining("-chardev", "socket", id, {})
           b == Using("-serial", "chardev", {<<"chardev", id>>})
<1>1. Bare(a, "-chardev", "socket", id, {}) /\ NoCard(a)
  BY MadeDefining
<1>2. Bare(b, "-serial", "chardev", "", {<<"chardev", id>>}) /\ NoCard(b)
  BY MadeUsing
<1> HIDE DEF a, b
<1>3. Defines(a) = {<<"chardev", id>>}
  BY <1>1 DEF Defines, ClassOf, Bare
<1>4. Part(<<a, b>>, {id}, known)
  BY <1>1, <1>2, <1>3, TwoPart DEF Bare
<1>5. NoScreen(a) /\ NoScreen(b) /\ NoRoot(a) /\ NoRoot(b)
  BY <1>1, <1>2 DEF NoScreen, NoRoot, Bare
<1>6. Quiet(<<a, b>>)
  BY <1>1, <1>2, <1>5, TuplesPlain DEF Quiet
<1> QED BY <1>4, <1>6 DEF a, b

(* The serial console. *)
LEMMA SerialPart == ASSUME NEW p, NEW known PROVE Part(Serial(p), {"uart0"}, known) /\ Quiet(Serial(p))
<1> DEFINE uart == <<Defining("-chardev", "socket", "uart0", {}), Using("-serial", "chardev", {<<"chardev", "uart0">>})>>
           Good(s) == Part(s, {"uart0"}, known) /\ Quiet(s)
<1>1. \/ Serial(p) = uart \/ Serial(p) = <<Arg("-serial", "file")>>
      \/ Serial(p) = <<Arg("-serial", "stdio")>> \/ Serial(p) = <<>>
  BY DEF Serial
<1>2. Good(uart)
  BY UartPart
<1>3. Good(<<Arg("-serial", "file")>>)
  BY ArgPart, Widened
<1>4. Good(<<Arg("-serial", "stdio")>>)
  BY ArgPart, Widened
<1>5. Good(<<>>)
  BY EmptyPart, Widened
<1> HIDE DEF uart
<1> QED BY <1>1, <1>2, <1>3, <1>4, <1>5

(* The pointers share one controller, written before them. *)
LEMMA PointersPart ==
    ASSUME NEW p, NEW known
    PROVE  Part(Pointers(p), {"usb"}, known) /\ Quiet(Pointers(p))
<1> DEFINE hub == Defining("-device", "qemu-xhci", "usb", {})
           s0 == <<hub>>
           s1 == s0 \o Pointer(p, "usb_tablet")
           s2 == s1 \o Pointer(p, "usb_mouse")
           bus == <<"bus", "usb">>
<1>1. \A device : Part(Pointer(p, device), {}, {bus}) /\ Quiet(Pointer(p, device))
  <2>1. ASSUME NEW device PROVE Part(Pointer(p, device), {}, {bus}) /\ Quiet(Pointer(p, device))
    <3> DEFINE a == Using("-device", device, {bus})
    <3>1. Bare(a, "-device", device, "", {bus}) /\ NoCard(a)
      BY MadeUsing
    <3>2. Pointer(p, device) = <<a>> \/ Pointer(p, device) = <<>>
      BY DEF Pointer
    <3> HIDE DEF a
    <3>3. Part(<<a>>, {}, {bus})
      BY <3>1, OnePart DEF Bare
    <3>4. NoScreen(a) /\ NoRoot(a)
      BY <3>1 DEF NoScreen, NoRoot, Bare
    <3>5. Quiet(<<a>>)
      BY <3>1, <3>4, TuplesPlain DEF Quiet
    <3>6. Part(<<>>, {}, {bus}) /\ Quiet(<<>>)
      BY EmptyPart
    <3> QED BY <3>2, <3>3, <3>5, <3>6
  <2> QED BY <2>1
<1>2. Pointers(p) = s2 \/ Pointers(p) = <<>>
  BY DEF Pointers
<1>3. Bare(hub, "-device", "qemu-xhci", "usb", {}) /\ NoCard(hub)
  BY MadeDefining
<1> HIDE DEF hub
<1>4. Part(s0, {"usb"}, known)
  BY <1>3, OnePart DEF Bare
<1>5. NoScreen(hub) /\ NoRoot(hub)
  BY <1>3 DEF NoScreen, NoRoot, Bare
<1>6. Quiet(s0)
  BY <1>3, <1>5, TuplesPlain DEF Quiet
<1>7. bus \in Provided(s0)
  <2>1. One(s0, hub)
    BY OneIsList
  <2>2. bus \in Defines(hub)
    BY <1>3 DEF Defines, ClassOf, Bare
  <2> HIDE DEF s0
  <2> QED BY <2>1, <2>2 DEF One, Provided
<1> HIDE DEF s0
<1>8. Part(s1, {"usb"}, known) /\ Quiet(s1) /\ bus \in Provided(s1)
  <2> DEFINE t == Pointer(p, "usb_tablet")
  <2>1. Part(t, {}, known \cup Provided(s0))
    BY <1>1, <1>7 DEF Part, Served
  <2>2. Part(s1, {"usb"} \cup {}, known)
    BY <1>4, <2>1, Chaining
  <2>3. Quiet(s1)
    BY <1>1, <1>4, <1>6, Joined DEF Part
  <2>4. Placed(s0, t, s1)
    BY <1>1, <1>4, Placing DEF Part
  <2> HIDE DEF s1, t
  <2>5. bus \in Provided(s1)
    BY <1>7, <2>4 DEF Provided, Placed
  <2> QED BY <2>2, <2>3, <2>5
<1> HIDE DEF s1
<1>9. Part(s2, {"usb"}, known) /\ Quiet(s2)
  <2>1. Part(Pointer(p, "usb_mouse"), {}, known \cup Provided(s1))
    BY <1>1, <1>8 DEF Part, Served
  <2>2. Part(s2, {"usb"} \cup {}, known)
    BY <1>8, <2>1, Chaining
  <2>3. Quiet(s2)
    BY <1>1, <1>8, Joined DEF Part
  <2> QED BY <2>2, <2>3
<1>10. Part(<<>>, {"usb"}, known) /\ Quiet(<<>>)
  BY EmptyPart, Widened
<1> HIDE DEF s2
<1> QED BY <1>2, <1>9, <1>10

(* An adapter that replaces the one QEMU would add. *)
Pair(kind, id) == <<Arg("-vga", "none"), Defining("-device", kind, id, {})>>

(* An adapter replaces the standard one. *)
LEMMA PairPart ==
    ASSUME NEW kind, NEW id \in VideoIds, NEW known
    PROVE  LET s == Pair(kind, id)
           IN  /\ Part(s, {id}, known) /\ Cardless(s) /\ Rootless(s)
               /\ Unshown(s) /\ Portless(s) /\ Forged(s, id, kind)
<1> DEFINE v == Arg("-vga", "none")
           a == Defining("-device", kind, id, {})
           s == <<v, a>>
<1>1. Bare(v, "-vga", "none", "", {}) /\ NoCard(v)
  BY MadeArg
<1>2. Bare(a, "-device", kind, id, {}) /\ NoCard(a)
  BY MadeDefining
<1>3. Pair(kind, id) = s
  BY DEF Pair
<1> HIDE DEF v, a
<1>4. id # ""
  BY DEF VideoIds
<1>5. Part(s, {id}, known)
  BY <1>1, <1>2, <1>4, TwoPart DEF Bare
<1>6. NoRoot(a) /\ NoRoot(v)
  BY <1>1, <1>2 DEF NoRoot, Bare
<1>7. Cardless(s) /\ Rootless(s)
  BY <1>1, <1>2, <1>6, TuplesPlain
<1>8. Two(s, v, a)
  BY TwoIsList
<1> HIDE DEF s
<1>9. \A i \in DOMAIN s : (i = 1 /\ s[i] = v) \/ (i = 2 /\ s[i] = a)
  BY <1>8 DEF Two
<1>10. Unshown(s) /\ Portless(s)
  BY <1>1, <1>2, <1>9 DEF Unshown, HasOpt, Portless, Bare
<1>11. OneOpt(s, "-vga", v)
  <2>1. 1 \in DOMAIN s /\ s[1] = v
    BY <1>8 DEF Two
  <2>2. \A i \in DOMAIN s : s[i].opt = "-vga" => i = 1
    BY <1>2, <1>9 DEF Bare
  <2> QED BY <1>1, <2>1, <2>2 DEF OneOpt, Bare
<1>12. OneVideo(s, a)
  <2>1. 2 \in DOMAIN s /\ s[2] = a
    BY <1>8 DEF Two
  <2>2. \A i \in DOMAIN s : s[i].id \in VideoIds => i = 2
    BY <1>1, <1>9 DEF Bare, VideoIds
  <2> QED BY <1>2, <2>1, <2>2 DEF OneVideo, Bare
<1>13. Forged(s, id, kind)
  BY <1>1, <1>2, <1>11, <1>12 DEF Forged, Bare
<1> QED BY <1>3, <1>5, <1>7, <1>10, <1>13

(* One display of the given kind. *)
LEMMA DisplayPart ==
    ASSUME NEW kind, NEW known
    PROVE  LET s == <<Arg("-display", kind)>>
           IN  /\ Part(s, {}, known) /\ Cardless(s) /\ Rootless(s)
               /\ Shown(s, kind) /\ Portless(s) /\ Bareheaded(s)
<1> DEFINE a == Arg("-display", kind)
           s == <<a>>
<1>1. Bare(a, "-display", kind, "", {}) /\ NoCard(a)
  BY MadeArg
<1> HIDE DEF a
<1>2. Part(s, {}, known)
  BY <1>1, OnePart DEF Bare
<1>3. NoRoot(a)
  BY <1>1 DEF NoRoot, Bare
<1>4. Cardless(s) /\ Rootless(s)
  BY <1>1, <1>3, TuplesPlain
<1>5. One(s, a)
  BY OneIsList
<1> HIDE DEF s
<1>6. 1 \in DOMAIN s /\ s[1] = a /\ \A i \in DOMAIN s : i = 1 /\ s[i] = a
  BY <1>5 DEF One
<1>7. OneOpt(s, "-display", a)
  BY <1>1, <1>6 DEF OneOpt, Bare
<1>8. Shown(s, kind)
  BY <1>1, <1>7 DEF Shown, Bare
<1>9. Portless(s) /\ Bareheaded(s)
  BY <1>1, <1>6 DEF Portless, Bareheaded, HasOpt, HasVideo, VideoIds, Bare
<1> QED BY <1>2, <1>4, <1>8, <1>9 DEF s, a

(* The display of a console, and the adapter of a video model. *)
DisplayOf(p) == CASE p.console = "h264" -> "dbus-gl" [] p.console = "vnc" -> "vnc" [] OTHER -> "none"

DeviceVideo == GlVideo \cup {"virtio-vga"}

Options(p) ==
    Agent(p) \o Serial(p)
    \o (IF p.video = "virtio-vga" THEN Adapter("virtio-vga") ELSE <<>>)
    \o Pointers(p) \o Screen(p)
    \o (IF "vsock" \in p.with
        THEN <<Defining("-device", "vhost-vsock-pci", "machineemu-vsock", {})>> ELSE <<>>)

DeviceIds == {"qga0", "virtio-serial0", "uart0", "me-video", "usb", "machineemu-vsock"}

(* The adapter of a video model, or none. *)
Wears(s, p, models) == IF p.video \in models THEN Forged(s, "me-video", p.video) ELSE Bareheaded(s)

(* Two lists that wear the adapters of different models. *)
LEMMA WearsJoined ==
    ASSUME NEW s, NEW t, NEW p, NEW ms, NEW ns, IsList(s), IsList(t), Wears(s, p, ms), Wears(t, p, ns),
           ms \cap ns = {}
    PROVE  Wears(s \o t, p, ms \cup ns)
<1>1. CASE p.video \in ms
  BY <1>1, ShowsJoined DEF Wears
<1>2. CASE p.video \in ns
  BY <1>2, ShowsJoined DEF Wears
<1>3. CASE p.video \notin ms /\ p.video \notin ns
  BY <1>3, ShowsJoined DEF Wears
<1> QED BY <1>1, <1>2, <1>3

LEMMA RestJoined ==
    ASSUME NEW s, NEW t, IsList(s), IsList(t),
           Cardless(s), Rootless(s), Portless(s), Cardless(t), Rootless(t), Portless(t)
    PROVE  Cardless(s \o t) /\ Rootless(s \o t) /\ Portless(s \o t)
BY Joined, ShowsJoined

(* append_devices: a display for the console, an adapter for the model. *)
LEMMA DevicesPart ==
    ASSUME NEW p, NEW known, p.video \in GlVideo <=> p.console = "h264"
    PROVE  LET s == Options(p)
           IN  /\ Part(s, DeviceIds, known) /\ Cardless(s) /\ Rootless(s) /\ Portless(s)
               /\ Shown(s, DisplayOf(p))
               /\ Wears(s, p, DeviceVideo)
<1> DEFINE ag == Agent(p)
           se == Serial(p)
           ad == IF p.video = "virtio-vga" THEN Adapter("virtio-vga") ELSE <<>>
           po == Pointers(p)
           sc == Screen(p)
           vs == IF "vsock" \in p.with
                 THEN <<Defining("-device", "vhost-vsock-pci", "machineemu-vsock", {})>> ELSE <<>>
           s1 == ag \o se
           s2 == s1 \o ad
           s3 == s2 \o po
           s4 == s3 \o sc
           s5 == s4 \o vs
           Rest(s) == Cardless(s) /\ Rootless(s) /\ Portless(s)
           adIds == IF p.video = "virtio-vga" THEN {"me-video"} ELSE {}
           scIds == IF p.video \in GlVideo THEN {"me-video"} ELSE {}
<1>1. Options(p) = s5
  BY DEF Options
<1>2. Part(ag, {"qga0", "virtio-serial0"}, known) /\ Quiet(ag)
  BY AgentPart
<1>3. Part(se, {"uart0"}, known) /\ Quiet(se)
  BY SerialPart
<1>4. Part(po, {"usb"}, known) /\ Quiet(po)
  BY PointersPart
<1>5. Part(vs, {"machineemu-vsock"}, known) /\ Quiet(vs)
  <2> DEFINE a == Defining("-device", "vhost-vsock-pci", "machineemu-vsock", {})
  <2>1. Bare(a, "-device", "vhost-vsock-pci", "machineemu-vsock", {}) /\ NoCard(a)
    BY MadeDefining
  <2>2. vs = <<a>> \/ vs = <<>>
    OBVIOUS
  <2> HIDE DEF a, vs
  <2>3. Part(<<a>>, {"machineemu-vsock"}, known)
    BY <2>1, OnePart DEF Bare
  <2>4. NoScreen(a) /\ NoRoot(a)
    BY <2>1 DEF NoScreen, NoRoot, Bare
  <2>5. Quiet(<<a>>)
    BY <2>1, <2>4, TuplesPlain DEF Quiet
  <2>6. Part(<<>>, {"machineemu-vsock"}, known) /\ Quiet(<<>>)
    BY EmptyPart, Widened
  <2> QED BY <2>2, <2>3, <2>5, <2>6
<1>6. Part(ad, adIds, known) /\ Rest(ad) /\ Unshown(ad) /\ Wears(ad, p, {"virtio-vga"})
  <2>1. CASE p.video = "virtio-vga"
    <3>1. ad = Pair("virtio-vga", "me-video") /\ adIds = {"me-video"} /\ "me-video" \in VideoIds
      BY <2>1 DEF Adapter, Pair, VideoIds
    <3>2. /\ Part(ad, {"me-video"}, known) /\ Rest(ad) /\ Unshown(ad)
          /\ Forged(ad, "me-video", "virtio-vga")
      BY <3>1, PairPart
    <3> HIDE DEF ad, adIds
    <3> QED BY <2>1, <3>1, <3>2 DEF Wears
  <2>2. CASE p.video # "virtio-vga"
    <3>1. ad = <<>> /\ adIds = {}
      BY <2>2
    <3>2. Part(<<>>, {}, known) /\ Quiet(<<>>)
      BY EmptyPart
    <3> HIDE DEF ad, adIds
    <3>3. Rest(ad) /\ Unshown(ad) /\ Bareheaded(ad)
      BY <3>1, <3>2, ScreenlessShows DEF Quiet
    <3> QED BY <2>2, <3>1, <3>2, <3>3 DEF Wears
  <2> QED BY <2>1, <2>2
<1>7. Part(sc, scIds, known) /\ Rest(sc) /\ Shown(sc, DisplayOf(p)) /\ Wears(sc, p, GlVideo)
  <2> DEFINE show == <<Arg("-display", DisplayOf(p))>>
  <2>1. Part(show, {}, known) /\ Rest(show) /\ Bareheaded(show) /\ Shown(show, DisplayOf(p))
    BY DisplayPart
  <2>2. CASE p.video \in GlVideo
    <3> DEFINE pair == Pair(p.video, "me-video")
    <3>1. sc = pair \o show /\ scIds = {"me-video"} /\ "me-video" \in VideoIds
      BY <2>2 DEF Screen, DisplayOf, Adapter, Pair, VideoIds
    <3>2. /\ Part(pair, {"me-video"}, known) /\ Rest(pair) /\ Unshown(pair)
          /\ Forged(pair, "me-video", p.video)
      BY <3>1, PairPart
    <3> HIDE DEF pair, show, sc, scIds
    <3>3. Part(sc, {"me-video"} \cup {}, known)
      BY <2>1, <3>1, <3>2, Pairing
    <3>4. Rest(sc)
      BY <2>1, <3>1, <3>2, RestJoined DEF Part
    <3>5. Shown(sc, DisplayOf(p)) /\ Forged(sc, "me-video", p.video)
      BY <2>1, <3>1, <3>2, ShowsJoined DEF Part
    <3> QED BY <2>2, <3>1, <3>3, <3>4, <3>5 DEF Wears
  <2>3. CASE p.video \notin GlVideo
    <3>1. sc = show /\ scIds = {}
      BY <2>3 DEF Screen, DisplayOf
    <3> HIDE DEF show, sc, scIds
    <3> QED BY <2>1, <2>3, <3>1 DEF Wears
  <2> QED BY <2>2, <2>3
<1>8. adIds \cap scIds = {} /\ {"virtio-vga"} \cap GlVideo = {}
  BY DEF GlVideo
<1>9. adIds \cup scIds \subseteq {"me-video"}
  OBVIOUS
<1> HIDE DEF ag, se, ad, po, sc, vs, adIds, scIds
<1>10. Part(s1, {"qga0", "virtio-serial0"} \cup {"uart0"}, known) /\ Quiet(s1)
  BY <1>2, <1>3, Pairing, Joined DEF Part
<1> HIDE DEF s1
<1>11. /\ Rest(s1) /\ Unshown(s1) /\ Bareheaded(s1)
       /\ Rest(po) /\ Unshown(po) /\ Bareheaded(po)
       /\ Rest(vs) /\ Unshown(vs) /\ Bareheaded(vs)
  BY <1>4, <1>5, <1>10, ScreenlessShows DEF Quiet
<1>12. Wears(s1, p, {}) /\ Wears(po, p, {}) /\ Wears(vs, p, {})
  BY <1>11 DEF Wears
<1> DEFINE ids2 == {"qga0", "virtio-serial0", "uart0"} \cup adIds
           ids3 == ids2 \cup {"usb"}
           ids4 == ids3 \cup scIds
           ids5 == ids4 \cup {"machineemu-vsock"}
<1>13. Part(s2, ids2, known) /\ Rest(s2) /\ Unshown(s2) /\ Wears(s2, p, {"virtio-vga"})
  <2>1. ({"qga0", "virtio-serial0"} \cup {"uart0"}) \cap adIds = {}
    BY <1>9
  <2>2. Part(s2, {"qga0", "virtio-serial0"} \cup {"uart0"} \cup adIds, known)
    BY <1>6, <1>10, <2>1, Pairing
  <2>3. {"qga0", "virtio-serial0"} \cup {"uart0"} \cup adIds \subseteq ids2
    OBVIOUS
  <2>4. IsList(s1) /\ IsList(ad)
    BY <1>6, <1>10 DEF Part
  <2>5. Rest(s2) /\ Unshown(s2)
    BY <1>6, <1>11, <2>4, RestJoined, ShowsJoined
  <2>6. Wears(s2, p, {} \cup {"virtio-vga"})
    BY <1>6, <1>12, <2>4, WearsJoined
  <2>7. Part(s2, ids2, known)
    BY <2>2, <2>3, Widened
  <2> QED BY <2>5, <2>6, <2>7
<1> HIDE DEF s2
<1>14. Part(s3, ids3, known) /\ Rest(s3) /\ Unshown(s3) /\ Wears(s3, p, {"virtio-vga"})
  <2>1. ids2 \cap {"usb"} = {}
    BY <1>9
  <2>2. IsList(s2) /\ IsList(po)
    BY <1>4, <1>13 DEF Part
  <2>3. Part(s3, ids3, known)
    BY <1>4, <1>13, <2>1, Pairing
  <2>4. Rest(s3) /\ Unshown(s3)
    BY <1>11, <1>13, <2>2, RestJoined, ShowsJoined
  <2>5. Wears(s3, p, {"virtio-vga"} \cup {})
    BY <1>12, <1>13, <2>2, WearsJoined
  <2> QED BY <2>3, <2>4, <2>5
<1> HIDE DEF s3
<1>15. Part(s4, ids4, known) /\ Rest(s4) /\ Shown(s4, DisplayOf(p)) /\ Wears(s4, p, DeviceVideo)
  <2>1. ids3 \cap scIds = {}
    BY <1>8, <1>9
  <2>2. IsList(s3) /\ IsList(sc)
    BY <1>7, <1>14 DEF Part
  <2>3. Part(s4, ids4, known)
    BY <1>7, <1>14, <2>1, Pairing
  <2>4. Rest(s4)
    BY <1>7, <1>14, <2>2, RestJoined
  <2>5. Shown(s4, DisplayOf(p))
    BY <1>7, <1>14, <2>2, ShowsJoined
  <2>6. Wears(s4, p, {"virtio-vga"} \cup GlVideo)
    BY <1>7, <1>8, <1>14, <2>2, WearsJoined
  <2>7. {"virtio-vga"} \cup GlVideo = DeviceVideo
    BY DEF DeviceVideo
  <2> QED BY <2>3, <2>4, <2>5, <2>6, <2>7
<1> HIDE DEF s4
<1>16. Part(s5, ids5, known) /\ Rest(s5) /\ Shown(s5, DisplayOf(p)) /\ Wears(s5, p, DeviceVideo)
  <2>1. ids4 \cap {"machineemu-vsock"} = {}
    BY <1>9
  <2>2. IsList(s4) /\ IsList(vs)
    BY <1>5, <1>15 DEF Part
  <2>3. Part(s5, ids5, known)
    BY <1>5, <1>15, <2>1, Pairing
  <2>4. Rest(s5)
    BY <1>11, <1>15, <2>2, RestJoined
  <2>5. Shown(s5, DisplayOf(p))
    BY <1>11, <1>15, <2>2, ShowsJoined
  <2>6. Wears(s5, p, DeviceVideo \cup {})
    BY <1>12, <1>15, <2>2, WearsJoined
  <2> QED BY <2>3, <2>4, <2>5, <2>6
<1>17. ids5 \subseteq DeviceIds
  BY <1>9 DEF DeviceIds
<1> HIDE DEF s5, ids5
<1>18. Part(s5, DeviceIds, known)
  BY <1>16, <1>17, Widened
<1> QED BY <1>1, <1>16, <1>18

-----------------------------------------------------------------------------
(* Sound rewrites the display *)

LEMMA MinOfOne == ASSUME NEW k \in Nat PROVE Min({k}) = k
BY DEF Min

(* append_audio finds the one display there is. *)
LEMMA DisplayFound ==
    ASSUME NEW s, NEW a, IsList(s), OneOpt(s, "-display", a)
    PROVE  /\ DisplayAt(s) \in DOMAIN s /\ s[DisplayAt(s)] = a
           /\ \A i \in DOMAIN s : s[i].opt = "-display" => i = DisplayAt(s)
           /\ DisplayAt(s) # 0
<1>1. DOMAIN s = 1..Len(s) /\ Len(s) \in Nat
  BY Listed
<1> DEFINE I == {i \in 1..Len(s) : s[i].opt = "-display"}
<1>2. PICK k \in DOMAIN s : s[k] = a /\ \A i \in DOMAIN s : s[i].opt = "-display" => i = k
  BY DEF OneOpt
<1>3. I = {k}
  BY <1>1, <1>2 DEF OneOpt
<1>4. DisplayAt(s) = IF I # {} THEN Min(I) ELSE 0
  BY DEF DisplayAt, Where, SelectInSeq
<1> HIDE DEF I
<1>5. k \in Nat /\ k # 0
  BY <1>1, <1>2
<1>6. DisplayAt(s) = k
  BY <1>3, <1>4, <1>5, MinOfOne
<1> QED BY <1>2, <1>5, <1>6

(* Another list with the same cards, none of them a display. *)
CardsKept(s, u) ==
    /\ MacsOf(u) = MacsOf(s)
    /\ \A i \in MacsOf(s) : u[i].opt = s[i].opt /\ u[i].mac = s[i].mac /\ u[i].uses = s[i].uses

CardsApart(s) == \A i \in MacsOf(s) : s[i].opt # "-display"

(* Cards that are kept keep their addresses and their ports. *)
LEMMA KeptCards ==
    ASSUME NEW s, NEW u, CardsKept(s, u)
    PROVE  /\ \A mac : SoleCard(s, mac) => SoleCard(u, mac)
           /\ \A p, ports : Cabled(s, p, ports) => Cabled(u, p, ports)
           /\ CardsApart(s) => CardsApart(u)
BY DEF CardsKept, SoleCard, Cabled, CardsApart, OfPort

LEMMA CardsJoined ==
    ASSUME NEW s, NEW t, IsList(s), IsList(t), Cardless(t)
    PROVE  CardsKept(s, s \o t)
<1> DEFINE u == s \o t
<1>1. Placed(s, t, u)
  BY Placing
<1> HIDE DEF u
<1>2. \A i \in MacsOf(s) : i \in MacsOf(u) /\ u[i] = s[i]
  BY <1>1 DEF MacsOf, Placed
<1>3. \A k \in MacsOf(u) : k \in MacsOf(s)
  <2>1. MacsOf(t) = {}
    BY DEF MacsOf, Cardless, NoCard
  <2> QED BY <1>1, <2>1, MacsPlaced
<1>4. MacsOf(u) = MacsOf(s)
  BY <1>2, <1>3
<1> QED BY <1>2, <1>4 DEF CardsKept, u

LEMMA KeptTwice ==
    ASSUME NEW s, NEW t, NEW u, CardsKept(s, t), CardsKept(t, u)
    PROVE  CardsKept(s, u)
BY DEF CardsKept

Backend == <<"audiodev", "pc-audio">>

(* The display at a place plays sound. *)
Plays(b, a) == DOMAIN b = DOMAIN a /\ b.opt = a.opt /\ b.id = a.id /\ b.uses = {Backend}

(* The two rewritings of the display. *)
LEMMA PlaysGl == ASSUME NEW a, Formed(a) PROVE Plays([a EXCEPT !.uses = {Backend}], a)
BY DEF Formed, Plays

LEMMA PlaysDBus ==
    ASSUME NEW a, NEW kind, Formed(a)
    PROVE  Plays([a EXCEPT !.kind = kind, !.uses = {Backend}], a)
BY DEF Formed, Plays

(* A list with one argument replaced. *)
LEMMA SoundedList ==
    ASSUME NEW s, NEW at \in DOMAIN s, NEW b, IsList(s), Plays(b, s[at])
    PROVE  LET t == [s EXCEPT ![at] = b]
           IN  /\ IsList(t) /\ DOMAIN t = DOMAIN s
               /\ \A i \in DOMAIN s : i # at => t[i] = s[i]
               /\ t[at] = b
<1> DEFINE t == [s EXCEPT ![at] = b]
<1>2. t = [s EXCEPT ![at] = b]
  OBVIOUS
<1> HIDE DEF t
<1>3. PICK S : s \in Seq(S)
  BY DEF IsList
<1>4. s \in Seq(S \cup {b})
  BY <1>3, SeqMonotonic
<1>5. at \in 1..Len(s)
  BY Listed
<1>6. t \in Seq(S \cup {b})
  BY <1>2, <1>4, <1>5, ExceptSeq
<1>7. IsList(t)
  BY <1>6 DEF IsList
<1>8. DOMAIN t = DOMAIN s /\ t[at] = b /\ \A i \in DOMAIN s : i # at => t[i] = s[i]
  BY <1>2
<1> QED BY <1>7, <1>8 DEF t

(* The rewritten display names the backend; nothing else has changed. *)
LEMMA SoundedPart ==
    ASSUME NEW s, NEW at \in DOMAIN s, NEW b, NEW ids, NEW known, Part(s, ids, known),
           Plays(b, s[at]),
           s[at].opt = "-display", \A i \in DOMAIN s : s[i].opt = "-display" => i = at, CardsApart(s)
    PROVE  LET t == [s EXCEPT ![at] = b]
           IN  /\ Part(t, ids, known \cup {Backend})
               /\ CardsKept(s, t)
               /\ Rootless(s) => Rootless(t)
               /\ Portless(s) => Portless(t)
               /\ OneOpt(t, "-display", b)
               /\ \A p, models : Wears(s, p, models) => Wears(t, p, models)
<1> DEFINE t == [s EXCEPT ![at] = b]
<1>0. IsList(s)
  BY DEF Part
<1>1. /\ IsList(t) /\ DOMAIN t = DOMAIN s
      /\ \A i \in DOMAIN s : i # at => t[i] = s[i]
      /\ t[at] = b /\ DOMAIN b = DOMAIN s[at] /\ b.opt = s[at].opt /\ b.id = s[at].id
      /\ b.uses = {Backend}
  BY <1>0, SoundedList DEF Plays
<1> HIDE DEF t
<1>2. \A i \in DOMAIN s : t[i].opt = s[i].opt /\ t[i].id = s[i].id /\ DOMAIN t[i] = DOMAIN s[i]
  BY <1>1
<1>3. AllFormed(t) /\ Within(t, ids) /\ Unique(t)
  BY <1>1, <1>2 DEF Part, AllFormed, Formed, Within, Unique
<1>4. Served(t, known \cup {Backend})
  <2> SUFFICES ASSUME NEW i \in DOMAIN t, NEW named \in t[i].uses, named \notin known \cup {Backend}
               PROVE  \E j \in DOMAIN t : named \in Defines(t[j]) /\ (named[1] = "bus" => j < i)
    BY DEF Served
  <2>1. i # at /\ t[i] = s[i]
    BY <1>1
  <2>2. PICK j \in DOMAIN s : named \in Defines(s[j]) /\ (named[1] = "bus" => j < i)
    BY <1>1, <2>1 DEF Part, Served
  <2>3. Defines(t[j]) = Defines(s[j])
    BY <1>2 DEF Defines
  <2> QED BY <1>1, <2>2, <2>3
<1>5. CardsKept(s, t)
  <2>1. MacsOf(t) = MacsOf(s)
    BY <1>1, <1>2 DEF MacsOf, Has
  <2>2. \A i \in MacsOf(s) : i \in DOMAIN s /\ i # at
    BY DEF CardsApart, MacsOf
  <2> QED BY <1>1, <2>1, <2>2 DEF CardsKept
<1>6. Rootless(s) => Rootless(t)
  <2>1. NoRoot(t[at])
    BY <1>1 DEF NoRoot
  <2> QED BY <1>1, <2>1 DEF Rootless
<1>7. Portless(s) => Portless(t)
  BY <1>1, <1>2 DEF Portless, Has
<1>8. OneOpt(t, "-display", b)
  BY <1>1, <1>2 DEF OneOpt
<1>9. ~HasOpt(s, "-vga") => ~HasOpt(t, "-vga")
  BY <1>1, <1>2 DEF HasOpt
<1>10. ~HasVideo(s) => ~HasVideo(t)
  BY <1>1, <1>2 DEF HasVideo
<1>11. ASSUME NEW v, OneOpt(s, "-vga", v) PROVE OneOpt(t, "-vga", v)
  <2>1. PICK k \in DOMAIN s : s[k] = v /\ \A i \in DOMAIN s : s[i].opt = "-vga" => i = k
    BY <1>11 DEF OneOpt
  <2>2. k # at
    BY <1>11, <2>1 DEF OneOpt
  <2> QED BY <1>1, <1>2, <1>11, <2>1, <2>2 DEF OneOpt
<1>12. ASSUME NEW a, OneVideo(s, a), a.opt # "-display" PROVE OneVideo(t, a)
  <2>1. PICK k \in DOMAIN s : s[k] = a /\ \A i \in DOMAIN s : s[i].id \in VideoIds => i = k
    BY <1>12 DEF OneVideo
  <2>2. k # at
    BY <1>12, <2>1
  <2> QED BY <1>1, <1>2, <1>12, <2>1, <2>2 DEF OneVideo
<1>13. Bareheaded(s) => Bareheaded(t)
  BY <1>9, <1>10 DEF Bareheaded
<1>14. \A id, k : Forged(s, id, k) => Forged(t, id, k)
  BY <1>11, <1>12 DEF Forged
<1>15. \A p, models : Wears(s, p, models) => Wears(t, p, models)
  BY <1>13, <1>14 DEF Wears
<1>16. Part(t, ids, known \cup {Backend})
  BY <1>1, <1>3, <1>4 DEF Part
<1> QED BY <1>1, <1>5, <1>6, <1>7, <1>8, <1>15, <1>16 DEF t

AudioIds == {"pc-audio", "pc-sound"}

(* The sound card, with the backend the display names. *)
LEMMA SoundCardPart ==
    ASSUME NEW backend, NEW known
    PROVE  LET s == SoundCard(backend)
           IN  Part(s, AudioIds, known) /\ Quiet(s) /\ Backend \in Provided(s)
<1> DEFINE a == Defining("-audiodev", backend, "pc-audio", {})
           b == Defining("-device", "ich9-intel-hda", "pc-sound", {})
           c == Using("-device", "hda-duplex", {<<"audiodev", "pc-audio">>, <<"bus", "pc-sound">>})
           s == <<a, b, c>>
<1>1. Bare(a, "-audiodev", backend, "pc-audio", {}) /\ NoCard(a)
  BY MadeDefining
<1>2. Bare(b, "-device", "ich9-intel-hda", "pc-sound", {}) /\ NoCard(b)
  BY MadeDefining
<1>3. /\ Bare(c, "-device", "hda-duplex", "", {<<"audiodev", "pc-audio">>, <<"bus", "pc-sound">>})
      /\ NoCard(c)
  BY MadeUsing
<1>4. SoundCard(backend) = s
  BY DEF SoundCard
<1> HIDE DEF a, b, c
<1>5. Defines(a) = {<<"audiodev", "pc-audio">>} /\ Defines(b) = {<<"bus", "pc-sound">>}
  BY <1>1, <1>2 DEF Defines, ClassOf, Bare
<1>6. Part(s, AudioIds, known)
  BY <1>1, <1>2, <1>3, <1>5, ThreePart DEF Bare, AudioIds
<1>7. NoScreen(a) /\ NoScreen(b) /\ NoScreen(c) /\ NoRoot(a) /\ NoRoot(b) /\ NoRoot(c)
  BY <1>1, <1>2, <1>3 DEF NoScreen, NoRoot, Bare
<1>8. Quiet(s)
  BY <1>1, <1>2, <1>3, <1>7, TuplesPlain DEF Quiet
<1>9. Three(s, a, b, c)
  BY ThreeIsList
<1> HIDE DEF s
<1>10. 1 \in DOMAIN s /\ s[1] = a
  BY <1>9 DEF Three
<1>11. Backend \in Provided(s)
  BY <1>5, <1>10 DEF Provided, Backend
<1> QED BY <1>4, <1>6, <1>8, <1>11

(* A list that defines the backend needs nobody else to. *)
LEMMA SelfServed ==
    ASSUME NEW s, NEW ids, NEW known, Part(s, ids, known \cup {Backend}), Backend \in Provided(s)
    PROVE  Part(s, ids, known)
<1>1. PICK j \in DOMAIN s : Backend \in Defines(s[j])
  BY DEF Provided
<1>2. Backend[1] # "bus"
  BY DEF Backend
<1>3. Served(s, known)
  BY <1>1, <1>2 DEF Served, Part
<1> QED BY <1>3 DEF Part

(* What sound adds behind a list and leaves of it. *)
Behaves(s, u, p) ==
    /\ CardsKept(s, u)
    /\ Rootless(s) => Rootless(u)
    /\ Portless(s) => Portless(u)
    /\ \A models : Wears(s, p, models) => Wears(u, p, models)

(* Options without screen and card leave the rest as it is. *)
LEMMA QuietBehaves ==
    ASSUME NEW s, NEW t, NEW p, IsList(s), IsList(t), Quiet(t)
    PROVE  Behaves(s, s \o t, p) /\ \A a : OneOpt(s, "-display", a) => OneOpt(s \o t, "-display", a)
<1> DEFINE u == s \o t
<1>1. Placed(s, t, u)
  BY Placing
<1>2. Unshown(t) /\ Bareheaded(t) /\ Portless(t)
  BY ScreenlessShows DEF Quiet
<1>3. CardsKept(s, u)
  BY CardsJoined DEF Quiet
<1>4. Rootless(s) => Rootless(u)
  BY Joined DEF Quiet
<1>5. Portless(s) => Portless(u)
  BY <1>2, ShowsJoined
<1>6. ASSUME NEW models, Wears(s, p, models) PROVE Wears(u, p, models)
  <2>1. Wears(t, p, {})
    BY <1>2 DEF Wears
  <2>2. Wears(u, p, models \cup {})
    BY <1>6, <2>1, WearsJoined
  <2> QED BY <2>2
<1>7. ASSUME NEW a, OneOpt(s, "-display", a) PROVE OneOpt(u, "-display", a)
  BY <1>1, <1>2, <1>7, OptJoined DEF Unshown
<1> HIDE DEF u
<1> QED BY <1>3, <1>4, <1>5, <1>6, <1>7 DEF Behaves, u

LEMMA BehavesTwice ==
    ASSUME NEW s, NEW t, NEW u, NEW p, Behaves(s, t, p), Behaves(t, u, p)
    PROVE  Behaves(s, u, p)
BY KeptTwice DEF Behaves

(* append_audio: the display that was chosen plays the sound. *)
LEMMA SoundPart ==
    ASSUME NEW s, NEW ids, NEW known, Part(s, ids, known), ids \cap AudioIds = {},
           CardsApart(s), Shown(s, DisplayOf(profile)), Sounding(s) # Refused
    PROVE  LET u == Sounding(s)
           IN  /\ Part(u, ids \cup AudioIds, known)
               /\ Behaves(s, u, profile)
               /\ \E a : /\ OneOpt(u, "-display", a)
                         /\ profile.console = "h264" => a.kind = "dbus-gl"
                         /\ profile.audio = "dbus" => Backend \in a.uses
<1> DEFINE u == Sounding(s)
           at == DisplayAt(s)
<1>0. IsList(s) /\ AllFormed(s)
  BY DEF Part
<1>1. PICK d : OneOpt(s, "-display", d) /\ d.kind = DisplayOf(profile)
  BY DEF Shown
<1>2. /\ at \in DOMAIN s /\ s[at] = d
      /\ \A i \in DOMAIN s : s[i].opt = "-display" => i = at
  BY <1>0, <1>1, DisplayFound
<1>3. profile.console = "h264" => d.kind = "dbus-gl"
  BY <1>1 DEF DisplayOf
<1>4. CASE profile.audio = "none"
  <2>1. u = s
    BY <1>4 DEF Sounding
  <2>2. Part(s, ids \cup AudioIds, known)
    BY Widened
  <2>3. Behaves(s, s, profile)
    BY DEF Behaves, CardsKept
  <2> HIDE DEF u
  <2>4. Part(u, ids \cup AudioIds, known) /\ Behaves(s, u, profile) /\ OneOpt(u, "-display", d)
    BY <1>1, <2>1, <2>2, <2>3
  <2>5. profile.audio # "dbus"
    BY <1>4
  <2> QED BY <1>3, <2>4, <2>5 DEF u
<1>5. CASE profile.audio = "spice"
  <2> DEFINE a == <<Arg("-spice", "unix")>>
             c == SoundCard("spice")
             t == s \o a
  <2>1. u = t \o c
    BY <1>5 DEF Sounding
  <2>2. Part(a, {}, known) /\ Quiet(a)
    BY ArgPart
  <2>3. Part(c, AudioIds, known) /\ Quiet(c)
    BY SoundCardPart
  <2> HIDE DEF u, a, c
  <2>4. Part(t, ids \cup {}, known)
    BY <2>2, Pairing
  <2>5. Behaves(s, t, profile) /\ OneOpt(t, "-display", d)
    BY <1>0, <1>1, <2>2, QuietBehaves DEF Part
  <2> HIDE DEF t
  <2>6. Part(u, ids \cup {} \cup AudioIds, known)
    BY <2>1, <2>3, <2>4, Pairing
  <2>7. Behaves(t, u, profile) /\ OneOpt(u, "-display", d)
    BY <2>1, <2>3, <2>4, <2>5, QuietBehaves DEF Part
  <2>8. Behaves(s, u, profile)
    BY <2>5, <2>7, BehavesTwice
  <2>9. profile.audio # "dbus"
    BY <1>5
  <2> QED BY <1>3, <2>6, <2>7, <2>8, <2>9 DEF u
<1>6. CASE profile.audio = "dbus"
  <2> DEFINE gl == d.kind = "dbus-gl"
             b == IF gl THEN [d EXCEPT !.uses = {Backend}]
                  ELSE [d EXCEPT !.kind = "dbus", !.uses = {Backend}]
             t == [s EXCEPT ![at] = b]
             v == IF ~gl /\ profile.console = "vnc" THEN <<Arg("-vnc", "unix")>> ELSE <<>>
             c == SoundCard("dbus")
             w == t \o v
  <2>1. Formed(d)
    BY <1>0, <1>2 DEF AllFormed
  <2>2. Plays(b, s[at])
    BY <1>2, <2>1, PlaysGl, PlaysDBus
  <2>3. gl => b.kind = "dbus-gl"
    BY <2>1 DEF Formed
  <2>4. b.uses = {Backend}
    BY <2>2 DEF Plays
  <2>5. WithSound(s, at) = w
    <3>1. CASE gl
      <4>1. WithSound(s, at) = t
        BY <1>2, <3>1 DEF WithSound, Backend
      <4>2. v = <<>>
        BY <3>1
      <4>3. IsList(t)
        BY <1>0, <1>2, <2>2, SoundedList
      <4> HIDE DEF t, v
      <4>4. t \o <<>> = t
        BY <4>3, ConcatEmptySeq DEF IsList
      <4> QED BY <4>1, <4>2, <4>4
    <3>2. CASE ~gl /\ profile.console = "vnc"
      BY <1>2, <3>2 DEF WithSound, Backend
    <3>3. CASE ~gl /\ profile.console # "vnc"
      BY <1>2, <3>3 DEF WithSound, Backend
    <3> QED BY <3>1, <3>2, <3>3
  <2>6. u = w \o c
    BY <1>2, <1>6, <2>5 DEF Sounding
  <2>7. Part(v, {}, known \cup {Backend}) /\ Quiet(v)
    BY ArgPart, EmptyPart
  <2>8. Part(c, AudioIds, known \cup {Backend}) /\ Quiet(c) /\ Backend \in Provided(c)
    BY SoundCardPart
  <2>9. /\ Part(t, ids, known \cup {Backend})
        /\ Behaves(s, t, profile)
        /\ OneOpt(t, "-display", b)
    <3>1. s[at].opt = "-display"
      BY <1>1, <1>2 DEF OneOpt
    <3> HIDE DEF b, at
    <3>2. /\ Part(t, ids, known \cup {Backend}) /\ CardsKept(s, t)
          /\ Rootless(s) => Rootless(t)
          /\ Portless(s) => Portless(t)
          /\ OneOpt(t, "-display", b)
          /\ \A p, models : Wears(s, p, models) => Wears(t, p, models)
      BY <1>2, <2>2, <3>1, SoundedPart
    <3> HIDE DEF t
    <3> QED BY <3>2 DEF Behaves
  <2> HIDE DEF u, t, v, c, b
  <2>10. Part(w, ids \cup {}, known \cup {Backend})
    BY <2>7, <2>9, Pairing
  <2>11. Behaves(t, w, profile) /\ OneOpt(w, "-display", b)
    BY <2>7, <2>9, QuietBehaves DEF Part
  <2> HIDE DEF w
  <2>12. Part(u, ids \cup {} \cup AudioIds, known \cup {Backend})
    BY <2>6, <2>8, <2>10, Pairing
  <2>13. Behaves(w, u, profile) /\ OneOpt(u, "-display", b)
    BY <2>6, <2>8, <2>10, <2>11, QuietBehaves DEF Part
  <2>14. Behaves(s, u, profile)
    BY <2>9, <2>11, <2>13, BehavesTwice
  <2>15. Backend \in Provided(u)
    <3>1. Placed(w, c, u)
      BY <2>6, <2>8, <2>10, Placing DEF Part
    <3> QED BY <2>8, <3>1 DEF Provided, Placed
  <2>16. Part(u, ids \cup AudioIds, known)
    BY <2>12, <2>15, SelfServed
  <2>17. profile.console = "h264" => b.kind = "dbus-gl"
    BY <1>3, <2>3
  <2> QED BY <2>4, <2>13, <2>14, <2>16, <2>17 DEF u
<1>7. \/ profile.audio = "none" \/ profile.audio = "spice" \/ profile.audio = "dbus"
  BY DEF Sounding
<1> QED BY <1>4, <1>5, <1>6, <1>7

-----------------------------------------------------------------------------
(* The adapter of an analysis profile, and the devices of a board *)

Plain(s) == ~HasVideo(s) /\ \E v : OneOpt(s, "-vga", v) /\ v.kind # "none"

(* At most one adapter, and the one of a model that brings its own. *)
Dressed(s, p) ==
    \/ p.video \notin DeviceVideo /\ (Bareheaded(s) \/ Plain(s))
    \/ \E id, kind :
         /\ id \in VideoIds /\ Forged(s, id, kind)
         /\ p.video \in DeviceVideo => id = "me-video" /\ kind = p.video

(* Options without an adapter do not add one. *)
LEMMA DressedJoined ==
    ASSUME NEW s, NEW t, NEW p, IsList(s), IsList(t), Dressed(s, p), Bareheaded(t)
    PROVE  Dressed(s \o t, p)
<1> DEFINE u == s \o t
<1>1. Placed(s, t, u)
  BY Placing
<1>2. /\ Bareheaded(s) => Bareheaded(u)
      /\ \A id, kind : Forged(s, id, kind) => Forged(u, id, kind)
  BY ShowsJoined
<1> HIDE DEF u
<1>3. Plain(s) => Plain(u)
  BY <1>1, OptJoined, VideoJoined DEF Plain, Bareheaded
<1> QED BY <1>2, <1>3 DEF Dressed, u

(* The standard adapter. *)
LEMMA StandardPart ==
    ASSUME NEW known
    PROVE  LET s == <<Arg("-vga", "std")>>
           IN  Part(s, {}, known) /\ Cardless(s) /\ Rootless(s) /\ Unshown(s) /\ Portless(s) /\ Plain(s)
<1> DEFINE a == Arg("-vga", "std")
           s == <<a>>
<1>1. Bare(a, "-vga", "std", "", {}) /\ NoCard(a)
  BY MadeArg
<1> HIDE DEF a
<1>2. Part(s, {}, known)
  BY <1>1, OnePart DEF Bare
<1>3. NoRoot(a)
  BY <1>1 DEF NoRoot, Bare
<1>4. Cardless(s) /\ Rootless(s)
  BY <1>1, <1>3, TuplesPlain
<1>5. One(s, a)
  BY OneIsList
<1> HIDE DEF s
<1>6. 1 \in DOMAIN s /\ s[1] = a /\ \A i \in DOMAIN s : i = 1 /\ s[i] = a
  BY <1>5 DEF One
<1>7. OneOpt(s, "-vga", a) /\ ~HasVideo(s)
  BY <1>1, <1>6 DEF OneOpt, Bare, HasVideo, VideoIds
<1>8. Plain(s)
  BY <1>1, <1>7 DEF Plain, Bare
<1>9. Unshown(s) /\ Portless(s)
  BY <1>1, <1>6 DEF Unshown, HasOpt, Portless, Bare
<1> QED BY <1>2, <1>4, <1>8, <1>9 DEF s, a

(* append_analysis_video forges an adapter only where there is none. *)
LEMMA VideoPart ==
    ASSUME NEW p, NEW s, NEW known, IsList(s), Wears(s, p, DeviceVideo)
    PROVE  LET t == AnalysisVideo(p)
           IN  /\ Part(t, {"pc-video"}, known) /\ Cardless(t) /\ Rootless(t)
               /\ Unshown(t) /\ Portless(t)
               /\ Dressed(s \o t, p)
<1> DEFINE t == AnalysisVideo(p)
           pair == Pair("VGA", "pc-video")
           std == <<Arg("-vga", "std")>>
           Adds(v) == /\ Part(v, {"pc-video"}, known) /\ Cardless(v) /\ Rootless(v)
                      /\ Unshown(v) /\ Portless(v)
<1>1. \/ t = pair /\ p.video \in {"", "vga"}
      \/ t = std /\ p.video = "vga"
      \/ t = <<>>
  BY DEF AnalysisVideo, Pair
<1>2. p.video \in {"", "vga"} => p.video \notin DeviceVideo
  BY DEF DeviceVideo, GlVideo
<1> HIDE DEF t
<1>3. CASE t = pair /\ p.video \in {"", "vga"}
  <2>1. "pc-video" \in VideoIds
    BY DEF VideoIds
  <2>2. Adds(pair) /\ Forged(pair, "pc-video", "VGA")
    BY <2>1, PairPart
  <2> HIDE DEF pair
  <2>3. Bareheaded(s)
    BY <1>2, <1>3 DEF Wears
  <2>4. Forged(s \o pair, "pc-video", "VGA")
    BY <2>2, <2>3, ShowsJoined DEF Part
  <2>5. Dressed(s \o pair, p)
    BY <1>2, <1>3, <2>1, <2>4 DEF Dressed
  <2> QED BY <1>3, <2>2, <2>5 DEF t
<1>4. CASE t = std /\ p.video = "vga"
  <2>1. Adds(std) /\ Plain(std)
    BY StandardPart, Widened
  <2> HIDE DEF std
  <2>2. Bareheaded(s)
    BY <1>2, <1>4 DEF Wears
  <2>3. Placed(s, std, s \o std)
    BY <2>1, Placing DEF Part
  <2>4. Plain(s \o std)
    BY <2>1, <2>2, <2>3, OptJoined, VideoJoined DEF Plain, Bareheaded
  <2>5. Dressed(s \o std, p)
    BY <1>2, <1>4, <2>4 DEF Dressed
  <2> QED BY <1>4, <2>1, <2>5 DEF t
<1>5. CASE t = <<>>
  <2>1. Part(<<>>, {"pc-video"}, known) /\ Quiet(<<>>)
    BY EmptyPart, Widened
  <2>2. Adds(<<>>)
    BY <2>1, ScreenlessShows DEF Quiet
  <2>3. s \o <<>> = s
    BY ConcatEmptySeq DEF IsList
  <2>4. Dressed(s, p)
    BY DEF Wears, Dressed, VideoIds
  <2> QED BY <1>5, <2>2, <2>3, <2>4 DEF t
<1> QED BY <1>1, <1>3, <1>4, <1>5 DEF t

LcdIds == {"udm-usb", "lcm-events", "lcm-input"}

(* The LCD: a controller on the external bus, two sockets, the device. *)
LEMMA LcdPart ==
    ASSUME NEW p, NEW known, <<"bus", "pcie-external">> \in known
    PROVE  Part(Lcd(p), LcdIds, known) /\ Quiet(Lcd(p))
<1> DEFINE a == Defining("-device", "qemu-xhci", "udm-usb", {<<"bus", "pcie-external">>})
           b == Defining("-chardev", "socket", "lcm-events", {})
           c == Defining("-chardev", "socket", "lcm-input", {})
           d == Using("-device", "unifi-lcm",
                      {<<"bus", "udm-usb">>, <<"chardev", "lcm-events">>, <<"chardev", "lcm-input">>})
           s == <<a, b>>
           t == <<c, d>>
           u == s \o t
<1>1. Bare(a, "-device", "qemu-xhci", "udm-usb", {<<"bus", "pcie-external">>}) /\ NoCard(a)
  BY MadeDefining
<1>2. Bare(b, "-chardev", "socket", "lcm-events", {}) /\ NoCard(b)
  BY MadeDefining
<1>3. Bare(c, "-chardev", "socket", "lcm-input", {}) /\ NoCard(c)
  BY MadeDefining
<1>4. /\ Bare(d, "-device", "unifi-lcm", "",
              {<<"bus", "udm-usb">>, <<"chardev", "lcm-events">>, <<"chardev", "lcm-input">>})
      /\ NoCard(d)
  BY MadeUsing
<1>5. Lcd(p) = <<a, b, c, d>> \/ Lcd(p) = <<>>
  BY DEF Lcd
<1> HIDE DEF a, b, c, d
<1>6. <<a, b, c, d>> = u
  OBVIOUS
<1>7. /\ Defines(a) = {<<"bus", "udm-usb">>} /\ Defines(b) = {<<"chardev", "lcm-events">>}
      /\ Defines(c) = {<<"chardev", "lcm-input">>}
  BY <1>1, <1>2, <1>3 DEF Defines, ClassOf, Bare
<1>8. Part(s, {"udm-usb", "lcm-events"}, known)
  BY <1>1, <1>2, TwoPart DEF Bare
<1>9. {<<"bus", "udm-usb">>, <<"chardev", "lcm-events">>} \subseteq Provided(s)
  <2>1. Two(s, a, b)
    BY TwoIsList
  <2> HIDE DEF s
  <2>2. 1 \in DOMAIN s /\ s[1] = a /\ 2 \in DOMAIN s /\ s[2] = b
    BY <2>1 DEF Two
  <2> QED BY <1>7, <2>2 DEF Provided
<1>10. Part(t, {"lcm-input"}, known \cup Provided(s))
  BY <1>3, <1>4, <1>7, <1>9, TwoPart DEF Bare
<1>11. NoScreen(a) /\ NoScreen(b) /\ NoScreen(c) /\ NoScreen(d)
  BY <1>1, <1>2, <1>3, <1>4 DEF NoScreen, Bare
<1>12. NoRoot(a) /\ NoRoot(b) /\ NoRoot(c) /\ NoRoot(d)
  BY <1>1, <1>2, <1>3, <1>4 DEF NoRoot, Bare
<1>13. Quiet(s) /\ Quiet(t)
  BY <1>1, <1>2, <1>3, <1>4, <1>11, <1>12, TuplesPlain DEF Quiet
<1> HIDE DEF s, t
<1>14. Part(u, {"udm-usb", "lcm-events"} \cup {"lcm-input"}, known)
  BY <1>8, <1>10, Chaining
<1>15. Quiet(u)
  BY <1>8, <1>10, <1>13, Joined DEF Part
<1> HIDE DEF u
<1>16. Part(u, LcdIds, known)
  BY <1>14, Widened DEF LcdIds
<1>17. Part(<<>>, LcdIds, known) /\ Quiet(<<>>)
  BY EmptyPart, Widened
<1> QED BY <1>5, <1>6, <1>15, <1>16, <1>17

BoardIds == LcdIds \cup {"btuart", "frontpanel-events"}

BoardOptions(p) ==
    CASE p.machine = "udm-pro" -> UdmDevices(p)
      [] p.machine = "us24pro" ->
           <<Defining("-chardev", "socket", "frontpanel-events", {}),
             Using("-global", "frontpanel", {<<"chardev", "frontpanel-events">>})>>
      [] OTHER -> <<>>

(* The devices of the boards. *)
LEMMA BoardPart ==
    ASSUME NEW p, BoardOptions(p) # Refused
    PROVE  Part(BoardOptions(p), BoardIds, OnBoard(p.machine)) /\ Quiet(BoardOptions(p))
<1> DEFINE known == OnBoard(p.machine)
           Good(s) == Part(s, BoardIds, known) /\ Quiet(s)
<1>1. CASE p.machine = "udm-pro"
  <2> DEFINE s == Lcd(p)
             t == Bluetooth(p)
             u == s \o t
  <2>1. BoardOptions(p) = u
    BY <1>1 DEF BoardOptions, UdmDevices
  <2>2. <<"bus", "pcie-external">> \in known
    BY <1>1 DEF OnBoard
  <2>3. Part(s, LcdIds, known) /\ Quiet(s)
    BY <2>2, LcdPart
  <2>4. Part(t, {"btuart"}, known) /\ Quiet(t)
    <3> DEFINE uart == <<Defining("-chardev", "socket", "btuart", {}), Using("-serial", "chardev", {<<"chardev", "btuart">>})>>
    <3>1. t = uart \/ t = <<>>
      BY DEF Bluetooth
    <3>2. Part(uart, {"btuart"}, known) /\ Quiet(uart)
      BY UartPart
    <3>3. Part(<<>>, {"btuart"}, known) /\ Quiet(<<>>)
      BY EmptyPart, Widened
    <3> HIDE DEF uart, t
    <3> QED BY <3>1, <3>2, <3>3
  <2> HIDE DEF s, t
  <2>5. Part(u, LcdIds \cup {"btuart"}, known)
    BY <2>3, <2>4, Pairing DEF LcdIds
  <2>6. Quiet(u)
    BY <2>3, <2>4, Joined DEF Part
  <2> HIDE DEF u
  <2>7. Part(u, BoardIds, known)
    BY <2>5, Widened DEF BoardIds
  <2> QED BY <2>1, <2>6, <2>7
<1>2. CASE p.machine = "us24pro"
  <2> DEFINE a == Defining("-chardev", "socket", "frontpanel-events", {})
             b == Using("-global", "frontpanel", {<<"chardev", "frontpanel-events">>})
  <2>1. Bare(a, "-chardev", "socket", "frontpanel-events", {}) /\ NoCard(a)
    BY MadeDefining
  <2>2. Bare(b, "-global", "frontpanel", "", {<<"chardev", "frontpanel-events">>}) /\ NoCard(b)
    BY MadeUsing
  <2>3. BoardOptions(p) = <<a, b>>
    BY <1>2 DEF BoardOptions
  <2> HIDE DEF a, b
  <2>4. Defines(a) = {<<"chardev", "frontpanel-events">>}
    BY <2>1 DEF Defines, ClassOf, Bare
  <2>5. Part(<<a, b>>, BoardIds, known)
    BY <2>1, <2>2, <2>4, TwoPart DEF Bare, BoardIds
  <2>6. NoScreen(a) /\ NoScreen(b) /\ NoRoot(a) /\ NoRoot(b)
    BY <2>1, <2>2 DEF NoScreen, NoRoot, Bare
  <2>7. Quiet(<<a, b>>)
    BY <2>1, <2>2, <2>6, TuplesPlain DEF Quiet
  <2> QED BY <2>3, <2>5, <2>7
<1>3. CASE p.machine \notin {"udm-pro", "us24pro"}
  <2>1. BoardOptions(p) = <<>>
    BY <1>3 DEF BoardOptions
  <2> QED BY <2>1, EmptyPart, Widened
<1> QED BY <1>1, <1>2, <1>3

-----------------------------------------------------------------------------
(* The inductive invariant: what is written at each step *)

Carded(s, p) == CardsApart(s) /\ (SoleCard(s, Address(p)) \/ (Ported(p) /\ Cabled(s, p, 1..4)))

Rooted(s, p) == Rootless(s) \/ (Overlaid(p) /\ Available(p, p.storage.disk.component))

(* A command line so far: wired within the ids given, with the cards of the
   profile, and an overlay only of a component the image had. *)
Laid(s, ids, p) == Part(s, ids, OnBoard(p.machine)) /\ Carded(s, p) /\ Rooted(s, p)

(* The display there is serves the console and the sound of the profile. *)
Displays(s, p) ==
    \E a :
      /\ OneOpt(s, "-display", a)
      /\ p.console = "h264" => a.kind = "dbus-gl"
      /\ p.audio = "dbus" => Backend \in a.uses

OnePort(s, busy) ==
    \E k \in DOMAIN s : /\ Has(s[k], "port") /\ s[k].port \notin busy
                        /\ \A i \in DOMAIN s : Has(s[i], "port") => i = k

NetworkIds == MachineIds \cup {"net0"} \cup UdmPortIds
StoredIds == NetworkIds \cup StorageIds \cup UdmStorageIds
TpmIds == StoredIds \cup {"chrtpm", "tpm0"}
AttachedIds == TpmIds \cup DeviceIds
SoundIds == AttachedIds \cup AudioIds
AdapterIds == SoundIds \cup {"pc-video"}
AllIds == AdapterIds \cup BoardIds

Appending == {"network", "firmware", "boot", "storage", "tpm", "devices", "audio", "video", "board", "finish",
              "port", "started"}
Resolved == document # Refused /\ document = Resolve(request, request.image, request.engines)

BeforeNetwork == Laid(argv, MachineIds, profile) /\ Quiet(argv)
BeforeStorage == Laid(argv, NetworkIds, profile) /\ Screenless(argv) /\ Rootless(argv)
BeforeTpm == Laid(argv, StoredIds, profile) /\ Screenless(argv)
BeforeDevices == Laid(argv, TpmIds, profile) /\ Screenless(argv)
BeforeAudio ==
    /\ Laid(argv, AttachedIds, profile) /\ Portless(argv)
    /\ Shown(argv, DisplayOf(profile)) /\ Wears(argv, profile, DeviceVideo)
BeforeVideo ==
    /\ Laid(argv, SoundIds, profile) /\ Portless(argv)
    /\ Displays(argv, profile) /\ Wears(argv, profile, DeviceVideo)
BeforeBoard ==
    /\ Laid(argv, AdapterIds, profile) /\ Portless(argv)
    /\ Displays(argv, profile) /\ Dressed(argv, profile)
Complete == Laid(argv, AllIds, profile) /\ Displays(argv, profile) /\ Dressed(argv, profile)

PlanInv ==
    /\ request \in Requests
    /\ stage \in {"create", "created", "refused"} \cup Appending
    /\ stage = "create" => image = request.image /\ builds = request.engines
    /\ stage \notin {"create", "refused"} => Resolved
    /\ stage \in Appending => profile = Rendered(document) /\ SettingsValid(profile)
    /\ stage = "network" => BeforeNetwork
    /\ stage \in {"firmware", "boot", "storage"} => BeforeStorage
    /\ stage = "tpm" => BeforeTpm
    /\ stage = "devices" => BeforeDevices
    /\ stage = "audio" => BeforeAudio
    /\ stage = "video" => BeforeVideo
    /\ stage = "board" => BeforeBoard
    /\ stage \in {"finish", "port"} => Complete /\ Portless(argv)
    /\ stage \in {"audio", "video", "board", "finish", "port", "started"} =>
         (profile.console = "h264" => profile.video \in GlVideo)
    /\ stage \in {"port", "started"} => prepared = Preparation(profile)
    /\ stage = "started" =>
         Complete /\ (IF profile.console = "vnc" THEN OnePort(argv, request.busy) ELSE Portless(argv))

(* A part without cards is laid behind. *)
LEMMA LaidBehind ==
    ASSUME NEW s, NEW t, NEW p, NEW ids, NEW more,
           Laid(s, ids, p), Part(t, more, OnBoard(p.machine)), Cardless(t), Rooted(t, p), ids \cap more = {}
    PROVE  Laid(s \o t, ids \cup more, p)
<1>1. IsList(s) /\ IsList(t)
  BY DEF Laid, Part
<1>2. Part(s \o t, ids \cup more, OnBoard(p.machine))
  BY Pairing DEF Laid
<1>3. CardsKept(s, s \o t)
  BY <1>1, CardsJoined
<1>4. Carded(s \o t, p)
  BY <1>3, KeptCards DEF Laid, Carded
<1>5. Rooted(s \o t, p)
  BY <1>1, Joined DEF Laid, Rooted
<1> QED BY <1>2, <1>4, <1>5 DEF Laid

(* The cards are laid behind options that have none. *)
LEMMA CardsLaid ==
    ASSUME NEW s, NEW t, NEW p, NEW ids, NEW more,
           Part(s, ids, OnBoard(p.machine)), Quiet(s), ids \cap more = {},
           Part(t, more, OnBoard(p.machine)), Screenless(t), Rootless(t),
           SoleCard(t, Address(p)) \/ (Ported(p) /\ Cabled(t, p, 1..4))
    PROVE  /\ Laid(s \o t, ids \cup more, p)
           /\ Screenless(s \o t) /\ Rootless(s \o t)
<1> DEFINE u == s \o t
<1>1. IsList(s) /\ IsList(t)
  BY DEF Part
<1>2. Part(u, ids \cup more, OnBoard(p.machine))
  BY Pairing
<1>3. Screenless(u) /\ Rootless(u)
  BY <1>1, Joined DEF Quiet
<1>4. Placed(s, t, u) /\ Ordered(s, t)
  BY <1>1, Placing
<1>5. SoleCard(t, Address(p)) => SoleCard(u, Address(p))
  <2> HIDE DEF u
  <2>1. MacsOf(s) = {}
    BY DEF MacsOf, Quiet, Cardless, NoCard
  <2>2. \A k \in MacsOf(u) : \E i \in MacsOf(t) : k = Place(s, i) /\ u[k] = t[i]
    BY <1>4, <2>1, MacsPlaced
  <2> QED BY <2>2 DEF SoleCard
<1>6. Cabled(t, p, 1..4) => Cabled(u, p, 1..4)
  <2>1. Cabled(s, p, {})
    BY CardlessIsCabled DEF Quiet
  <2>2. Cabled(t, p, 1..4) => Cabled(u, p, {} \cup 1..4)
    BY <1>1, <2>1, Cabling
  <2>3. {} \cup 1..4 = 1..4
    OBVIOUS
  <2> QED BY <2>2, <2>3
<1> HIDE DEF u
<1>7. CardsApart(u)
  BY <1>3 DEF CardsApart, MacsOf, Screenless, NoScreen
<1> QED BY <1>2, <1>3, <1>5, <1>6, <1>7 DEF Laid, Carded, Rooted, u

(* Each step lays its part behind what stands before it. *)
LEMMA MachineLaid ==
    ASSUME NEW p
    PROVE  Laid(MachineOptions(p), MachineIds, p) /\ Quiet(MachineOptions(p))
<1> DEFINE s == MachineOptions(p)
<1>1. Part(s, MachineIds, OnBoard(p.machine)) /\ Quiet(s)
  BY MachinePart
<1> HIDE DEF s
<1>2. CardsApart(s) /\ SoleCard(s, Address(p)) /\ Rootless(s)
  BY <1>1, CardlessIsSole DEF Quiet, CardsApart, MacsOf, Screenless, NoScreen
<1> QED BY <1>1, <1>2 DEF Laid, Carded, Rooted, s

LEMMA NetworkLaid ==
    ASSUME NEW s, NEW p, Laid(s, MachineIds, p), Quiet(s),
           NEW t, t = IF p.machine = "udm-pro" THEN UdmNetwork(p) ELSE Network(p), t # Refused
    PROVE  Laid(s \o t, NetworkIds, p) /\ Screenless(s \o t) /\ Rootless(s \o t)
<1> DEFINE more == {"net0"} \cup UdmPortIds
<1>1. /\ Part(t, more, OnBoard(p.machine)) /\ Screenless(t) /\ Rootless(t)
      /\ SoleCard(t, Address(p)) \/ (Ported(p) /\ Cabled(t, p, 1..4))
  BY NetworkPart, UdmNetworkPart, Widened
<1>2. MachineIds \cap more = {}
  BY DEF MachineIds, UdmPortIds
<1>3. MachineIds \cup more = NetworkIds
  BY DEF NetworkIds
<1> HIDE DEF more
<1>4. Laid(s \o t, MachineIds \cup more, p) /\ Screenless(s \o t) /\ Rootless(s \o t)
  BY <1>1, <1>2, CardsLaid DEF Laid
<1> QED BY <1>3, <1>4

LEMMA StorageLaid ==
    ASSUME NEW s, NEW p, Laid(s, NetworkIds, p), Screenless(s),
           NEW t, t = IF p.machine = "udm-pro" THEN UdmStorage(p) ELSE Storage(p), t # Refused
    PROVE  Laid(s \o t, StoredIds, p) /\ Screenless(s \o t)
<1> DEFINE more == StorageIds \cup UdmStorageIds
<1>1. /\ Part(t, more, OnBoard(p.machine)) /\ Screenless(t) /\ Cardless(t)
      /\ Rooted(t, p)
  <2>1. CASE p.machine = "udm-pro"
    BY <2>1, UdmStoragePart, Widened DEF Quiet, Rooted
  <2>2. CASE p.machine # "udm-pro"
    BY <2>2, StoragePart, Widened DEF Rooted, Overlaid
  <2> QED BY <2>1, <2>2
<1>2. NetworkIds \cap more = {}
  BY DEF NetworkIds, MachineIds, UdmPortIds, StorageIds, UdmStorageIds
<1>3. NetworkIds \cup more = StoredIds
  BY DEF StoredIds
<1> HIDE DEF more
<1>4. Laid(s \o t, NetworkIds \cup more, p)
  BY <1>1, <1>2, LaidBehind
<1>5. Screenless(s \o t)
  BY <1>1, Joined DEF Laid, Part
<1> QED BY <1>3, <1>4, <1>5

(* Options without ids: firmware and direct boot. *)
LEMMA QuietLaid ==
    ASSUME NEW s, NEW p, NEW ids, NEW more, Laid(s, ids, p), ids \cap more = {},
           NEW t, Part(t, more, OnBoard(p.machine)), Quiet(t)
    PROVE  /\ Laid(s \o t, ids \cup more, p)
           /\ Screenless(s) => Screenless(s \o t)
           /\ Rootless(s) => Rootless(s \o t)
           /\ Portless(s) => Portless(s \o t)
           /\ Displays(s, p) => Displays(s \o t, p)
           /\ Dressed(s, p) => Dressed(s \o t, p)
<1>1. IsList(s) /\ IsList(t)
  BY DEF Laid, Part
<1>2. Laid(s \o t, ids \cup more, p)
  BY LaidBehind DEF Quiet, Rooted
<1>3. (Screenless(s) => Screenless(s \o t)) /\ (Rootless(s) => Rootless(s \o t))
  BY <1>1, Joined DEF Quiet
<1>4. Behaves(s, s \o t, p) /\ \A a : OneOpt(s, "-display", a) => OneOpt(s \o t, "-display", a)
  BY <1>1, QuietBehaves
<1>5. Displays(s, p) => Displays(s \o t, p)
  BY <1>4 DEF Displays
<1>6. Dressed(s, p) => Dressed(s \o t, p)
  BY <1>1, ScreenlessShows, DressedJoined DEF Quiet
<1> QED BY <1>2, <1>3, <1>4, <1>5, <1>6 DEF Behaves

LEMMA DevicesLaid ==
    ASSUME NEW s, NEW p, Laid(s, TpmIds, p), Screenless(s), p.video \in GlVideo <=> p.console = "h264"
    PROVE  LET u == s \o Options(p)
           IN  /\ Laid(u, AttachedIds, p) /\ Portless(u)
               /\ Shown(u, DisplayOf(p)) /\ Wears(u, p, DeviceVideo)
<1> DEFINE t == Options(p)
           u == s \o t
<1>1. /\ Part(t, DeviceIds, OnBoard(p.machine)) /\ Cardless(t) /\ Rootless(t) /\ Portless(t)
      /\ Shown(t, DisplayOf(p)) /\ Wears(t, p, DeviceVideo)
  BY DevicesPart
<1> HIDE DEF t
<1>2. TpmIds \cap DeviceIds = {} /\ TpmIds \cup DeviceIds = AttachedIds
  BY DEF TpmIds, StoredIds, NetworkIds, MachineIds, UdmPortIds, StorageIds, UdmStorageIds, DeviceIds, AttachedIds
<1>3. Laid(u, TpmIds \cup DeviceIds, p)
  BY <1>1, <1>2, LaidBehind DEF Rooted
<1>4. Unshown(s) /\ Bareheaded(s) /\ Portless(s)
  BY ScreenlessShows
<1>5. IsList(s) /\ IsList(t)
  BY <1>1 DEF Laid, Part
<1>6. Portless(u) /\ Shown(u, DisplayOf(p))
  BY <1>1, <1>4, <1>5, ShowsJoined
<1>7. Wears(u, p, DeviceVideo)
  <2>1. Wears(s, p, {})
    BY <1>4 DEF Wears
  <2>2. Wears(u, p, {} \cup DeviceVideo)
    BY <1>1, <1>5, <2>1, WearsJoined
  <2>3. {} \cup DeviceVideo = DeviceVideo
    OBVIOUS
  <2> QED BY <2>2, <2>3
<1> HIDE DEF u
<1>8. Laid(u, AttachedIds, p)
  BY <1>2, <1>3
<1> QED BY <1>6, <1>7, <1>8 DEF u, t

LEMMA SoundLaid ==
    ASSUME NEW s, Laid(s, AttachedIds, profile), Portless(s),
           Shown(s, DisplayOf(profile)), Wears(s, profile, DeviceVideo), Sounding(s) # Refused
    PROVE  LET u == Sounding(s)
           IN  /\ Laid(u, SoundIds, profile) /\ Portless(u)
               /\ Displays(u, profile) /\ Wears(u, profile, DeviceVideo)
<1> DEFINE u == Sounding(s)
<1>1. AttachedIds \cap AudioIds = {} /\ AttachedIds \cup AudioIds = SoundIds
  BY DEF TpmIds, StoredIds, NetworkIds, MachineIds, UdmPortIds, StorageIds, UdmStorageIds, DeviceIds, AttachedIds,
         AudioIds, SoundIds
<1>2. CardsApart(s) /\ Part(s, AttachedIds, OnBoard(profile.machine))
  BY DEF Laid, Carded
<1>3. /\ Part(u, AttachedIds \cup AudioIds, OnBoard(profile.machine))
      /\ Behaves(s, u, profile)
      /\ \E a : /\ OneOpt(u, "-display", a)
                /\ profile.console = "h264" => a.kind = "dbus-gl"
                /\ profile.audio = "dbus" => Backend \in a.uses
  BY <1>1, <1>2, SoundPart
<1> HIDE DEF u
<1>4. Carded(u, profile)
  BY <1>3, KeptCards DEF Behaves, Laid, Carded
<1>5. Rooted(u, profile)
  BY <1>3 DEF Behaves, Laid, Rooted
<1>6. Laid(u, SoundIds, profile)
  BY <1>1, <1>3, <1>4, <1>5 DEF Laid
<1>7. Portless(u) /\ Wears(u, profile, DeviceVideo)
  BY <1>3 DEF Behaves
<1>8. Displays(u, profile)
  BY <1>3 DEF Displays
<1> QED BY <1>6, <1>7, <1>8 DEF u

LEMMA VideoLaid ==
    ASSUME NEW s, NEW p, Laid(s, SoundIds, p), Portless(s), Displays(s, p), Wears(s, p, DeviceVideo)
    PROVE  LET u == s \o AnalysisVideo(p)
           IN  Laid(u, AdapterIds, p) /\ Portless(u) /\ Displays(u, p) /\ Dressed(u, p)
<1> DEFINE t == AnalysisVideo(p)
           u == s \o t
<1>0. IsList(s)
  BY DEF Laid, Part
<1>1. /\ Part(t, {"pc-video"}, OnBoard(p.machine)) /\ Cardless(t) /\ Rootless(t)
      /\ Unshown(t) /\ Portless(t)
      /\ Dressed(u, p)
  BY <1>0, VideoPart
<1> HIDE DEF t
<1>2. SoundIds \cap {"pc-video"} = {} /\ SoundIds \cup {"pc-video"} = AdapterIds
  BY DEF TpmIds, StoredIds, NetworkIds, MachineIds, UdmPortIds, StorageIds, UdmStorageIds, DeviceIds, AttachedIds,
         AudioIds, SoundIds, AdapterIds
<1>3. Laid(u, SoundIds \cup {"pc-video"}, p)
  BY <1>1, <1>2, LaidBehind DEF Rooted
<1>4. IsList(t)
  BY <1>1 DEF Part
<1>5. Portless(u)
  BY <1>0, <1>1, <1>4, ShowsJoined
<1>6. Placed(s, t, u)
  BY <1>0, <1>4, Placing
<1> HIDE DEF u
<1>7. Displays(u, p)
  BY <1>1, <1>6, OptJoined DEF Displays, Unshown
<1>8. Laid(u, AdapterIds, p)
  BY <1>2, <1>3
<1> QED BY <1>1, <1>5, <1>7, <1>8 DEF u, t

LEMMA BoardLaid ==
    ASSUME NEW s, NEW p, Laid(s, AdapterIds, p), Portless(s), Displays(s, p), Dressed(s, p),
           BoardOptions(p) # Refused
    PROVE  LET u == s \o BoardOptions(p)
           IN  Laid(u, AllIds, p) /\ Portless(u) /\ Displays(u, p) /\ Dressed(u, p)
<1> DEFINE t == BoardOptions(p)
<1>1. Part(t, BoardIds, OnBoard(p.machine)) /\ Quiet(t)
  BY BoardPart
<1> HIDE DEF t
<1>2. AdapterIds \cap BoardIds = {} /\ AdapterIds \cup BoardIds = AllIds
  BY DEF TpmIds, StoredIds, NetworkIds, MachineIds, UdmPortIds, StorageIds, UdmStorageIds, DeviceIds, AttachedIds,
         AudioIds, SoundIds, AdapterIds, BoardIds, LcdIds, AllIds
<1>3. Laid(s \o t, AdapterIds \cup BoardIds, p) /\ Portless(s \o t) /\ Displays(s \o t, p) /\ Dressed(s \o t, p)
  BY <1>1, <1>2, QuietLaid
<1> QED BY <1>2, <1>3 DEF t

-----------------------------------------------------------------------------
(* The port start picks *)

LEMMA Least ==
    ASSUME NEW T, T \subseteq Nat, T # {}
    PROVE  \E x \in T : \A y \in T : x <= y
<1> DEFINE R == OpToRel(<, Nat)
<1>1. IsWellFoundedOn(R, Nat)
  BY NatLessThanWellFounded
<1>2. R = {p \in Nat \X Nat : p[1] < p[2]}
  BY DEF OpToRel
<1> HIDE DEF R
<1>3. PICK x \in T : \A y \in T : ~(<<y, x>> \in R)
  BY <1>1, WFMin
<1>4. ASSUME NEW y \in T PROVE x <= y
  <2>1. ~(y < x)
    BY <1>2, <1>3
  <2> QED BY <2>1
<1> QED BY <1>4

LEMMA MinIsMember == ASSUME NEW T, T \subseteq Nat, T # {} PROVE Min(T) \in T
<1>1. \E x \in T : \A y \in T : x <= y
  BY Least
<1> QED BY <1>1 DEF Min

FreeAt(busy) == Where(Ports, LAMBDA port : port \notin busy)

(* The port that is found is free. *)
LEMMA FreeFound ==
    ASSUME NEW busy, FreeAt(busy) # 0
    PROVE  Ports[FreeAt(busy)] \notin busy
<1> DEFINE I == {i \in 1..Len(Ports) : Ports[i] \notin busy}
<1>1. FreeAt(busy) = IF I # {} THEN Min(I) ELSE 0
  BY DEF FreeAt, Where, SelectInSeq
<1>2. I \subseteq Nat
  BY PortsAssumption, LenProperties
<1>3. I # {} => Min(I) \in I
  <2> HIDE DEF I
  <2> QED BY <1>2, MinIsMember
<1>4. FreeAt(busy) \in I
  <2> HIDE DEF I
  <2> QED BY <1>1, <1>3
<1> QED BY <1>4

VncAt(s) == Where(s, LAMBDA a : a.opt = "-display" /\ a.kind = "vnc")

(* The VNC display that is found is the only display. *)
LEMMA VncFound ==
    ASSUME NEW s, NEW a, IsList(s), OneOpt(s, "-display", a), VncAt(s) # 0
    PROVE  VncAt(s) \in DOMAIN s /\ s[VncAt(s)] = a
<1>1. DOMAIN s = 1..Len(s) /\ Len(s) \in Nat
  BY Listed
<1> DEFINE I == {i \in 1..Len(s) : s[i].opt = "-display" /\ s[i].kind = "vnc"}
<1>2. PICK k \in DOMAIN s : s[k] = a /\ \A i \in DOMAIN s : s[i].opt = "-display" => i = k
  BY DEF OneOpt
<1>3. I \subseteq {k}
  BY <1>1, <1>2
<1>4. VncAt(s) = IF I # {} THEN Min(I) ELSE 0
  BY DEF VncAt, Where, SelectInSeq
<1> HIDE DEF I
<1>5. k \in Nat /\ k # 0
  BY <1>1, <1>2
<1>6. I = {k} /\ VncAt(s) = Min({k})
  BY <1>3, <1>4
<1>7. VncAt(s) = k
  BY <1>5, <1>6, MinOfOne
<1> QED BY <1>2, <1>7

(* The argument but for its port. *)
AsBefore(b, a) ==
    /\ Formed(b) /\ b.opt = a.opt /\ b.kind = a.kind /\ b.id = a.id /\ b.uses = a.uses
    /\ Has(b, "mac") <=> Has(a, "mac")
    /\ Has(a, "mac") => b.mac = a.mac

WithPort(a, port) == a ++ [port |-> port]

(* The port changes nothing else of the argument. *)
LEMMA PortAdded ==
    ASSUME NEW a, NEW port, Formed(a)
    PROVE  AsBefore(WithPort(a, port), a)
BY DEF WithPort, ++, AsBefore, Formed, Has

LEMMA PortCarried ==
    ASSUME NEW a, NEW port, ~Has(a, "port")
    PROVE  Has(WithPort(a, port), "port") /\ WithPort(a, port).port = port
BY DEF WithPort, ++, Has

Alike(s, u) == DOMAIN u = DOMAIN s /\ \A i \in DOMAIN s : AsBefore(u[i], s[i])

(* A line that differs by a port is as wired as before. *)
LEMMA AlikeLaid ==
    ASSUME NEW s, NEW u, NEW p, NEW ids, IsList(u), Alike(s, u), Laid(s, ids, p)
    PROVE  Laid(u, ids, p)
<1>1. DOMAIN u = DOMAIN s /\ \A i \in DOMAIN s : AsBefore(u[i], s[i])
  BY DEF Alike
<1>2. AllFormed(u)
  BY <1>1 DEF AllFormed, AsBefore
<1>3. \A i \in DOMAIN s : /\ u[i].opt = s[i].opt /\ u[i].kind = s[i].kind
                          /\ u[i].id = s[i].id /\ u[i].uses = s[i].uses
  BY <1>1 DEF AsBefore
<1>4. Within(u, ids) /\ Unique(u)
  BY <1>1, <1>3 DEF Laid, Part, Within, Unique
<1>5. Served(u, OnBoard(p.machine))
  <2>1. \A i \in DOMAIN s : Defines(u[i]) = Defines(s[i])
    BY <1>3 DEF Defines
  <2> QED BY <1>1, <1>3, <2>1 DEF Laid, Part, Served
<1>6. Part(u, ids, OnBoard(p.machine))
  BY <1>2, <1>4, <1>5 DEF Part
<1>7. CardsKept(s, u)
  <2>1. MacsOf(u) = MacsOf(s)
    BY <1>1 DEF MacsOf, AsBefore
  <2> QED BY <1>1, <2>1 DEF CardsKept, MacsOf, AsBefore
<1>8. Carded(u, p)
  BY <1>7, KeptCards DEF Laid, Carded
<1>9. Rooted(u, p)
  BY <1>1, <1>3 DEF Laid, Rooted, Rootless, NoRoot
<1> QED BY <1>6, <1>8, <1>9 DEF Laid

(* And it shows the same. *)
LEMMA AlikeShows ==
    ASSUME NEW s, NEW u, NEW p, Alike(s, u)
    PROVE  (Displays(s, p) => Displays(u, p)) /\ (Dressed(s, p) => Dressed(u, p))
<1>1. DOMAIN u = DOMAIN s /\ \A i \in DOMAIN s : AsBefore(u[i], s[i])
  BY DEF Alike
<1>2. \A i \in DOMAIN s : u[i].opt = s[i].opt /\ u[i].kind = s[i].kind /\ u[i].id = s[i].id /\ u[i].uses = s[i].uses
  BY <1>1 DEF AsBefore
<1>3. ASSUME NEW o, NEW a, OneOpt(s, o, a)
      PROVE  \E b : OneOpt(u, o, b) /\ b.kind = a.kind /\ b.uses = a.uses
  <2>1. PICK k \in DOMAIN s : s[k] = a /\ \A i \in DOMAIN s : s[i].opt = o => i = k
    BY <1>3 DEF OneOpt
  <2>2. OneOpt(u, o, u[k])
    BY <1>1, <1>2, <1>3, <2>1 DEF OneOpt
  <2> QED BY <1>2, <2>1, <2>2
<1>4. ASSUME NEW a, OneVideo(s, a)
      PROVE  \E b : OneVideo(u, b) /\ b.kind = a.kind /\ b.opt = a.opt /\ b.id = a.id
  <2>1. PICK k \in DOMAIN s : s[k] = a /\ \A i \in DOMAIN s : s[i].id \in VideoIds => i = k
    BY <1>4 DEF OneVideo
  <2>2. OneVideo(u, u[k])
    BY <1>1, <1>2, <1>4, <2>1 DEF OneVideo
  <2> QED BY <1>2, <2>1, <2>2
<1>5. (~HasOpt(s, "-vga") => ~HasOpt(u, "-vga")) /\ (~HasVideo(s) => ~HasVideo(u))
  BY <1>1, <1>2 DEF HasOpt, HasVideo
<1>6. Displays(s, p) => Displays(u, p)
  BY <1>3 DEF Displays
<1>7. Bareheaded(s) => Bareheaded(u)
  BY <1>5 DEF Bareheaded
<1>8. Plain(s) => Plain(u)
  BY <1>3, <1>5 DEF Plain
<1>9. \A id, kind : Forged(s, id, kind) => Forged(u, id, kind)
  BY <1>3, <1>4 DEF Forged
<1>10. Dressed(s, p) => Dressed(u, p)
  BY <1>7, <1>8, <1>9 DEF Dressed
<1> QED BY <1>6, <1>10

(* refresh_vnc_port: one argument gets a port, nothing else changes. *)
LEMMA PortLaid ==
    ASSUME NEW s, NEW p, NEW busy, Laid(s, AllIds, p), Portless(s), Displays(s, p), Dressed(s, p),
           VncAt(s) # 0, NEW port, port \notin busy
    PROVE  LET u == [s EXCEPT ![VncAt(s)] = @ ++ [port |-> port]]
           IN  Laid(u, AllIds, p) /\ Displays(u, p) /\ Dressed(u, p) /\ OnePort(u, busy)
<1> DEFINE at == VncAt(s)
           b == WithPort(s[at], port)
           u == [s EXCEPT ![at] = b]
<1>1. IsList(s) /\ AllFormed(s)
  BY DEF Laid, Part
<1>2. at \in DOMAIN s
  <2>1. PICK a : OneOpt(s, "-display", a)
    BY DEF Displays
  <2> QED BY <1>1, <2>1, VncFound
<1>3. u = [s EXCEPT ![VncAt(s)] = @ ++ [port |-> port]]
  BY DEF WithPort
<1> HIDE DEF at
<1>4. AsBefore(b, s[at])
  BY <1>1, <1>2, PortAdded DEF AllFormed
<1>5. Has(b, "port") /\ b.port = port
  BY <1>2, PortCarried DEF Portless
<1> HIDE DEF b
<1>6. /\ DOMAIN u = DOMAIN s /\ u[at] = b
      /\ \A i \in DOMAIN s : i # at => u[i] = s[i]
  BY <1>2
<1>7. IsList(u)
  <2>1. PICK S : s \in Seq(S)
    BY <1>1 DEF IsList
  <2>2. s \in Seq(S \cup {b})
    BY <2>1, SeqMonotonic
  <2>3. at \in 1..Len(s)
    BY <1>1, <1>2, Listed
  <2>4. u \in Seq(S \cup {b})
    BY <2>2, <2>3, ExceptSeq
  <2> QED BY <2>4 DEF IsList
<1> HIDE DEF u
<1>8. \A a : Formed(a) => AsBefore(a, a)
  BY DEF AsBefore
<1>9. Alike(s, u)
  BY <1>1, <1>4, <1>6, <1>8 DEF Alike, AllFormed
<1>10. Laid(u, AllIds, p)
  BY <1>7, <1>9, AlikeLaid
<1>11. Displays(u, p) /\ Dressed(u, p)
  BY <1>9, AlikeShows
<1>12. OnePort(u, busy)
  BY <1>2, <1>5, <1>6 DEF OnePort, Portless
<1> QED BY <1>3, <1>10, <1>11, <1>12 DEF u

-----------------------------------------------------------------------------
(* Every step keeps the invariant. *)

LEMMA InitPlanned == PlanInit => PlanInv
BY DEF PlanInit, PlanInv, Appending

(* A refusal needs nothing more. *)
LEMMA PlanRefused ==
    ASSUME PlanInv, stage' = "refused", request' = request
    PROVE  PlanInv'
BY DEF PlanInv, Appending

(* What the steps after the rendering leave alone. *)
LEMMA Carried ==
    ASSUME PlanInv, stage \in Appending, UNCHANGED <<request, image, builds, document, profile>>
    PROVE  request' \in Requests /\ Resolved' /\ (profile = Rendered(document))' /\ SettingsValid(profile)'
<1>1. request \in Requests /\ Resolved /\ profile = Rendered(document) /\ SettingsValid(profile)
  BY DEF PlanInv, Appending
<1> QED BY <1>1 DEF Resolved

(* A step of build_plan refuses or appends. *)
LEMMA Extended ==
    ASSUME NEW from, NEW to, NEW options, Extend(from, to, options)
    PROVE  /\ stage = from
           /\ UNCHANGED <<request, image, builds, document, profile, prepared>>
           /\ stage' = "refused" \/ (stage' = to /\ options # Refused /\ argv' = argv \o options)
BY DEF Extend

(* Every action keeps the invariant. *)
LEMMA CreateStep == ASSUME PlanInv, CreateInstance PROVE PlanInv'
<1>1. CASE stage' = "refused"
  BY <1>1, PlanRefused DEF CreateInstance
<1>2. CASE stage' # "refused"
  <2>1. stage = "create" /\ stage' = "created" /\ request' = request
    BY <1>2 DEF CreateInstance
  <2>2. image = request.image /\ builds = request.engines
    BY <2>1 DEF PlanInv
  <2>3. document' # Refused /\ document' = Resolve(request, image, builds)
    BY <1>2, <2>1 DEF CreateInstance
  <2>4. Resolved'
    BY <2>1, <2>2, <2>3 DEF Resolved
  <2> QED BY <2>1, <2>4 DEF PlanInv, Appending
<1> QED BY <1>1, <1>2

LEMMA RegistryStep == ASSUME PlanInv, ReregisterEngine \/ ReplaceImage PROVE PlanInv'
<1>1. stage = "created" /\ stage' = "created" /\ request' = request /\ document' = document
  BY DEF ReregisterEngine, ReplaceImage
<1>2. request \in Requests /\ Resolved
  BY <1>1 DEF PlanInv, Appending
<1>3. Resolved'
  BY <1>1, <1>2 DEF Resolved
<1> QED BY <1>1, <1>2, <1>3 DEF PlanInv, Appending

LEMMA RenderStep == ASSUME PlanInv, RenderPlan PROVE PlanInv'
<1>1. CASE stage' = "refused"
  BY <1>1, PlanRefused DEF RenderPlan
<1>2. CASE stage' # "refused"
  <2>1. /\ stage = "created" /\ stage' = "network" /\ request' = request /\ document' = document
        /\ profile' = Rendered(document) /\ SettingsValid(profile') /\ argv' = MachineOptions(profile')
    BY <1>2 DEF RenderPlan
  <2>2. request \in Requests /\ Resolved
    BY <2>1 DEF PlanInv, Appending
  <2>3. Resolved'
    BY <2>1, <2>2 DEF Resolved
  <2>4. BeforeNetwork'
    BY <2>1, MachineLaid DEF BeforeNetwork
  <2> QED BY <2>1, <2>2, <2>3, <2>4 DEF PlanInv, Appending
<1> QED BY <1>1, <1>2

LEMMA NetworkStep == ASSUME PlanInv, AppendNetwork PROVE PlanInv'
<1> DEFINE options == IF profile.machine = "udm-pro" THEN UdmNetwork(profile) ELSE Network(profile)
<1>1. /\ stage = "network"
      /\ UNCHANGED <<request, image, builds, document, profile, prepared>>
      /\ stage' = "refused" \/ (stage' = "firmware" /\ options # Refused /\ argv' = argv \o options)
  BY Extended DEF AppendNetwork
<1>2. CASE stage' = "refused"
  BY <1>1, <1>2, PlanRefused
<1>3. CASE stage' # "refused"
  <2>1. BeforeNetwork
    BY <1>1 DEF PlanInv
  <2>2. Laid(argv \o options, NetworkIds, profile) /\ Screenless(argv \o options) /\ Rootless(argv \o options)
    BY <1>1, <1>3, <2>1, NetworkLaid DEF BeforeNetwork
  <2> HIDE DEF options
  <2>3. BeforeStorage'
    BY <1>1, <1>3, <2>2 DEF BeforeStorage
  <2>4. request' \in Requests /\ Resolved' /\ (profile = Rendered(document))' /\ SettingsValid(profile)'
    BY <1>1, Carried DEF Appending
  <2> QED BY <1>1, <1>3, <2>3, <2>4 DEF PlanInv, Appending
<1> QED BY <1>2, <1>3

(* Options without ids leave what stands before the storage. *)
LEMMA StillBeforeStorage ==
    ASSUME BeforeStorage, NEW options, Part(options, {}, OnBoard(profile.machine)), Quiet(options),
           argv' = argv \o options, profile' = profile
    PROVE  BeforeStorage'
<1>1. /\ Laid(argv \o options, NetworkIds \cup {}, profile)
      /\ Screenless(argv \o options) /\ Rootless(argv \o options)
  BY QuietLaid DEF BeforeStorage
<1> QED BY <1>1 DEF BeforeStorage

LEMMA FirmwareStep == ASSUME PlanInv, AppendFirmware PROVE PlanInv'
<1> DEFINE options == IF Has(profile, "firmware") THEN FirmwareOptions ELSE <<>>
<1>1. /\ stage = "firmware"
      /\ UNCHANGED <<request, image, builds, document, profile, prepared>>
      /\ stage' = "refused" \/ (stage' = "boot" /\ argv' = argv \o options)
  <2>1. Extend("firmware", "boot", options)
    BY DEF AppendFirmware, FirmwareOptions
  <2> HIDE DEF options
  <2> QED BY <2>1, Extended
<1>2. CASE stage' = "refused"
  BY <1>1, <1>2, PlanRefused
<1>3. CASE stage' # "refused"
  <2>1. BeforeStorage
    BY <1>1 DEF PlanInv
  <2>2. Part(options, {}, OnBoard(profile.machine)) /\ Quiet(options)
    BY FirmwarePart, EmptyPart
  <2> HIDE DEF options
  <2>3. BeforeStorage'
    BY <1>1, <1>3, <2>1, <2>2, StillBeforeStorage
  <2>4. request' \in Requests /\ Resolved' /\ (profile = Rendered(document))' /\ SettingsValid(profile)'
    BY <1>1, Carried DEF Appending
  <2> QED BY <1>1, <1>3, <2>3, <2>4 DEF PlanInv, Appending
<1> QED BY <1>2, <1>3

LEMMA DirectBootStep == ASSUME PlanInv, AppendDirectBoot PROVE PlanInv'
<1>1. /\ stage = "boot"
      /\ UNCHANGED <<request, image, builds, document, profile, prepared>>
      /\ \/ stage' = "refused"
         \/ stage' = "storage" /\ DirectBoot(profile) # Refused /\ argv' = argv \o DirectBoot(profile)
  BY Extended DEF AppendDirectBoot
<1>2. CASE stage' = "refused"
  BY <1>1, <1>2, PlanRefused
<1>3. CASE stage' # "refused"
  <2>1. BeforeStorage
    BY <1>1 DEF PlanInv
  <2>2. Part(DirectBoot(profile), {}, OnBoard(profile.machine)) /\ Quiet(DirectBoot(profile))
    BY <1>1, <1>3, DirectBootPart
  <2>3. BeforeStorage'
    BY <1>1, <1>3, <2>1, <2>2, StillBeforeStorage
  <2>4. request' \in Requests /\ Resolved' /\ (profile = Rendered(document))' /\ SettingsValid(profile)'
    BY <1>1, Carried DEF Appending
  <2> QED BY <1>1, <1>3, <2>3, <2>4 DEF PlanInv, Appending
<1> QED BY <1>2, <1>3

LEMMA StorageStep == ASSUME PlanInv, AppendStorage PROVE PlanInv'
<1> DEFINE options == IF profile.machine = "udm-pro" THEN UdmStorage(profile) ELSE Storage(profile)
<1>1. /\ stage = "storage"
      /\ UNCHANGED <<request, image, builds, document, profile, prepared>>
      /\ stage' = "refused" \/ (stage' = "tpm" /\ options # Refused /\ argv' = argv \o options)
  BY Extended DEF AppendStorage
<1>2. CASE stage' = "refused"
  BY <1>1, <1>2, PlanRefused
<1>3. CASE stage' # "refused"
  <2>1. BeforeStorage
    BY <1>1 DEF PlanInv
  <2>2. Laid(argv \o options, StoredIds, profile) /\ Screenless(argv \o options)
    BY <1>1, <1>3, <2>1, StorageLaid DEF BeforeStorage
  <2> HIDE DEF options
  <2>3. BeforeTpm'
    BY <1>1, <1>3, <2>2 DEF BeforeTpm
  <2>4. request' \in Requests /\ Resolved' /\ (profile = Rendered(document))' /\ SettingsValid(profile)'
    BY <1>1, Carried DEF Appending
  <2> QED BY <1>1, <1>3, <2>3, <2>4 DEF PlanInv, Appending
<1> QED BY <1>2, <1>3

LEMMA TpmStep == ASSUME PlanInv, AppendTpm PROVE PlanInv'
<1> DEFINE options == IF Has(profile, "tpm") THEN TpmOptions ELSE <<>>
           more == {"chrtpm", "tpm0"}
<1>1. /\ stage = "tpm"
      /\ UNCHANGED <<request, image, builds, document, profile, prepared>>
      /\ stage' = "refused" \/ (stage' = "devices" /\ argv' = argv \o options)
  <2>1. Extend("tpm", "devices", options)
    BY DEF AppendTpm, TpmOptions
  <2> HIDE DEF options
  <2> QED BY <2>1, Extended
<1>2. CASE stage' = "refused"
  BY <1>1, <1>2, PlanRefused
<1>3. CASE stage' # "refused"
  <2>1. BeforeTpm
    BY <1>1 DEF PlanInv
  <2>2. Part(options, more, OnBoard(profile.machine)) /\ Quiet(options)
    BY TpmPart, EmptyPart, Widened
  <2>3. StoredIds \cap more = {} /\ StoredIds \cup more = TpmIds
    BY DEF StoredIds, NetworkIds, MachineIds, UdmPortIds, StorageIds, UdmStorageIds, TpmIds
  <2> HIDE DEF options, more
  <2>4. Laid(argv \o options, StoredIds \cup more, profile) /\ Screenless(argv \o options)
    BY <2>1, <2>2, <2>3, QuietLaid DEF BeforeTpm
  <2>5. BeforeDevices'
    BY <1>1, <1>3, <2>3, <2>4 DEF BeforeDevices
  <2>6. request' \in Requests /\ Resolved' /\ (profile = Rendered(document))' /\ SettingsValid(profile)'
    BY <1>1, Carried DEF Appending
  <2> QED BY <1>1, <1>3, <2>5, <2>6 DEF PlanInv, Appending
<1> QED BY <1>2, <1>3

LEMMA DevicesStep == ASSUME PlanInv, AppendDevices PROVE PlanInv'
<1> DEFINE options == IF profile.console = "h264" /\ profile.video \notin GlVideo THEN Refused ELSE Options(profile)
<1>1. /\ stage = "devices"
      /\ UNCHANGED <<request, image, builds, document, profile, prepared>>
      /\ stage' = "refused" \/ (stage' = "audio" /\ options # Refused /\ argv' = argv \o options)
  BY Extended DEF AppendDevices, Options
<1>2. CASE stage' = "refused"
  BY <1>1, <1>2, PlanRefused
<1>3. CASE stage' # "refused"
  <2>1. BeforeDevices /\ SettingsValid(profile)
    BY <1>1 DEF PlanInv, Appending
  <2>2. options = Options(profile) /\ (profile.console = "h264" => profile.video \in GlVideo)
    BY <1>1, <1>3
  <2>3. profile.video \in GlVideo <=> profile.console = "h264"
    BY <2>1, <2>2 DEF SettingsValid
  <2> DEFINE u == argv \o Options(profile)
  <2>4. /\ Laid(u, AttachedIds, profile) /\ Portless(u)
        /\ Shown(u, DisplayOf(profile)) /\ Wears(u, profile, DeviceVideo)
    BY <2>1, <2>3, DevicesLaid DEF BeforeDevices
  <2>5. argv' = u
    BY <1>1, <1>3, <2>2
  <2> HIDE DEF options, u
  <2>6. BeforeAudio'
    BY <1>1, <2>4, <2>5 DEF BeforeAudio
  <2>7. request' \in Requests /\ Resolved' /\ (profile = Rendered(document))' /\ SettingsValid(profile)'
    BY <1>1, Carried DEF Appending
  <2> QED BY <1>1, <1>3, <2>2, <2>6, <2>7 DEF PlanInv, Appending
<1> QED BY <1>2, <1>3

LEMMA AudioStep == ASSUME PlanInv, AppendAudio PROVE PlanInv'
<1>1. /\ stage = "audio"
      /\ UNCHANGED <<request, image, builds, document, profile, prepared>>
      /\ stage' = "refused" \/ (stage' = "video" /\ Sounding(argv) # Refused /\ argv' = Sounding(argv))
  BY DEF AppendAudio
<1>2. CASE stage' = "refused"
  BY <1>1, <1>2, PlanRefused
<1>3. CASE stage' # "refused"
  <2> DEFINE u == Sounding(argv)
  <2>1. BeforeAudio /\ (profile.console = "h264" => profile.video \in GlVideo)
    BY <1>1 DEF PlanInv
  <2>2. Laid(u, SoundIds, profile) /\ Portless(u) /\ Displays(u, profile) /\ Wears(u, profile, DeviceVideo)
    BY <1>1, <1>3, <2>1, SoundLaid DEF BeforeAudio
  <2>3. argv' = u
    BY <1>1, <1>3
  <2> HIDE DEF u
  <2>4. BeforeVideo'
    BY <1>1, <2>2, <2>3 DEF BeforeVideo
  <2>5. request' \in Requests /\ Resolved' /\ (profile = Rendered(document))' /\ SettingsValid(profile)'
    BY <1>1, Carried DEF Appending
  <2> QED BY <1>1, <1>3, <2>1, <2>4, <2>5 DEF PlanInv, Appending
<1> QED BY <1>2, <1>3

LEMMA VideoStep == ASSUME PlanInv, AppendVideo PROVE PlanInv'
<1>1. /\ stage = "video"
      /\ UNCHANGED <<request, image, builds, document, profile, prepared>>
      /\ stage' = "refused" \/ (stage' = "board" /\ argv' = argv \o AnalysisVideo(profile))
  BY Extended DEF AppendVideo
<1>2. CASE stage' = "refused"
  BY <1>1, <1>2, PlanRefused
<1>3. CASE stage' # "refused"
  <2> DEFINE u == argv \o AnalysisVideo(profile)
  <2>1. BeforeVideo /\ (profile.console = "h264" => profile.video \in GlVideo)
    BY <1>1 DEF PlanInv
  <2>2. Laid(u, AdapterIds, profile) /\ Portless(u) /\ Displays(u, profile) /\ Dressed(u, profile)
    BY <2>1, VideoLaid DEF BeforeVideo
  <2>3. argv' = u
    BY <1>1, <1>3
  <2> HIDE DEF u
  <2>4. BeforeBoard'
    BY <1>1, <2>2, <2>3 DEF BeforeBoard
  <2>5. request' \in Requests /\ Resolved' /\ (profile = Rendered(document))' /\ SettingsValid(profile)'
    BY <1>1, Carried DEF Appending
  <2> QED BY <1>1, <1>3, <2>1, <2>4, <2>5 DEF PlanInv, Appending
<1> QED BY <1>2, <1>3

LEMMA BoardStep == ASSUME PlanInv, AppendBoard PROVE PlanInv'
<1> DEFINE options == BoardOptions(profile)
<1>1. /\ stage = "board"
      /\ UNCHANGED <<request, image, builds, document, profile, prepared>>
      /\ stage' = "refused" \/ (stage' = "finish" /\ options # Refused /\ argv' = argv \o options)
  <2>1. Extend("board", "finish", options)
    BY DEF AppendBoard, BoardOptions
  <2> HIDE DEF options
  <2> QED BY <2>1, Extended
<1>2. CASE stage' = "refused"
  BY <1>1, <1>2, PlanRefused
<1>3. CASE stage' # "refused"
  <2> DEFINE u == argv \o options
  <2>1. BeforeBoard /\ (profile.console = "h264" => profile.video \in GlVideo)
    BY <1>1 DEF PlanInv
  <2>2. Laid(u, AllIds, profile) /\ Portless(u) /\ Displays(u, profile) /\ Dressed(u, profile)
    BY <1>1, <1>3, <2>1, BoardLaid DEF BeforeBoard
  <2>3. argv' = u
    BY <1>1, <1>3
  <2> HIDE DEF u, options
  <2>4. Complete' /\ Portless(argv')
    BY <1>1, <2>2, <2>3 DEF Complete
  <2>5. request' \in Requests /\ Resolved' /\ (profile = Rendered(document))' /\ SettingsValid(profile)'
    BY <1>1, Carried DEF Appending
  <2> QED BY <1>1, <1>3, <2>1, <2>4, <2>5 DEF PlanInv, Appending
<1> QED BY <1>2, <1>3

LEMMA PrepareStep == ASSUME PlanInv, PreparePlanned PROVE PlanInv'
<1>1. /\ stage = "finish" /\ stage' = "port"
      /\ UNCHANGED <<request, image, builds, document, profile, argv>>
      /\ prepared' = Preparation(profile)
  BY DEF PreparePlanned
<1>2. Complete /\ Portless(argv) /\ (profile.console = "h264" => profile.video \in GlVideo)
  BY <1>1 DEF PlanInv
<1>3. Complete' /\ Portless(argv')
  BY <1>1, <1>2 DEF Complete
<1>4. request' \in Requests /\ Resolved' /\ (profile = Rendered(document))' /\ SettingsValid(profile)'
  BY <1>1, Carried DEF Appending
<1> QED BY <1>1, <1>2, <1>3, <1>4 DEF PlanInv, Appending

LEMMA PortStep == ASSUME PlanInv, RefreshPort PROVE PlanInv'
<1> DEFINE at == VncAt(argv)
           free == FreeAt(request.busy)
           u == [argv EXCEPT ![VncAt(argv)] = @ ++ [port |-> Ports[free]]]
<1>1. /\ stage = "port"
      /\ UNCHANGED <<request, image, builds, document, profile, prepared>>
      /\ \/ stage' = "refused"
         \/ stage' = "started" /\ profile.console # "vnc" /\ argv' = argv
         \/ stage' = "started" /\ profile.console = "vnc" /\ at # 0 /\ free # 0 /\ argv' = u
  BY DEF RefreshPort, VncAt, FreeAt
<1>2. CASE stage' = "refused"
  BY <1>1, <1>2, PlanRefused
<1>3. CASE stage' # "refused"
  <2>1. /\ Complete /\ Portless(argv) /\ (profile.console = "h264" => profile.video \in GlVideo)
        /\ prepared = Preparation(profile)
    BY <1>1 DEF PlanInv
  <2>2. Complete' /\ IF profile.console = "vnc" THEN OnePort(argv', request.busy) ELSE Portless(argv')
    <3>1. CASE profile.console # "vnc"
      BY <1>1, <1>3, <2>1, <3>1 DEF Complete
    <3>2. CASE profile.console = "vnc"
      <4>1. at # 0 /\ free # 0 /\ argv' = u
        BY <1>1, <1>3, <3>2
      <4>2. Ports[free] \notin request.busy
        BY <4>1, FreeFound
      <4>3. Laid(u, AllIds, profile) /\ Displays(u, profile) /\ Dressed(u, profile) /\ OnePort(u, request.busy)
        BY <2>1, <4>1, <4>2, PortLaid DEF Complete
      <4> HIDE DEF u
      <4> QED BY <1>1, <3>2, <4>1, <4>3 DEF Complete
    <3> QED BY <3>1, <3>2
  <2>3. request' \in Requests /\ Resolved' /\ (profile = Rendered(document))' /\ SettingsValid(profile)'
    BY <1>1, Carried DEF Appending
  <2> HIDE DEF u, at, free
  <2> QED BY <1>1, <1>3, <2>1, <2>2, <2>3 DEF PlanInv, Appending
<1> QED BY <1>2, <1>3

LEMMA PlanStutter == ASSUME PlanInv, UNCHANGED planVars PROVE PlanInv'
BY DEF planVars, PlanInv, Resolved, BeforeNetwork, BeforeStorage, BeforeTpm, BeforeDevices, BeforeAudio,
       BeforeVideo, BeforeBoard, Complete

(* The invariant holds at every step from the request to the start. *)
THEOREM PlanInvariant == PlanSpec => []PlanInv
<1>1. PlanInv /\ [PlanNext]_planVars => PlanInv'
  <2> SUFFICES ASSUME PlanInv, [PlanNext]_planVars PROVE PlanInv'
    OBVIOUS
  <2>1. CASE UNCHANGED planVars
    BY <2>1, PlanStutter
  <2>2. CASE PlanNext
    BY <2>2, CreateStep, RegistryStep, RenderStep, NetworkStep, FirmwareStep, DirectBootStep, StorageStep,
       TpmStep, DevicesStep, AudioStep, VideoStep, BoardStep, PrepareStep, PortStep DEF PlanNext
  <2> QED BY <2>1, <2>2
<1> QED BY <1>1, InitPlanned, PTL DEF PlanSpec

-----------------------------------------------------------------------------
(* What the profile takes from the document *)

(* The left operand keeps its members. *)
LEMMA HighKept ==
    ASSUME NEW high, NEW low, NEW k
    PROVE  /\ Has(high ++ low, k) <=> Has(high, k) \/ Has(low, k)
           /\ Has(high, k) => (high ++ low)[k] = high[k]
           /\ ~Has(high, k) /\ Has(low, k) => (high ++ low)[k] = low[k]
BY DEF ++, Has

Basic(doc) ==
    [machine    |-> doc.machine,
     engine     |-> doc.engine,
     components |-> doc.components,
     console    |-> ConsoleOf(doc.devices),
     video      |-> VideoOf(doc.devices),
     serial     |-> SerialOf(doc.devices),
     audio      |-> Field(doc.devices, "audio", "none"),
     with       |-> Field(doc.devices, "with", {})]

Copied(doc) == [k \in {"boot", "firmware", "tpm", "analysis"} \cap DOMAIN doc |-> doc[k]]

(* The renderer copies layer upon layer, and the upper one wins. *)
LEMMA RenderedIs ==
    ASSUME NEW doc
    PROVE  Rendered(doc) = Basic(doc) ++ RenderedStorage(doc) ++ RenderedNetwork(doc) ++ Copied(doc)
BY DEF Rendered, Basic, Copied

LEMMA BasicHas ==
    ASSUME NEW doc
    PROVE  /\ DOMAIN Basic(doc) = {"machine", "engine", "components", "console", "video", "serial", "audio", "with"}
           /\ Basic(doc).machine = doc.machine /\ Basic(doc).engine = doc.engine
           /\ Basic(doc).components = doc.components
BY DEF Basic

LEMMA StorageHas ==
    ASSUME NEW doc
    PROVE  LET s == RenderedStorage(doc)
           IN  /\ DOMAIN s \subseteq {"storage"}
               /\ ~Has(doc, "storage") /\ Has(s, "storage") =>
                    s.storage.disk.component = RootDisk(doc.devices.disks).component
BY EmptyIsList DEF RenderedStorage, Has

(* An address comes only from an interface, ports only from a network. *)
LEMMA NetworkHas ==
    ASSUME NEW doc
    PROVE  LET n == RenderedNetwork(doc)
           IN  /\ DOMAIN n \subseteq {"network", "nic", "mac"}
               /\ Has(doc, "network") => Has(n, "network") /\ ~Has(n, "mac") /\ n.network = doc.network
               /\ ~Has(doc, "network") /\ Has(n, "network") => ~Has(n.network, "ports")
               /\ ~Has(doc, "network") /\ Items(doc.devices, "interfaces") # <<>> =>
                    Has(n, "mac") /\ n.mac = Items(doc.devices, "interfaces")[1].mac
<1> DEFINE n == RenderedNetwork(doc)
<1>1. CASE Has(doc, "network")
  <2>1. n = [network |-> doc.network]
    BY <1>1 DEF RenderedNetwork
  <2> HIDE DEF n
  <2>2. DOMAIN n = {"network"} /\ n.network = doc.network
    BY <2>1
  <2> QED BY <1>1, <2>2 DEF Has, n
<1>2. CASE ~Has(doc, "network") /\ Items(doc.devices, "interfaces") = <<>>
  <2>1. n = <<>>
    BY <1>2 DEF RenderedNetwork
  <2> HIDE DEF n
  <2>2. DOMAIN n = {}
    BY <2>1, EmptyIsList
  <2> QED BY <1>2, <2>2 DEF Has, n
<1>3. CASE ~Has(doc, "network") /\ Items(doc.devices, "interfaces") # <<>>
  <2> DEFINE nic == doc.devices.interfaces[1]
             type == Field(nic, "network", "user")
  <2>1. n = [network |-> [type |-> type], nic |-> nic.model, mac |-> nic.mac]
    BY <1>3 DEF RenderedNetwork
  <2>2. nic = Items(doc.devices, "interfaces")[1]
    BY <1>3 DEF Items, Field
  <2> HIDE DEF n, type, nic
  <2>3. DOMAIN n = {"network", "nic", "mac"} /\ n.mac = nic.mac /\ n.network = [type |-> type]
    BY <2>1
  <2>4. DOMAIN n.network = {"type"}
    BY <2>3
  <2> QED BY <1>3, <2>2, <2>3, <2>4 DEF Has, n
<1> QED BY <1>1, <1>2, <1>3

LEMMA CopiedHas ==
    ASSUME NEW doc
    PROVE  /\ DOMAIN Copied(doc) = {"boot", "firmware", "tpm", "analysis"} \cap DOMAIN doc
           /\ \A k \in DOMAIN Copied(doc) : Copied(doc)[k] = doc[k]
BY DEF Copied

(* The fields of the profile the properties are about. *)
LEMMA ProfileTakes ==
    ASSUME NEW doc
    PROVE  LET p == Rendered(doc)
           IN  /\ p.machine = doc.machine /\ p.engine = doc.engine /\ p.components = doc.components
               /\ Has(p, "storage") <=> Has(RenderedStorage(doc), "storage")
               /\ Has(p, "storage") => p.storage = RenderedStorage(doc).storage
               /\ Has(p, "network") <=> Has(RenderedNetwork(doc), "network")
               /\ Has(p, "network") => p.network = RenderedNetwork(doc).network
               /\ Has(p, "mac") <=> Has(RenderedNetwork(doc), "mac")
               /\ Has(p, "mac") => p.mac = RenderedNetwork(doc).mac
               /\ Has(doc, "firmware") => Has(p, "firmware")
<1> DEFINE b == Basic(doc)
           s == RenderedStorage(doc)
           n == RenderedNetwork(doc)
           c == Copied(doc)
           bs == b ++ s
           bsn == bs ++ n
           p == bsn ++ c
<1>1. Rendered(doc) = p
  BY RenderedIs
<1>2. /\ DOMAIN b = {"machine", "engine", "components", "console", "video", "serial", "audio", "with"}
      /\ DOMAIN s \subseteq {"storage"} /\ DOMAIN n \subseteq {"network", "nic", "mac"}
      /\ DOMAIN c = {"boot", "firmware", "tpm", "analysis"} \cap DOMAIN doc
      /\ b.machine = doc.machine /\ b.engine = doc.engine /\ b.components = doc.components
  BY BasicHas, StorageHas, NetworkHas, CopiedHas
<1> HIDE DEF b, s, n, c
<1>3. \A k : /\ Has(bs, k) <=> Has(b, k) \/ Has(s, k)
             /\ Has(b, k) => bs[k] = b[k]
             /\ ~Has(b, k) /\ Has(s, k) => bs[k] = s[k]
  BY HighKept
<1> HIDE DEF bs
<1>4. \A k : /\ Has(bsn, k) <=> Has(bs, k) \/ Has(n, k)
             /\ Has(bs, k) => bsn[k] = bs[k]
             /\ ~Has(bs, k) /\ Has(n, k) => bsn[k] = n[k]
  BY HighKept
<1> HIDE DEF bsn
<1>5. \A k : /\ Has(p, k) <=> Has(bsn, k) \/ Has(c, k)
             /\ Has(bsn, k) => p[k] = bsn[k]
             /\ ~Has(bsn, k) /\ Has(c, k) => p[k] = c[k]
  BY HighKept
<1> HIDE DEF p
<1>6. \A k \in {"machine", "engine", "components"} : p[k] = b[k]
  BY <1>2, <1>3, <1>4, <1>5 DEF Has
<1>7. (Has(p, "storage") <=> Has(s, "storage")) /\ (Has(p, "storage") => p.storage = s.storage)
  BY <1>2, <1>3, <1>4, <1>5 DEF Has
<1>8. (Has(p, "network") <=> Has(n, "network")) /\ (Has(p, "network") => p.network = n.network)
  BY <1>2, <1>3, <1>4, <1>5 DEF Has
<1>9. (Has(p, "mac") <=> Has(n, "mac")) /\ (Has(p, "mac") => p.mac = n.mac)
  BY <1>2, <1>3, <1>4, <1>5 DEF Has
<1>10. Has(doc, "firmware") => Has(p, "firmware")
  BY <1>2, <1>5 DEF Has
<1>11. p.machine = doc.machine /\ p.engine = doc.engine /\ p.components = doc.components
  BY <1>2, <1>6
<1> QED BY <1>1, <1>7, <1>8, <1>9, <1>10, <1>11 DEF s, n

-----------------------------------------------------------------------------
(* The theorems *)

(* Arguments with different ids define different things. *)
LEMMA DefinesApart ==
    ASSUME NEW a, NEW b, a.id = b.id => a.id = ""
    PROVE  Defines(a) \cap Defines(b) = {}
<1> DEFINE A == <<ClassOf(a.opt), a.id>>
           B == <<ClassOf(b.opt), b.id>>
<1>1. A[2] = a.id /\ B[2] = b.id
  BY TwoIsList DEF Two
<1>2. (a.id = "" /\ Defines(a) = {}) \/ (a.id # "" /\ Defines(a) = {A})
  BY DEF Defines
<1>3. Defines(b) = {} \/ Defines(b) = {B}
  BY DEF Defines
<1> HIDE DEF A, B
<1> QED BY <1>1, <1>2, <1>3

(* Whatever parts a profile combines, every backend and bus the command line
   names is defined once, and a bus before the device that sits on it: the
   append_ functions of engine/plan.rs know nothing of each other. *)
THEOREM LineWired == PlanSpec => []Wired
<1>1. PlanInv => Wired
  <2> SUFFICES ASSUME PlanInv, VmStarted PROVE Wired
    BY DEF Wired
  <2>1. Complete /\ profile = Rendered(document)
    BY DEF PlanInv, VmStarted, Appending
  <2>2. profile.machine = document.machine
    BY <2>1, ProfileTakes
  <2>3. Part(argv, AllIds, OnBoard(document.machine))
    BY <2>1, <2>2 DEF Complete, Laid
  <2>4. \A i, j \in DOMAIN argv : i # j => Defines(argv[i]) \cap Defines(argv[j]) = {}
    <3> SUFFICES ASSUME NEW i \in DOMAIN argv, NEW j \in DOMAIN argv, i # j
                 PROVE  Defines(argv[i]) \cap Defines(argv[j]) = {}
      OBVIOUS
    <3>1. argv[i].id = argv[j].id => argv[i].id = ""
      BY <2>3 DEF Part, Unique
    <3> QED BY <3>1, DefinesApart
  <2>5. Served(argv, OnBoard(document.machine))
    BY <2>3 DEF Part
  <2> QED BY <2>4, <2>5 DEF Wired, Served
<1> QED BY <1>1, PlanInvariant, PTL

(* The build and the root disk of the time of creation are the ones of the run:
   no later registration of a track or of the image reaches it, and the NVRAM
   is prepared with the overlay. *)
THEOREM PinnedRun == PlanSpec => []RunsAsPinned
<1>1. PlanInv => RunsAsPinned
  <2> SUFFICES ASSUME PlanInv, VmStarted PROVE RunsAsPinned
    BY DEF RunsAsPinned
  <2>1. /\ request \in Requests /\ Resolved /\ Complete
        /\ profile = Rendered(document) /\ prepared = Preparation(profile)
    BY DEF PlanInv, VmStarted, Appending
  <2> DEFINE engine == EngineFor(request.profile, request.image, request.engines)
  <2>2. document.engine = engine /\ document.components = request.image.components
    <3> DEFINE spec == Expanded(Layered(request), request.image)
               fixed == [engine |-> engine, components |-> request.image.components,
                         devices |-> WithAddresses(spec.devices)]
    <3>1. document = fixed ++ spec
      BY <2>1 DEF Resolved, Resolve
    <3> HIDE DEF spec, engine
    <3>2. Has(fixed, "engine") /\ Has(fixed, "components")
      BY DEF Has
    <3>3. fixed.engine = engine /\ fixed.components = request.image.components
      OBVIOUS
    <3> HIDE DEF fixed
    <3> QED BY <3>1, <3>2, <3>3, HighKept
  <2> HIDE DEF engine
  <2>3. /\ profile.engine = document.engine /\ profile.components = document.components
        /\ Has(profile, "storage") => profile.storage = RenderedStorage(document).storage
        /\ Has(profile, "storage") <=> Has(RenderedStorage(document), "storage")
        /\ Has(document, "firmware") => Has(profile, "firmware")
    BY <2>1, ProfileTakes
  <2>4. ASSUME \E i \in DOMAIN argv : argv[i].opt = "-drive" /\ argv[i].kind = "overlay"
        PROVE  /\ Has(prepared, "overlay")
               /\ prepared.overlay # "replaced"
               /\ ~Has(document, "storage") =>
                    prepared.overlay = request.image.components[RootDisk(document.devices.disks).component].artifact
               /\ Has(document, "firmware") => Has(prepared, "nvram")
    <3> DEFINE disk == profile.storage.disk.component
               kept == [overlay |-> profile.components[disk].artifact]
               vars == IF Has(profile, "firmware") THEN [nvram |-> profile.firmware] ELSE <<>>
    <3>1. Overlaid(profile) /\ Available(profile, disk)
      BY <2>1, <2>4 DEF Complete, Laid, Rooted, Rootless, NoRoot
    <3>2. prepared = kept ++ vars
      BY <2>1, <3>1 DEF Preparation
    <3>3. Has(kept, "overlay") /\ ~Has(kept, "nvram") /\ kept.overlay = profile.components[disk].artifact
      BY DEF Has
    <3>4. Has(document, "firmware") => Has(vars, "nvram")
      BY <2>3 DEF Has
    <3> HIDE DEF kept, vars, disk
    <3>5. /\ Has(prepared, "overlay") /\ prepared.overlay = profile.components[disk].artifact
          /\ Has(document, "firmware") => Has(prepared, "nvram")
      BY <3>2, <3>3, <3>4, HighKept
    <3>6. disk \in DOMAIN request.image.components /\ profile.components = request.image.components
      BY <2>2, <2>3, <3>1 DEF Available, Has
    <3>7. prepared.overlay # "replaced"
      BY <2>1, <3>5, <3>6, RequestsAssumption
    <3>8. ~Has(document, "storage") => disk = RootDisk(document.devices.disks).component
      BY <2>3, <3>1, StorageHas DEF Overlaid, disk
    <3> QED BY <3>5, <3>6, <3>7, <3>8
  <2>5. profile.engine.build = EngineFor(request.profile, request.image, request.engines).build
    BY <2>2, <2>3 DEF engine
  <2> QED BY <2>4, <2>5 DEF RunsAsPinned
<1> QED BY <1>1, PlanInvariant, PTL

(* The addresses of two ports differ unless one is pinned. *)
LEMMA PortsApart ==
    ASSUME NEW p, NEW m \in 1..4, NEW n \in 1..4, Address(p) = <<"instance", 0>>,
           PortMac(p, m) = PortMac(p, n), ~Has(p.network.ports[m], "mac"), ~Has(p.network.ports[n], "mac")
    PROVE  m = n
<1> DEFINE A == <<"instance", 0>>
           M == <<A[1], A[2] + m - 1>>
           N == <<A[1], A[2] + n - 1>>
<1>1. M = N
  BY DEF PortMac
<1>2. M[2] = A[2] + m - 1 /\ N[2] = A[2] + n - 1 /\ A[2] = 0
  BY TwoIsList DEF Two
<1> HIDE DEF A, M, N
<1>3. 0 + m - 1 = 0 + n - 1
  BY <1>1, <1>2
<1> QED BY <1>3

(* The guest keeps the address of its document, and no two cards share one but
   by the document: the profile of api/lifecycle.rs takes the address of the
   first interface, the planner gives a card without one the address of the
   instance, and each port of the appliance the next. *)
THEOREM AddressesKept == PlanSpec => []AddressKept
<1>1. PlanInv => AddressKept
  <2> SUFFICES ASSUME PlanInv, VmStarted PROVE AddressKept
    BY DEF AddressKept
  <2>1. Complete /\ profile = Rendered(document)
    BY DEF PlanInv, VmStarted, Appending
  <2> DEFINE n == RenderedNetwork(document)
             nics == Items(document.devices, "interfaces")
  <2>2. /\ Has(profile, "network") <=> Has(n, "network")
        /\ Has(profile, "network") => profile.network = n.network
        /\ Has(profile, "mac") <=> Has(n, "mac")
        /\ Has(profile, "mac") => profile.mac = n.mac
    BY <2>1, ProfileTakes
  <2>3. /\ Has(document, "network") => Has(n, "network") /\ ~Has(n, "mac") /\ n.network = document.network
        /\ ~Has(document, "network") /\ Has(n, "network") => ~Has(n.network, "ports")
        /\ ~Has(document, "network") /\ nics # <<>> => Has(n, "mac") /\ n.mac = nics[1].mac
    BY NetworkHas
  <2> HIDE DEF n, nics
  <2>4. Ported(profile) =>
          Has(document, "network") /\ Has(document.network, "ports") /\ profile.network = document.network
    BY <2>2, <2>3 DEF Ported
  <2>5. Has(document, "network") => Address(profile) = <<"instance", 0>>
    BY <2>2, <2>3 DEF Address, Field
  <2>6. ~Has(document, "network") /\ nics # <<>> => Address(profile) = nics[1].mac
    BY <2>2, <2>3 DEF Address, Field
  <2>7. SoleCard(argv, Address(profile)) \/ (Ported(profile) /\ Cabled(argv, profile, 1..4))
    BY <2>1 DEF Complete, Laid, Carded
  <2>8. ASSUME NEW i \in MacsOf(argv), NEW j \in MacsOf(argv), argv[i].mac = argv[j].mac
        PROVE  i = j \/ Pinned(argv[i].mac)
    <3>1. CASE SoleCard(argv, Address(profile))
      BY <3>1 DEF SoleCard
    <3>2. CASE Ported(profile) /\ Cabled(argv, profile, 1..4)
      <4>1. PICK k \in 1..4 : OfPort(argv[i], profile, k)
        BY <3>2 DEF Cabled
      <4>2. PICK l \in 1..4 : OfPort(argv[j], profile, l)
        BY <3>2 DEF Cabled
      <4>3. argv[i].mac = PortMac(profile, k) /\ argv[i].mac = PortMac(profile, l)
        BY <2>8, <4>1, <4>2 DEF OfPort
      <4>4. \A m \in 1..4 : Has(profile.network.ports[m], "mac") /\ argv[i].mac = PortMac(profile, m) =>
              Pinned(argv[i].mac)
        BY <2>4, <3>2 DEF PortMac, Pinned
      <4>5. CASE k = l
        <5>1. argv[i].uses = argv[j].uses
          BY <4>1, <4>2, <4>5 DEF OfPort
        <5> QED BY <3>2, <5>1 DEF Cabled
      <4>6. CASE k # l
        <5>1. Has(profile.network.ports[k], "mac") \/ Has(profile.network.ports[l], "mac")
          BY <2>4, <2>5, <3>2, <4>3, <4>6, PortsApart
        <5> QED BY <4>3, <4>4, <5>1
      <4> QED BY <4>5, <4>6
    <3> QED BY <2>7, <3>1, <3>2
  <2>9. ASSUME nics # <<>>, Has(document, "network") => nics[1].mac = <<"instance", 0>>,
               ~(Has(document, "network") /\ Has(document.network, "ports")), NEW i \in MacsOf(argv)
        PROVE  argv[i].mac = nics[1].mac
    <3>1. Address(profile) = nics[1].mac
      BY <2>5, <2>6, <2>9
    <3>2. SoleCard(argv, Address(profile))
      BY <2>4, <2>7, <2>9
    <3> QED BY <3>1, <3>2 DEF SoleCard
  <2> QED BY <2>8, <2>9 DEF AddressKept, nics
<1> QED BY <1>1, PlanInvariant, PTL

(* Counting. *)
LEMMA CountOne == ASSUME NEW S, NEW k, S = {k} PROVE Cardinality(S) = 1
BY FS_Singleton

LEMMA CountNone == ASSUME NEW S, S = {} PROVE Cardinality(S) = 0
BY FS_EmptySet

LEMMA OptCounted ==
    ASSUME NEW s, NEW o, NEW a, OneOpt(s, o, a)
    PROVE  \E k \in DOMAIN s : s[k] = a /\ {i \in DOMAIN s : s[i].opt = o} = {k}
BY DEF OneOpt

(* What is on the screen, counted for any list. *)
Counted(s, p, busy) ==
    /\ Cardinality({i \in DOMAIN s : s[i].opt = "-display"}) = 1
    /\ Cardinality({i \in DOMAIN s : s[i].opt = "-vga"}) <= 1
    /\ Cardinality({i \in DOMAIN s : s[i].id \in {"me-video", "pc-video"}}) =
         Cardinality({i \in DOMAIN s : s[i].opt = "-vga" /\ s[i].kind = "none"})
    /\ p.console = "vnc" => Cardinality({i \in DOMAIN s : Has(s[i], "port") /\ s[i].port \notin busy}) = 1
    /\ p.console = "h264" =>
         /\ Cardinality({i \in DOMAIN s : s[i].opt = "-display" /\ s[i].kind = "dbus-gl"}) = 1
         /\ Cardinality({i \in DOMAIN s : s[i].id = "me-video" /\ s[i].kind \in GlVideo}) = 1
    /\ p.audio = "dbus" =>
         Cardinality({i \in DOMAIN s : s[i].opt = "-display" /\ <<"audiodev", "pc-audio">> \in s[i].uses}) = 1

(* One display, at most one adapter, one port. *)
LEMMA ScreenCounted ==
    ASSUME NEW s, NEW p, NEW busy, Displays(s, p), Dressed(s, p),
           p.console = "h264" => p.video \in GlVideo, p.console = "vnc" => OnePort(s, busy)
    PROVE  Counted(s, p, busy)
<1> DEFINE Shows == {i \in DOMAIN s : s[i].opt = "-display"}
           Vgas == {i \in DOMAIN s : s[i].opt = "-vga"}
           NoVgas == {i \in DOMAIN s : s[i].opt = "-vga" /\ s[i].kind = "none"}
           Videos == {i \in DOMAIN s : s[i].id \in VideoIds}
<1>1. PICK a : /\ OneOpt(s, "-display", a)
               /\ p.console = "h264" => a.kind = "dbus-gl"
               /\ p.audio = "dbus" => Backend \in a.uses
  BY DEF Displays
<1>2. PICK k \in DOMAIN s : s[k] = a /\ Shows = {k}
  BY <1>1, OptCounted
<1>3. Cardinality(Shows) = 1
  BY <1>2, CountOne
<1>4. p.console = "h264" => Cardinality({i \in DOMAIN s : s[i].opt = "-display" /\ s[i].kind = "dbus-gl"}) = 1
  <2> DEFINE S == {i \in DOMAIN s : s[i].opt = "-display" /\ s[i].kind = "dbus-gl"}
  <2>1. p.console = "h264" => S = {k}
    BY <1>1, <1>2
  <2> HIDE DEF S
  <2>2. p.console = "h264" => Cardinality(S) = 1
    BY <2>1, CountOne
  <2> QED BY <2>2 DEF S
<1>5. p.audio = "dbus" =>
        Cardinality({i \in DOMAIN s : s[i].opt = "-display" /\ <<"audiodev", "pc-audio">> \in s[i].uses}) = 1
  <2> DEFINE S == {i \in DOMAIN s : s[i].opt = "-display" /\ <<"audiodev", "pc-audio">> \in s[i].uses}
  <2>1. p.audio = "dbus" => S = {k}
    BY <1>1, <1>2 DEF Backend
  <2> HIDE DEF S
  <2>2. p.audio = "dbus" => Cardinality(S) = 1
    BY <2>1, CountOne
  <2> QED BY <2>2 DEF S
<1>6. p.console = "vnc" => Cardinality({i \in DOMAIN s : Has(s[i], "port") /\ s[i].port \notin busy}) = 1
  <2> DEFINE S == {i \in DOMAIN s : Has(s[i], "port") /\ s[i].port \notin busy}
  <2> SUFFICES ASSUME p.console = "vnc" PROVE Cardinality(S) = 1
    OBVIOUS
  <2>1. PICK q \in DOMAIN s : /\ Has(s[q], "port") /\ s[q].port \notin busy
                              /\ \A i \in DOMAIN s : Has(s[i], "port") => i = q
    BY DEF OnePort
  <2>2. S = {q}
    BY <2>1
  <2> HIDE DEF S
  <2> QED BY <2>2, CountOne
<1> DEFINE GlVideos == {i \in DOMAIN s : s[i].id = "me-video" /\ s[i].kind \in GlVideo}
<1>7. /\ Cardinality(Vgas) <= 1 /\ Cardinality(Videos) = Cardinality(NoVgas)
      /\ p.console = "h264" => Cardinality(GlVideos) = 1
  <2>1. p.console = "h264" => p.video \in DeviceVideo
    BY DEF DeviceVideo
  <2>2. CASE Bareheaded(s) /\ p.video \notin DeviceVideo
    <3>1. Vgas = {} /\ NoVgas = {} /\ Videos = {}
      BY <2>2 DEF Bareheaded, HasOpt, HasVideo
    <3> HIDE DEF Vgas, NoVgas, Videos, GlVideos
    <3>2. Cardinality(Vgas) = 0 /\ Cardinality(NoVgas) = 0 /\ Cardinality(Videos) = 0
      BY <3>1, CountNone
    <3>3. p.console # "h264"
      BY <2>1, <2>2
    <3> QED BY <3>2, <3>3
  <2>3. CASE Plain(s) /\ p.video \notin DeviceVideo
    <3>1. PICK v : OneOpt(s, "-vga", v) /\ v.kind # "none"
      BY <2>3 DEF Plain
    <3>2. PICK q \in DOMAIN s : s[q] = v /\ Vgas = {q}
      BY <3>1, OptCounted
    <3>3. NoVgas = {} /\ Videos = {}
      BY <2>3, <3>1, <3>2 DEF Plain, HasVideo
    <3> HIDE DEF Vgas, NoVgas, Videos, GlVideos
    <3>4. Cardinality(Vgas) = 1 /\ Cardinality(NoVgas) = 0 /\ Cardinality(Videos) = 0
      BY <3>2, <3>3, CountNone, CountOne
    <3>5. p.console # "h264"
      BY <2>1, <2>3
    <3> QED BY <3>4, <3>5
  <2>4. CASE \E id, kind :
               /\ id \in VideoIds /\ Forged(s, id, kind)
               /\ p.video \in DeviceVideo => id = "me-video" /\ kind = p.video
    <3>1. PICK id, kind :
            /\ id \in VideoIds /\ Forged(s, id, kind)
            /\ p.video \in DeviceVideo => id = "me-video" /\ kind = p.video
      BY <2>4
    <3>2. PICK v : OneOpt(s, "-vga", v) /\ v.kind = "none"
      BY <3>1 DEF Forged
    <3>3. PICK q \in DOMAIN s : s[q] = v /\ Vgas = {q}
      BY <3>2, OptCounted
    <3>4. NoVgas = {q}
      BY <3>2, <3>3
    <3>5. PICK d : OneVideo(s, d) /\ d.id = id /\ d.kind = kind
      BY <3>1 DEF Forged
    <3>6. PICK r \in DOMAIN s : s[r] = d /\ Videos = {r}
      BY <3>5 DEF OneVideo
    <3>7. p.console = "h264" => GlVideos = {r}
      BY <2>1, <3>1, <3>5, <3>6 DEF VideoIds
    <3> HIDE DEF Vgas, NoVgas, Videos, GlVideos
    <3>8. Cardinality(Vgas) = 1 /\ Cardinality(NoVgas) = 1 /\ Cardinality(Videos) = 1
      BY <3>3, <3>4, <3>6, CountOne
    <3>9. p.console = "h264" => Cardinality(GlVideos) = 1
      BY <3>7, CountOne
    <3> QED BY <3>8, <3>9
  <2> QED BY <2>2, <2>3, <2>4 DEF Dressed
<1> HIDE DEF Shows, Vgas, NoVgas, Videos, GlVideos
<1> QED BY <1>3, <1>4, <1>5, <1>6, <1>7 DEF Counted, Shows, Vgas, NoVgas, Videos, GlVideos, VideoIds

(* A VM that started has one display, the one its console and its sound need,
   with at most one display adapter; VNC listens on one port, and nobody else
   does: append_devices, append_audio, append_analysis_video and
   refresh_vnc_port each see but their own part of the command line. *)
THEOREM ScreensServed == PlanSpec => []ScreenServed
<1>1. PlanInv => ScreenServed
  <2> SUFFICES ASSUME PlanInv, VmStarted PROVE ScreenServed
    BY DEF ScreenServed
  <2>1. /\ Displays(argv, profile) /\ Dressed(argv, profile)
        /\ profile.console = "h264" => profile.video \in GlVideo
        /\ profile.console = "vnc" => OnePort(argv, request.busy)
    BY DEF PlanInv, VmStarted, Complete
  <2>2. Counted(argv, profile, request.busy)
    BY <2>1, ScreenCounted
  <2> QED BY <2>2 DEF Counted, ScreenServed, CountOf
<1> QED BY <1>1, PlanInvariant, PTL
=============================================================================
