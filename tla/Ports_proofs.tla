---------------------------- MODULE Ports_proofs ----------------------------
(***************************************************************************)
(* For which game ports, GOTV ports and orders of commands the arithmetic   *)
(* of deployServer and removeServer is safe.  Each theorem assumes what it  *)
(* needs of the platform and no more.                                      *)
(***************************************************************************)
EXTENDS Ports, TLAPS

Serial == Overlap = FALSE
DefaultsOnly == CustomGotv = {}
\* The rules that the removal of one instance closes are no rules of another.
RulesApart ==
    \A p, q \in GamePorts : q - p # 5 /\ p \notin CustomGotv /\ DefaultGotv(p) \notin CustomGotv

LEMMA PortsTyped == ASSUME NEW p \in GamePorts PROVE p \in Int /\ p \in Valid
  BY PortsAssumption DEF Valid

-----------------------------------------------------------------------------
\* Whatever the platform sends, in whatever order: no deploy ends with a GOTV port out of
\* range, and no rule is opened for such a port.
THEOREM TypeCorrect == Spec => []TypeOK
<1>1. Init => TypeOK
  BY PortsTyped DEF Init, TypeOK, DefaultGotv, Valid
<1>2. TypeOK /\ [Next]_vars => TypeOK'
  <2> SUFFICES ASSUME TypeOK, [Next]_vars PROVE TypeOK'
    OBVIOUS
  <2> USE DEF TypeOK
  <2>1. CASE UNCHANGED vars
    BY <2>1 DEF vars
  <2>2. ASSUME NEW p \in GamePorts, NEW wanted \in CustomGotv \cup {0}, Deploy(p, wanted)
        PROVE  TypeOK'
    BY <2>2 DEF Deploy, Valid
  <2>3. ASSUME NEW p \in GamePorts, OpenRules(p) PROVE TypeOK'
    BY <2>3, PortsTyped DEF OpenRules
  <2>4. ASSUME NEW p \in GamePorts, RemoveFiles(p) \/ CloseRules(p) PROVE TypeOK'
    BY <2>4 DEF RemoveFiles, CloseRules
  <2> QED
    BY <2>1, <2>2, <2>3, <2>4 DEF Next
<1> QED
  BY <1>1, <1>2, PTL DEF Spec

-----------------------------------------------------------------------------
(* The order of the commands                                               *)

\* Deploys open rules of instances that exist, and no instance awaits the closing of its
\* own rules.
InOrder == opening \subseteq inst /\ closing \cap inst = {}

LEMMA InOrderNext ==
    ASSUME Serial, InOrder, [Next]_vars
    PROVE  InOrder'
<1>1. CASE UNCHANGED vars
  BY <1>1 DEF vars, InOrder
<1>2. ASSUME NEW p \in GamePorts, NEW wanted \in CustomGotv \cup {0}, Deploy(p, wanted)
      PROVE  InOrder'
  BY <1>2 DEF Deploy, MayBegin, Serial, InOrder
<1>3. ASSUME NEW p \in GamePorts, RemoveFiles(p) PROVE InOrder'
  BY <1>3 DEF RemoveFiles, MayBegin, Serial, InOrder
<1>4. ASSUME NEW p \in GamePorts, OpenRules(p) \/ CloseRules(p) PROVE InOrder'
  BY <1>4 DEF OpenRules, CloseRules, InOrder
<1> QED
  BY <1>1, <1>2, <1>3, <1>4 DEF Next

\* The rules of a deployed instance stay open, whatever happens to other instances, when
\* commands do not overlap and no rule of one instance is closed with another's.
THEOREM RulesStayOpen == ASSUME Serial, RulesApart PROVE Spec => []OpenWhileDeployed
<1> DEFINE GotvKnown == \A p \in inst : gotv[p] \in CustomGotv \cup {DefaultGotv(p)}
           IInv == TypeOK /\ InOrder /\ GotvKnown /\ OpenWhileDeployed
<1>1. Init => InOrder /\ GotvKnown /\ OpenWhileDeployed
  BY DEF Init, InOrder, OpenWhileDeployed
<1>2. TypeOK /\ InOrder /\ GotvKnown /\ OpenWhileDeployed /\ [Next]_vars
      => (InOrder /\ GotvKnown /\ OpenWhileDeployed)'
  <2> SUFFICES ASSUME IInv, [Next]_vars PROVE (GotvKnown /\ OpenWhileDeployed)'
    BY InOrderNext
  <2>1. CASE UNCHANGED vars
    BY <2>1 DEF vars, OpenWhileDeployed
  <2>2. ASSUME NEW p \in GamePorts, NEW wanted \in CustomGotv \cup {0}, Deploy(p, wanted)
        PROVE  (GotvKnown /\ OpenWhileDeployed)'
    BY <2>2 DEF Deploy, TypeOK, OpenWhileDeployed
  <2>3. ASSUME NEW p \in GamePorts, OpenRules(p) PROVE (GotvKnown /\ OpenWhileDeployed)'
    BY <2>3 DEF OpenRules, OpenWhileDeployed
  <2>4. ASSUME NEW p \in GamePorts, RemoveFiles(p) PROVE (GotvKnown /\ OpenWhileDeployed)'
    BY <2>4 DEF RemoveFiles, OpenWhileDeployed
  <2>5. ASSUME NEW p \in GamePorts, CloseRules(p) PROVE (GotvKnown /\ OpenWhileDeployed)'
    <3>1. /\ p \notin inst /\ inst' = inst /\ gotv' = gotv /\ opening' = opening
          /\ allowed' = allowed \ {p, DefaultGotv(p)}
      BY <2>5 DEF CloseRules, InOrder
    <3>2. ASSUME NEW q \in inst \ opening PROVE q \in allowed' /\ gotv[q] \in allowed'
      <4>1. q \in GamePorts /\ q # p
        BY <3>1 DEF TypeOK
      <4>2. p \in Int /\ q \in Int /\ q - p # 5 /\ p - q # 5
        BY <4>1, PortsTyped DEF RulesApart
      <4>3. q \notin {p, p + 5} /\ q + 5 \notin {p, p + 5}
        BY <4>1, <4>2
      <4>4. gotv[q] \notin {p, DefaultGotv(p)}
        BY <4>3 DEF DefaultGotv, RulesApart
      <4> QED
        BY <3>1, <4>3, <4>4 DEF OpenWhileDeployed, DefaultGotv
    <3> QED
      BY <3>1, <3>2 DEF OpenWhileDeployed
  <2> QED
    BY <2>1, <2>2, <2>3, <2>4, <2>5 DEF Next
<1> HIDE DEF GotvKnown
<1> QED
  BY <1>1, <1>2, TypeCorrect, PTL DEF Spec

-----------------------------------------------------------------------------
(* The default GOTV ports                                                  *)

GotvDefault == \A p \in GamePorts : gotv[p] = DefaultGotv(p)

LEMMA GotvDefaultNext == ASSUME DefaultsOnly, TypeOK, GotvDefault, [Next]_vars PROVE GotvDefault'
<1>1. ASSUME NEW p \in GamePorts, NEW wanted \in CustomGotv \cup {0}, Deploy(p, wanted)
      PROVE  GotvDefault'
  BY <1>1 DEF Deploy, DefaultsOnly, TypeOK, GotvDefault
<1> QED
  BY <1>1 DEF Next, OpenRules, RemoveFiles, CloseRules, vars, GotvDefault

\* Nothing is left open behind a removal, whichever the game ports are, when commands do
\* not overlap and no GOTV port is asked for.
THEOREM RulesRemoved == ASSUME Serial, DefaultsOnly PROVE Spec => []NoRuleLeft
<1> DEFINE IInv == InOrder /\ GotvDefault /\ NoRuleLeft
<1>1. Init => IInv
  BY DEF Init, InOrder, GotvDefault, NoRuleLeft
<1>2. TypeOK /\ IInv /\ [Next]_vars => IInv'
  <2> SUFFICES ASSUME TypeOK, IInv, [Next]_vars PROVE NoRuleLeft'
    BY InOrderNext, GotvDefaultNext
  <2> USE DEF NoRuleLeft
  <2>1. CASE UNCHANGED vars
    BY <2>1 DEF vars
  <2>2. ASSUME NEW p \in GamePorts, NEW wanted \in CustomGotv \cup {0}, Deploy(p, wanted)
        PROVE  NoRuleLeft'
    <3>1. inst' = inst \cup {p} /\ closing' = closing /\ allowed' = allowed
      BY <2>2 DEF Deploy
    <3>2. \A q \in inst : gotv'[q] = gotv[q]
      BY GotvDefaultNext DEF GotvDefault, TypeOK
    <3> QED
      BY <3>1, <3>2
  <2>3. ASSUME NEW p \in GamePorts, OpenRules(p) PROVE NoRuleLeft'
    BY <2>3 DEF OpenRules, InOrder
  <2>4. ASSUME NEW p \in GamePorts, RemoveFiles(p) PROVE NoRuleLeft'
    BY <2>4 DEF RemoveFiles, GotvDefault
  <2>5. ASSUME NEW p \in GamePorts, CloseRules(p) PROVE NoRuleLeft'
    BY <2>5 DEF CloseRules
  <2> QED
    BY <2>1, <2>2, <2>3, <2>4, <2>5 DEF Next
<1> QED
  BY <1>1, <1>2, TypeCorrect, PTL DEF Spec

\* No two instances use the same port of the host, in whatever order their commands run,
\* when no two game ports are 5, 10 or 15 apart and no GOTV port is asked for.
THEOREM SocketsUnique == ASSUME Apart, DefaultsOnly PROVE Spec => []NoClash
<1>1. Init => GotvDefault
  BY DEF Init, GotvDefault
<1>2. TypeOK /\ GotvDefault => NoClash
  <2> SUFFICES ASSUME TypeOK, GotvDefault, NEW p \in inst, NEW q \in inst, p # q
               PROVE  Sockets(p) \cap Sockets(q) = {}
    BY DEF NoClash
  <2>1. /\ p \in GamePorts /\ q \in GamePorts
        /\ Sockets(p) = {p, p + 5, p - 10} /\ Sockets(q) = {q, q + 5, q - 10}
    BY DEF TypeOK, GotvDefault, Sockets, DefaultGotv, SteamPort
  <2>2. p \in Int /\ q \in Int /\ q - p \notin {5, 10, 15} /\ p - q \notin {5, 10, 15}
    BY <2>1, PortsTyped DEF Apart
  <2>3. /\ p # q + 5 /\ p # q - 10 /\ p + 5 # q - 10
        /\ q # p + 5 /\ q # p - 10 /\ q + 5 # p - 10
    BY <2>2
  <2>4. p + 5 # q + 5 /\ p - 10 # q - 10
    BY <2>2
  <2> QED
    BY <2>1, <2>3, <2>4
<1>3. TypeOK /\ GotvDefault /\ [Next]_vars => GotvDefault'
  BY GotvDefaultNext
<1> QED
  BY <1>1, <1>2, <1>3, TypeCorrect, PTL DEF Spec
=============================================================================
