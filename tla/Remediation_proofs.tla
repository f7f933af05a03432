------------------------ MODULE Remediation_proofs ------------------------
(***************************************************************************)
(* Proofs about Remediation for any number of callers, findings, files,    *)
(* items, directories, sessions, assets and paths.                         *)
(***************************************************************************)
EXTENDS Remediation, WellFoundedInduction, TLAPS

\* Only c moves; what it does to itself is told by pc'[c] and mem'[c].
Moves(c) ==
    /\ pc' = [pc EXCEPT ![c] = pc'[c]] /\ mem' = [mem EXCEPT ![c] = mem'[c]]

-----------------------------------------------------------------------------
(* The quarantine of files: what callers hold.                              *)

Transits == {"t_item", "t_move", "t_append"}
QuarSteps == {"idle", "q_item", "q_append", "i_save"} \cup Transits

\* What a caller holds fits the step it stands at.
QuarFitting(s, m) ==
    /\ s = "idle" => m = None
    /\ s # "idle" => m \in QuarMemory
    /\ s \in {"q_item", "q_append"} => m.flow = "quarantine" /\ m.todo \subseteq Findings \cap m.busy
    /\ s \in {"q_append", "t_move", "t_append"} => m.finding \in m.busy /\ m.item \in Items
    /\ s \in Transits => /\ m.flow \in {"restored", "deleted"} /\ m.todo \subseteq Items \X Item
                         /\ \A t \in m.todo : t[2].finding \in m.busy
                         /\ \A t, u \in m.todo : t[1] = u[1] => t = u
    /\ s = "t_move" => m.flow = "restored"
    /\ s = "i_save" => m.todo \subseteq Findings /\ m.busy = {}

QuarCallers ==
    /\ pc \in [Callers -> QuarSteps] /\ mem \in [Callers -> QuarMemory \cup {None}]
    /\ \A c \in Callers : QuarFitting(pc[c], mem[c])

\* A transition works on lines the index has.
LinesThere(c) ==
    pc[c] \in Transits => /\ \A t \in mem[c].todo : items[t[1]] # None
                          /\ pc[c] # "t_item" => items[mem[c].item] # None

QuarTypes ==
    /\ QuarTypeOK
    /\ origin \in [Files -> Findings \cup {None}]
    /\ QuarCallers
    /\ \A c \in Callers : LinesThere(c)

LEMMA QuarGo ==
  ASSUME QuarCallers, NEW c \in Callers, NEW s, NEW m, Goes(c, s), Holds(c, m)
  PROVE  Moves(c) /\ pc'[c] = s /\ mem'[c] = m
  BY DEF QuarCallers, Goes, Holds, Moves

LEMMA QuarHold ==
  ASSUME QuarCallers, NEW c \in Callers, NEW m, Holds(c, m), UNCHANGED pc
  PROVE  Moves(c) /\ pc'[c] = pc[c] /\ mem'[c] = m
  BY DEF QuarCallers, Holds, Moves

LEMMA QuarGoOnly ==
  ASSUME QuarCallers, NEW c \in Callers, NEW s, Goes(c, s), UNCHANGED mem
  PROVE  Moves(c) /\ pc'[c] = s /\ mem'[c] = mem[c]
  BY DEF QuarCallers, Goes, Moves

LEMMA QuarOthers ==
  ASSUME QuarCallers, NEW c \in Callers, Moves(c)
  PROVE  \A d \in Callers : d # c => pc'[d] = pc[d] /\ mem'[d] = mem[d]
  BY DEF QuarCallers, Moves

LEMMA QuarCallerStep ==
  ASSUME QuarCallers, NEW c \in Callers, Moves(c), pc'[c] \in QuarSteps,
         QuarFitting(pc'[c], mem'[c])
  PROVE  QuarCallers'
<1>1. mem'[c] \in QuarMemory \cup {None}
  BY DEF QuarFitting
<1>2. pc' \in [Callers -> QuarSteps] /\ mem' \in [Callers -> QuarMemory \cup {None}]
  BY <1>1 DEF QuarCallers, Moves
<1>3. \A d \in Callers : QuarFitting(pc'[d], mem'[d])
  BY QuarOthers DEF QuarCallers
<1> QED
  BY <1>2, <1>3 DEF QuarCallers

LEMMA QuarIdleFits == QuarFitting("idle", None)
  BY DEF QuarFitting, Transits

\* The findings of a caller that is at work are those it holds.
LEMMA WorkFacts ==
  ASSUME QuarCallers, NEW c \in Callers
  PROVE  /\ pc[c] = "idle" => mem[c] = None /\ AtWork(c) = {}
         /\ pc[c] # "idle" => mem[c] \in QuarMemory /\ mem[c] # None /\ AtWork(c) = mem[c].busy
         /\ AtWork(c) \subseteq Findings
<1>1. CASE pc[c] = "idle"
  BY <1>1 DEF QuarCallers, QuarFitting, AtWork
<1>2. CASE pc[c] # "idle"
  <2>1. mem[c] \in QuarMemory
    BY <1>2 DEF QuarCallers, QuarFitting
  <2>2. mem[c] # None /\ "busy" \in DOMAIN mem[c] /\ mem[c].busy \subseteq Findings
    BY <2>1, NoFileAssumption DEF QuarMemory
  <2> QED
    BY <1>2, <2>1, <2>2 DEF AtWork
<1> QED
  BY <1>1, <1>2

LEMMA TodoFacts ==
  ASSUME NEW T \in (SUBSET Findings) \cup (SUBSET (Items \X Item)), NEW t
  PROVE  T \in Todos /\ T \ {t} \in Todos
  BY DEF Todos

LEMMA TransitTodos ==
  ASSUME NEW T, T \subseteq Items \X Item
  PROVE  T \in Todos
  BY DEF Todos

LEMMA FewerTodo ==
  ASSUME NEW m \in QuarMemory, NEW t
  PROVE  m.todo \ {t} \in Todos
  BY TodoFacts DEF QuarMemory, Todos

-----------------------------------------------------------------------------
(* What each step does to its caller.                                       *)

LEMMA StartQuarantineFacts ==
  ASSUME QuarTypes, NEW c \in Callers, NEW chosen \in SUBSET Findings, StartQuarantine(c, chosen)
  PROVE  /\ Moves(c) /\ pc[c] = "idle" /\ pc'[c] = "q_item"
         /\ mem'[c] = QuarMem("quarantine", chosen, chosen) /\ QuarCallers'
<1>1. Moves(c) /\ pc[c] = "idle" /\ pc'[c] = "q_item" /\ mem'[c] = QuarMem("quarantine", chosen, chosen)
  BY QuarGo DEF StartQuarantine, Call, QuarTypes
<1>2. QuarMem("quarantine", chosen, chosen) \in QuarMemory
  BY TodoFacts DEF QuarMem, QuarMemory
<1>3. QuarFitting(pc'[c], mem'[c])
  BY <1>1, <1>2 DEF QuarFitting, QuarMem, Transits
<1> QED
  BY <1>1, <1>3, QuarCallerStep DEF QuarTypes, QuarSteps

LEMMA RefusedFacts ==
  ASSUME QuarTypes, NEW c \in Callers, QuarantineRefused(c)
  PROVE  /\ Moves(c) /\ pc[c] = "q_item" /\ pc'[c] = "q_item"
         /\ mem'[c].busy = mem[c].busy /\ QuarCallers'
<1>1. pc[c] = "q_item" /\ mem[c] \in QuarMemory /\ QuarFitting("q_item", mem[c])
  BY DEF QuarantineRefused, QuarTypes, QuarCallers, QuarFitting
<1>2. PICK f \in mem[c].todo :
         mem'[c] = [mem[c] EXCEPT !.todo = @ \ {f}, !.item = None, !.finding = None]
  BY <1>1, QuarHold DEF QuarantineRefused, QuarTypes, Done
<1>3. Moves(c) /\ pc'[c] = "q_item"
  BY <1>1, QuarHold DEF QuarantineRefused, QuarTypes, Done
<1>4. mem'[c] \in QuarMemory /\ mem'[c].busy = mem[c].busy /\ mem'[c].flow = mem[c].flow
      /\ mem'[c].todo \subseteq mem[c].todo
  <2>1. mem[c].todo \ {f} \in Todos
    BY <1>1, FewerTodo
  <2> QED
    BY <1>1, <1>2, <2>1 DEF QuarMemory
<1>5. QuarFitting("q_item", mem'[c])
  BY <1>1, <1>4 DEF QuarFitting, Transits
<1> QED
  BY <1>1, <1>3, <1>4, <1>5, QuarCallerStep DEF QuarTypes, QuarSteps

LEMMA MoveFacts ==
  ASSUME QuarTypes, NEW c \in Callers, QuarantineMove(c)
  PROVE  /\ Moves(c) /\ pc[c] = "q_item" /\ pc'[c] = "q_append" /\ QuarCallers'
         /\ mem'[c].busy = mem[c].busy /\ mem[c] # None
         /\ \E f \in Findings : \E i \in Items :
               /\ f \in mem[c].busy /\ source[f] # None
               /\ mem'[c].finding = f /\ mem'[c].item = i
               /\ items[i] = None /\ \A d \in Callers : mem[d] # None => mem[d].item # i
               /\ stored' = [stored EXCEPT ![f] = source[f]]
               /\ source' = [source EXCEPT ![f] = None]
               /\ muddled' = IF stored[f] = None /\ ~Outdated(f) THEN muddled ELSE muddled \cup {f}
<1>1. pc[c] = "q_item" /\ mem[c] \in QuarMemory /\ QuarFitting("q_item", mem[c]) /\ mem[c] # None
  BY WorkFacts DEF QuarantineMove, QuarTypes, QuarCallers, QuarFitting
<1>2. PICK f \in mem[c].todo, i \in Items :
         /\ source[f] # None
         /\ items[i] = None /\ \A d \in Callers : mem[d] # None => mem[d].item # i
         /\ stored' = [stored EXCEPT ![f] = source[f]]
         /\ source' = [source EXCEPT ![f] = None]
         /\ muddled' = IF stored[f] = None /\ ~Outdated(f) THEN muddled ELSE muddled \cup {f}
         /\ Holds(c, [mem[c] EXCEPT !.item = i, !.finding = f])
  BY DEF QuarantineMove
<1>3. f \in Findings /\ f \in mem[c].busy
  BY <1>1 DEF QuarFitting
<1>4. Moves(c) /\ pc'[c] = "q_append" /\ mem'[c] = [mem[c] EXCEPT !.item = i, !.finding = f]
  BY <1>2, QuarGo DEF QuarantineMove, QuarTypes
<1>5. /\ mem'[c] \in QuarMemory /\ mem'[c].busy = mem[c].busy /\ mem'[c].flow = mem[c].flow
      /\ mem'[c].todo = mem[c].todo /\ mem'[c].finding = f /\ mem'[c].item = i
  BY <1>1, <1>3, <1>4 DEF QuarMemory
<1>6. QuarFitting("q_append", mem'[c])
  BY <1>1, <1>3, <1>5 DEF QuarFitting, Transits
<1>7. QuarCallers'
  BY <1>4, <1>6, QuarCallerStep DEF QuarTypes, QuarSteps
<1>8. \E g \in Findings : \E k \in Items :
         /\ g \in mem[c].busy /\ source[g] # None
         /\ mem'[c].finding = g /\ mem'[c].item = k
         /\ items[k] = None /\ \A d \in Callers : mem[d] # None => mem[d].item # k
         /\ stored' = [stored EXCEPT ![g] = source[g]]
         /\ source' = [source EXCEPT ![g] = None]
         /\ muddled' = IF stored[g] = None /\ ~Outdated(g) THEN muddled ELSE muddled \cup {g}
  <2> f \in Findings
    BY <1>3
  <2> WITNESS f \in Findings
  <2> WITNESS i \in Items
  <2> QED
    BY <1>2, <1>3, <1>5
<1> QED
  BY <1>1, <1>4, <1>5, <1>7, <1>8

LEMMA AppendFacts ==
  ASSUME QuarTypes, NEW c \in Callers, QuarantineAppend(c)
  PROVE  /\ Moves(c) /\ pc[c] = "q_append" /\ pc'[c] = "q_item" /\ QuarCallers'
         /\ mem'[c].busy = mem[c].busy /\ mem[c].finding \in mem[c].busy
         /\ mem[c].finding \in Findings /\ mem[c].item \in Items
<1>1. pc[c] = "q_append" /\ mem[c] \in QuarMemory /\ QuarFitting("q_append", mem[c])
  BY DEF QuarantineAppend, QuarTypes, QuarCallers, QuarFitting
<1> DEFINE f == mem[c].finding
<1>2. /\ Moves(c) /\ pc'[c] = "q_item"
      /\ mem'[c] = [mem[c] EXCEPT !.todo = @ \ {f}, !.item = None, !.finding = None]
  BY QuarGo DEF QuarantineAppend, QuarTypes, Done
<1>3. mem'[c] \in QuarMemory /\ mem'[c].busy = mem[c].busy /\ mem'[c].flow = mem[c].flow
      /\ mem'[c].todo \subseteq mem[c].todo
  <2>1. mem[c].todo \ {f} \in Todos
    BY <1>1, FewerTodo
  <2> QED
    BY <1>1, <1>2, <2>1 DEF QuarMemory
<1>4. QuarFitting("q_item", mem'[c])
  BY <1>1, <1>3 DEF QuarFitting, Transits
<1>5. mem[c].busy \subseteq Findings /\ mem[c].finding \in mem[c].busy /\ mem[c].item \in Items
  BY <1>1 DEF QuarMemory, QuarFitting
<1> QED
  BY <1>1, <1>2, <1>3, <1>4, <1>5, QuarCallerStep DEF QuarTypes, QuarSteps

LEMMA StartTransitionFacts ==
  ASSUME QuarTypes, NEW c \in Callers, NEW target \in {"restored", "deleted"},
         NEW ids \in SUBSET Items, StartTransition(c, target, ids)
  PROVE  /\ Moves(c) /\ pc[c] = "idle" /\ pc'[c] = "t_item" /\ QuarCallers'
         /\ \E chosen \in SUBSET Items :
               /\ \A i \in chosen : items[i] # None /\ items[i].state = "active"
               /\ mem'[c].todo = {<<i, items[i]>> : i \in chosen}
               /\ mem'[c].busy = {items[i].finding : i \in chosen}
               /\ Begins(c, {items[i].finding : i \in chosen})
<1> DEFINE chosen == {i \in ids : items[i] # None /\ items[i].state = "active"}
           findings == {items[i].finding : i \in chosen}
           todo == {<<i, items[i]>> : i \in chosen}
<1>1. /\ Moves(c) /\ pc[c] = "idle" /\ pc'[c] = "t_item"
      /\ mem'[c] = QuarMem(target, todo, findings) /\ Begins(c, findings)
  BY QuarGo DEF StartTransition, Call, QuarTypes
<1>2. chosen \in SUBSET Items /\ \A i \in chosen : items[i] \in Item /\ items[i] # None /\ items[i].state = "active"
  BY DEF QuarTypes, QuarTypeOK
<1> HIDE DEF chosen
<1>3. findings \subseteq Findings /\ todo \subseteq Items \X Item
  BY <1>2 DEF Item
<1>4. \A t \in todo : t[2].finding \in findings
  OBVIOUS
<1>5. \A t, u \in todo : t[1] = u[1] => t = u
  OBVIOUS
<1> HIDE DEF findings, todo
<1>6. /\ mem'[c] \in QuarMemory /\ mem'[c].flow = target /\ mem'[c].todo = todo
      /\ mem'[c].busy = findings
  <2>1. todo \in Todos
    BY <1>3, TransitTodos
  <2> QED
    BY <1>1, <1>3, <2>1 DEF QuarMem, QuarMemory
<1>7. QuarFitting("t_item", mem'[c])
  BY <1>3, <1>4, <1>5, <1>6 DEF QuarFitting, Transits
<1>8. QuarCallers'
  BY <1>1, <1>7, QuarCallerStep DEF QuarTypes, QuarSteps, Transits
<1> QED
  BY <1>1, <1>2, <1>6, <1>8 DEF todo, findings

LEMMA CheckFacts ==
  ASSUME QuarTypes, NEW c \in Callers, RestoreCheck(c)
  PROVE  /\ Moves(c) /\ pc[c] = "t_item" /\ QuarCallers' /\ mem'[c].busy = mem[c].busy
         /\ \E t \in mem[c].todo :
               /\ mem'[c].todo = mem[c].todo \ {t}
               /\ \/ pc'[c] = "t_item"
                  \/ /\ pc'[c] = "t_move" /\ mem'[c].item = t[1] /\ mem'[c].finding = t[2].finding
                     /\ stored[t[2].finding] # None /\ SourceFree(t[2].finding)
<1>1. pc[c] = "t_item" /\ mem[c] \in QuarMemory /\ QuarFitting("t_item", mem[c]) /\ mem[c].flow = "restored"
  BY DEF RestoreCheck, QuarTypes, QuarCallers, QuarFitting
<1>2. PICK t \in mem[c].todo :
         IF stored[t[2].finding] # None /\ SourceFree(t[2].finding)
         THEN /\ Holds(c, [mem[c] EXCEPT !.todo = @ \ {t}, !.item = t[1], !.finding = t[2].finding])
              /\ Goes(c, "t_move")
         ELSE Done(c, t) /\ UNCHANGED pc
  BY DEF RestoreCheck
<1>3. mem[c].todo \ {t} \in Todos
  BY <1>1, FewerTodo
<1>4. t[1] \in Items /\ t[2].finding \in mem[c].busy /\ t[2].finding \in Findings
  BY <1>1 DEF QuarFitting, Transits, QuarMemory
<1>5. CASE stored[t[2].finding] # None /\ SourceFree(t[2].finding)
  <2>1. /\ Moves(c) /\ pc'[c] = "t_move"
        /\ mem'[c] = [mem[c] EXCEPT !.todo = @ \ {t}, !.item = t[1], !.finding = t[2].finding]
    BY <1>2, <1>5, QuarGo DEF QuarTypes
  <2>2. /\ mem'[c] \in QuarMemory /\ mem'[c].busy = mem[c].busy /\ mem'[c].flow = mem[c].flow
        /\ mem'[c].todo = mem[c].todo \ {t} /\ mem'[c].item = t[1] /\ mem'[c].finding = t[2].finding
    BY <1>1, <1>3, <1>4, <2>1 DEF QuarMemory
  <2>3. QuarFitting("t_move", mem'[c])
    BY <1>1, <1>4, <2>2 DEF QuarFitting, Transits
  <2> QED
    BY <1>1, <1>5, <2>1, <2>2, <2>3, QuarCallerStep DEF QuarTypes, QuarSteps, Transits
<1>6. CASE ~(stored[t[2].finding] # None /\ SourceFree(t[2].finding))
  <2>1. /\ Moves(c) /\ pc'[c] = "t_item"
        /\ mem'[c] = [mem[c] EXCEPT !.todo = @ \ {t}, !.item = None, !.finding = None]
    BY <1>1, <1>2, <1>6, QuarHold DEF QuarTypes, Done
  <2>2. /\ mem'[c] \in QuarMemory /\ mem'[c].busy = mem[c].busy /\ mem'[c].flow = mem[c].flow
        /\ mem'[c].todo = mem[c].todo \ {t}
    BY <1>1, <1>3, <2>1 DEF QuarMemory
  <2>3. QuarFitting("t_item", mem'[c])
    BY <1>1, <2>2 DEF QuarFitting, Transits
  <2> QED
    BY <1>1, <2>1, <2>2, <2>3, QuarCallerStep DEF QuarTypes, QuarSteps, Transits
<1> QED
  BY <1>5, <1>6

LEMMA RestoreMoveFacts ==
  ASSUME QuarTypes, NEW c \in Callers, RestoreMove(c)
  PROVE  /\ Moves(c) /\ pc[c] = "t_move" /\ QuarCallers' /\ mem' = mem
         /\ mem[c].finding \in mem[c].busy /\ mem[c].finding \in Findings
         /\ pc'[c] = IF stored[mem[c].finding] # None THEN "t_append" ELSE "t_item"
<1>1. pc[c] = "t_move" /\ mem[c] \in QuarMemory /\ QuarFitting("t_move", mem[c]) /\ mem' = mem
  BY DEF RestoreMove, QuarTypes, QuarCallers, QuarFitting
<1>2. mem[c].finding \in mem[c].busy /\ mem[c].finding \in Findings
  BY <1>1 DEF QuarFitting, QuarMemory
<1>3. Moves(c) /\ pc'[c] = IF stored[mem[c].finding] # None THEN "t_append" ELSE "t_item"
  BY <1>1, QuarGoOnly DEF RestoreMove, QuarTypes
<1>4. QuarFitting("t_append", mem'[c]) /\ QuarFitting("t_item", mem'[c])
  BY <1>1 DEF QuarFitting, Transits
<1>5. QuarCallers'
  BY <1>3, <1>4, QuarCallerStep DEF QuarTypes, QuarSteps, Transits
<1> QED
  BY <1>1, <1>2, <1>3, <1>5

LEMMA DeleteFacts ==
  ASSUME QuarTypes, NEW c \in Callers, DeleteFile(c)
  PROVE  /\ Moves(c) /\ pc[c] = "t_item" /\ pc'[c] = "t_append" /\ QuarCallers'
         /\ mem'[c].busy = mem[c].busy
         /\ \E t \in mem[c].todo :
               /\ mem'[c].todo = mem[c].todo \ {t} /\ mem'[c].item = t[1]
               /\ mem'[c].finding = t[2].finding /\ t[2].finding \in Findings /\ t[1] \in Items
               /\ t[2].finding \in mem[c].busy
               /\ stored' = Unlinked(t[2].finding)
               /\ destroyed' = destroyed \cup ({t[2].file} \cap {stored[t[2].finding]})
<1>1. pc[c] = "t_item" /\ mem[c] \in QuarMemory /\ QuarFitting("t_item", mem[c])
  BY DEF DeleteFile, QuarTypes, QuarCallers, QuarFitting
<1>2. PICK t \in mem[c].todo :
         /\ stored' = Unlinked(t[2].finding)
         /\ destroyed' = destroyed \cup ({t[2].file} \cap {stored[t[2].finding]})
         /\ Holds(c, [mem[c] EXCEPT !.todo = @ \ {t}, !.item = t[1], !.finding = t[2].finding])
  BY DEF DeleteFile
<1>3. mem[c].todo \ {t} \in Todos
  BY <1>1, FewerTodo
<1>4. t[1] \in Items /\ t[2].finding \in mem[c].busy /\ t[2].finding \in Findings
  BY <1>1 DEF QuarFitting, Transits, QuarMemory
<1>5. /\ Moves(c) /\ pc'[c] = "t_append"
      /\ mem'[c] = [mem[c] EXCEPT !.todo = @ \ {t}, !.item = t[1], !.finding = t[2].finding]
  BY <1>2, QuarGo DEF DeleteFile, QuarTypes
<1>6. /\ mem'[c] \in QuarMemory /\ mem'[c].busy = mem[c].busy /\ mem'[c].flow = mem[c].flow
      /\ mem'[c].todo = mem[c].todo \ {t} /\ mem'[c].item = t[1] /\ mem'[c].finding = t[2].finding
  BY <1>1, <1>3, <1>4, <1>5 DEF QuarMemory
<1>7. QuarFitting("t_append", mem'[c])
  BY <1>1, <1>4, <1>6 DEF QuarFitting, Transits
<1>8. QuarCallers'
  BY <1>5, <1>7, QuarCallerStep DEF QuarTypes, QuarSteps, Transits
<1> QED
  BY <1>1, <1>2, <1>4, <1>5, <1>6, <1>8

LEMMA TransitionAppendFacts ==
  ASSUME QuarTypes, NEW c \in Callers, TransitionAppend(c)
  PROVE  /\ Moves(c) /\ pc[c] = "t_append" /\ pc'[c] = "t_item" /\ QuarCallers'
         /\ mem'[c].busy = mem[c].busy /\ mem'[c].todo = mem[c].todo
         /\ mem[c].flow \in {"restored", "deleted"}
         /\ mem[c].item \in Items /\ items[mem[c].item] \in Item
         /\ mem[c].finding \in mem[c].busy /\ mem[c].finding \in Findings
<1>1. pc[c] = "t_append" /\ mem[c] \in QuarMemory /\ QuarFitting("t_append", mem[c])
  BY DEF TransitionAppend, QuarTypes, QuarCallers, QuarFitting
<1>2. /\ Moves(c) /\ pc'[c] = "t_item"
      /\ mem'[c] = [mem[c] EXCEPT !.item = None, !.finding = None]
  BY QuarGo DEF TransitionAppend, QuarTypes
<1>3. /\ mem'[c] \in QuarMemory /\ mem'[c].busy = mem[c].busy /\ mem'[c].flow = mem[c].flow
      /\ mem'[c].todo = mem[c].todo
  BY <1>1, <1>2 DEF QuarMemory
<1>4. QuarFitting("t_item", mem'[c])
  BY <1>1, <1>3 DEF QuarFitting, Transits
<1>5. QuarCallers'
  BY <1>2, <1>4, QuarCallerStep DEF QuarTypes, QuarSteps, Transits
<1>6. mem[c].item \in Items /\ items[mem[c].item] \in Item
  BY <1>1 DEF QuarFitting, Transits, QuarTypes, LinesThere, QuarTypeOK
<1>7. mem[c].finding \in mem[c].busy /\ mem[c].finding \in Findings
  BY <1>1 DEF QuarFitting, QuarMemory
<1>8. mem[c].flow \in {"restored", "deleted"}
  BY <1>1 DEF QuarFitting, Transits
<1> QED
  BY <1>1, <1>2, <1>3, <1>5, <1>6, <1>7, <1>8

LEMMA QuarLeaveFacts ==
  ASSUME QuarTypes, NEW c \in Callers, Leaves(c)
  PROVE  Moves(c) /\ pc'[c] = "idle" /\ mem'[c] = None /\ QuarCallers'
<1>1. Moves(c) /\ pc'[c] = "idle" /\ mem'[c] = None
  BY QuarGo DEF Leaves, QuarTypes
<1> QED
  BY <1>1, QuarIdleFits, QuarCallerStep DEF QuarTypes, QuarSteps

LEMMA LoadFacts ==
  ASSUME QuarTypes, NEW c \in Callers, NEW flow \in {"ignore", "release"},
         NEW chosen \in SUBSET Findings, LoadIgnored(c, flow, chosen)
  PROVE  /\ Moves(c) /\ pc[c] = "idle" /\ pc'[c] = "i_save" /\ QuarCallers'
         /\ mem'[c].busy = {} /\ mem'[c].list = ignored /\ mem'[c] # None
<1>1. /\ Moves(c) /\ pc[c] = "idle" /\ pc'[c] = "i_save"
      /\ mem'[c] = [QuarMem(flow, chosen, {}) EXCEPT !.list = ignored]
  BY QuarGo DEF LoadIgnored, Call, QuarTypes
<1>2. chosen \in Todos
  BY TodoFacts
<1>3. mem'[c] = [flow |-> flow, todo |-> chosen, busy |-> {}, item |-> None, finding |-> None,
                 list |-> ignored]
  BY <1>1 DEF QuarMem
<1>4. mem'[c] \in QuarMemory
  BY <1>2, <1>3 DEF QuarMemory, QuarTypes, QuarTypeOK
<1>5. QuarFitting("i_save", mem'[c])
  BY <1>3, <1>4 DEF QuarFitting, Transits
<1>6. QuarCallers'
  BY <1>1, <1>5, QuarCallerStep DEF QuarTypes, QuarSteps
<1> QED
  BY <1>1, <1>3, <1>4, <1>6, NoFileAssumption

LEMMA QuarCrashFacts ==
  ASSUME JournalCrash
  PROVE  /\ \A c \in Callers : pc'[c] = "idle" /\ mem'[c] = None
         /\ QuarCallers'
<1>1. pc' = [c \in Callers |-> "idle"] /\ mem' = [c \in Callers |-> None]
  BY DEF JournalCrash
<1> QED
  BY <1>1, QuarIdleFits DEF QuarCallers, QuarSteps

-----------------------------------------------------------------------------
(* Types of the quarantine of files.                                        *)

\* Lines of the index are replaced and never taken out.
LEMMA LinesKept ==
  ASSUME QuarTypes, NEW c \in Callers, Moves(c), LinesThere(c)',
         \A i \in Items : items[i] # None => items'[i] # None
  PROVE  \A d \in Callers : LinesThere(d)'
<1> SUFFICES ASSUME NEW d \in Callers, d # c PROVE LinesThere(d)'
  OBVIOUS
<1>1. pc'[d] = pc[d] /\ mem'[d] = mem[d]
  BY QuarOthers DEF QuarTypes
<1>2. pc[d] \in Transits => /\ \A t \in mem[d].todo : t[1] \in Items
                            /\ pc[d] # "t_item" => mem[d].item \in Items
  BY DEF QuarTypes, QuarCallers, QuarFitting, Transits
<1> QED
  BY <1>1, <1>2 DEF QuarTypes, LinesThere

LEMMA QuarTyped ==
  ASSUME QuarTypes, [QuarNext]_<<journalVars, quarVars>>
  PROVE  QuarTypes'
<1>1. ASSUME NEW c \in Callers, NEW chosen \in SUBSET Findings, StartQuarantine(c, chosen)
      PROVE  QuarTypes'
  <2>1. Moves(c) /\ pc'[c] = "q_item" /\ QuarCallers'
    BY <1>1, StartQuarantineFacts
  <2>2. UNCHANGED <<source, stored, items, ignored, origin>>
    BY <1>1 DEF StartQuarantine, places, marks
  <2>3. LinesThere(c)'
    BY <2>1 DEF LinesThere, Transits
  <2> QED
    BY <2>1, <2>2, <2>3, LinesKept DEF QuarTypes, QuarTypeOK
<1>2. ASSUME NEW c \in Callers, NEW flow \in {"ignore", "release"}, NEW chosen \in SUBSET Findings,
             LoadIgnored(c, flow, chosen)
      PROVE  QuarTypes'
  <2>1. Moves(c) /\ pc'[c] = "i_save" /\ QuarCallers'
    BY <1>2, LoadFacts
  <2>2. UNCHANGED <<source, stored, items, ignored, origin>>
    BY <1>2 DEF LoadIgnored, places
  <2>3. LinesThere(c)'
    BY <2>1 DEF LinesThere, Transits
  <2> QED
    BY <2>1, <2>2, <2>3, LinesKept DEF QuarTypes, QuarTypeOK
<1>3. ASSUME NEW c \in Callers, NEW target \in {"restored", "deleted"}, NEW ids \in SUBSET Items,
             StartTransition(c, target, ids)
      PROVE  QuarTypes'
  <2>1. Moves(c) /\ pc'[c] = "t_item" /\ QuarCallers'
    BY <1>3, StartTransitionFacts
  <2>2. UNCHANGED <<source, stored, items, ignored, origin>>
    BY <1>3 DEF StartTransition, places, marks
  <2>3. PICK chosen \in SUBSET Items :
          /\ \A i \in chosen : items[i] # None
          /\ mem'[c].todo = {<<i, items[i]>> : i \in chosen}
    BY <1>3, StartTransitionFacts
  <2>4. LinesThere(c)'
    BY <2>1, <2>2, <2>3 DEF LinesThere, Transits
  <2> QED
    BY <2>1, <2>2, <2>4, LinesKept DEF QuarTypes, QuarTypeOK
<1>4. ASSUME NEW c \in Callers, QuarantineRefused(c) PROVE QuarTypes'
  <2>1. Moves(c) /\ pc'[c] = "q_item" /\ QuarCallers'
    BY <1>4, RefusedFacts
  <2>2. UNCHANGED <<source, stored, items, ignored, origin>>
    BY <1>4 DEF QuarantineRefused, quarVars
  <2>3. LinesThere(c)'
    BY <2>1 DEF LinesThere, Transits
  <2> QED
    BY <2>1, <2>2, <2>3, LinesKept DEF QuarTypes, QuarTypeOK
<1>5. ASSUME NEW c \in Callers, QuarantineMove(c) PROVE QuarTypes'
  <2>1. Moves(c) /\ pc'[c] = "q_append" /\ QuarCallers'
    BY <1>5, MoveFacts
  <2>2. UNCHANGED <<items, ignored, origin>>
    BY <1>5 DEF QuarantineMove, marks
  <2>3. LinesThere(c)'
    BY <2>1 DEF LinesThere, Transits
  <2>4. source' \in [Findings -> Files \cup {None}] /\ stored' \in [Findings -> Files \cup {None}]
    BY <1>5, MoveFacts DEF QuarTypes, QuarTypeOK
  <2> QED
    BY <2>1, <2>2, <2>3, <2>4, LinesKept DEF QuarTypes, QuarTypeOK
<1>6. ASSUME NEW c \in Callers, QuarantineAppend(c) PROVE QuarTypes'
  <2>1. /\ Moves(c) /\ pc'[c] = "q_item" /\ QuarCallers'
        /\ mem[c].finding \in Findings /\ mem[c].item \in Items
    BY <1>6, AppendFacts
  <2>2. UNCHANGED <<source, stored, ignored, origin>>
    BY <1>6 DEF QuarantineAppend, places, marks
  <2>3. LinesThere(c)'
    BY <2>1 DEF LinesThere, Transits
  <2>4. CASE UNCHANGED items
    BY <2>1, <2>2, <2>3, <2>4, LinesKept DEF QuarTypes, QuarTypeOK
  <2>5. CASE stored[mem[c].finding] # None
             /\ Appended(mem[c].item, mem[c].finding, stored[mem[c].finding], "active")
    <3>1. PICK line \in Item : items' = [items EXCEPT ![mem[c].item] = line]
      BY <2>1, <2>5 DEF Appended, QuarTypes, QuarTypeOK, Item
    <3>2. items' \in [Items -> Item \cup {None}] /\ \A i \in Items : items[i] # None => items'[i] # None
      BY <2>1, <3>1, NoFileAssumption DEF QuarTypes, QuarTypeOK
    <3> QED
      BY <2>1, <2>2, <2>3, <3>2, LinesKept DEF QuarTypes, QuarTypeOK
  <2> QED
    BY <1>6, <2>4, <2>5 DEF QuarantineAppend
<1>7. ASSUME NEW c \in Callers, RestoreCheck(c) PROVE QuarTypes'
  <2>1. Moves(c) /\ pc[c] = "t_item" /\ QuarCallers'
    BY <1>7, CheckFacts
  <2>2. UNCHANGED <<source, stored, items, ignored, origin>>
    BY <1>7 DEF RestoreCheck, quarVars
  <2>3. LinesThere(c)'
    <3>1. PICK t \in mem[c].todo :
            /\ mem'[c].todo = mem[c].todo \ {t}
            /\ \/ pc'[c] = "t_item"
               \/ /\ pc'[c] = "t_move" /\ mem'[c].item = t[1] /\ mem'[c].finding = t[2].finding
                  /\ stored[t[2].finding] # None /\ SourceFree(t[2].finding)
      BY <1>7, CheckFacts
    <3>2. \A u \in mem[c].todo : items[u[1]] # None
      BY <2>1 DEF QuarTypes, LinesThere, Transits
    <3> QED
      BY <2>2, <3>1, <3>2 DEF LinesThere
  <2> QED
    BY <2>1, <2>2, <2>3, LinesKept DEF QuarTypes, QuarTypeOK
<1>8. ASSUME NEW c \in Callers, RestoreMove(c) PROVE QuarTypes'
  <2>1. /\ Moves(c) /\ pc[c] = "t_move" /\ QuarCallers' /\ mem' = mem /\ mem[c].finding \in Findings
        /\ pc'[c] \in Transits
    BY <1>8, RestoreMoveFacts DEF Transits
  <2>2. UNCHANGED <<items, ignored, origin>>
    BY <1>8 DEF RestoreMove, marks
  <2>3. LinesThere(c)'
    BY <2>1, <2>2 DEF QuarTypes, LinesThere, Transits
  <2>4. source' \in [Findings -> Files \cup {None}] /\ stored' \in [Findings -> Files \cup {None}]
    BY <1>8, <2>1 DEF RestoreMove, places, QuarTypes, QuarTypeOK
  <2> QED
    BY <2>1, <2>2, <2>3, <2>4, LinesKept DEF QuarTypes, QuarTypeOK
<1>9. ASSUME NEW c \in Callers, DeleteFile(c) PROVE QuarTypes'
  <2>1. Moves(c) /\ pc[c] = "t_item" /\ pc'[c] = "t_append" /\ QuarCallers'
    BY <1>9, DeleteFacts
  <2>2. UNCHANGED <<source, items, ignored, origin>>
    BY <1>9 DEF DeleteFile, marks
  <2>3. PICK t \in mem[c].todo : /\ mem'[c].todo = mem[c].todo \ {t} /\ mem'[c].item = t[1]
                                 /\ t[2].finding \in Findings /\ stored' = Unlinked(t[2].finding)
    BY <1>9, DeleteFacts
  <2>4. \A u \in mem[c].todo : items[u[1]] # None
    BY <2>1 DEF QuarTypes, LinesThere, Transits
  <2>5. LinesThere(c)'
    BY <2>2, <2>3, <2>4 DEF LinesThere
  <2>6. stored' \in [Findings -> Files \cup {None}]
    BY <2>3 DEF QuarTypes, QuarTypeOK, Unlinked
  <2> QED
    BY <2>1, <2>2, <2>5, <2>6, LinesKept DEF QuarTypes, QuarTypeOK
<1>10. ASSUME NEW c \in Callers, TransitionAppend(c) PROVE QuarTypes'
  <2>1. /\ Moves(c) /\ pc[c] = "t_append" /\ pc'[c] = "t_item" /\ QuarCallers'
        /\ mem'[c].todo = mem[c].todo /\ mem[c].flow \in {"restored", "deleted"}
        /\ mem[c].item \in Items /\ items[mem[c].item] \in Item
    BY <1>10, TransitionAppendFacts
  <2>2. UNCHANGED <<source, stored, ignored, origin>>
    BY <1>10 DEF TransitionAppend, places, marks
  <2>3. UNCHANGED items \/ items' = [items EXCEPT ![mem[c].item].state = mem[c].flow]
    BY <1>10 DEF TransitionAppend
  <2>4. [items[mem[c].item] EXCEPT !.state = mem[c].flow] \in Item
    BY <2>1 DEF Item
  <2>5. items' \in [Items -> Item \cup {None}] /\ \A i \in Items : items[i] # None => items'[i] # None
    BY <2>1, <2>3, <2>4, NoFileAssumption DEF QuarTypes, QuarTypeOK
  <2>6. \A u \in mem[c].todo : items[u[1]] # None /\ u[1] \in Items
    BY <2>1 DEF QuarTypes, LinesThere, Transits, QuarCallers, QuarFitting
  <2>7. LinesThere(c)'
    BY <2>1, <2>5, <2>6 DEF LinesThere
  <2> QED
    BY <2>1, <2>2, <2>5, <2>7, LinesKept DEF QuarTypes, QuarTypeOK
<1>11. ASSUME NEW c \in Callers, QuarEnd(c) PROVE QuarTypes'
  <2>1. Moves(c) /\ pc'[c] = "idle" /\ QuarCallers'
    BY <1>11, QuarLeaveFacts DEF QuarEnd
  <2>2. UNCHANGED <<source, stored, items, ignored, origin>>
    BY <1>11 DEF QuarEnd, quarVars
  <2>3. LinesThere(c)'
    BY <2>1 DEF LinesThere, Transits
  <2> QED
    BY <2>1, <2>2, <2>3, LinesKept DEF QuarTypes, QuarTypeOK
<1>12. ASSUME NEW c \in Callers, Ignore(c) \/ Release(c) PROVE QuarTypes'
  <2>1. Moves(c) /\ pc'[c] = "idle" /\ QuarCallers'
    BY <1>12, QuarLeaveFacts DEF Ignore, Release, Saves
  <2>2. UNCHANGED <<source, stored, items, origin>>
    BY <1>12 DEF Ignore, Release, places
  <2>3. LinesThere(c)'
    BY <2>1 DEF LinesThere, Transits
  <2>4. mem[c].list \subseteq Mark /\ mem[c].todo \subseteq Findings
    BY <1>12 DEF Ignore, Release, QuarTypes, QuarCallers, QuarFitting, QuarMemory
  <2>5. ASSUME Ignore(c) PROVE ignored' \subseteq Mark
    <3>1. PICK ids \in [mem[c].todo \ AlreadyIgnored(mem[c].list) -> Marks] :
            ignored' = mem[c].list \cup {[id |-> ids[f], finding |-> f, state |-> "active"] :
                                           f \in mem[c].todo \ AlreadyIgnored(mem[c].list)}
      BY <2>5 DEF Ignore, Saves
    <3> QED
      BY <2>4, <3>1 DEF Mark
  <2>6. ASSUME Release(c) PROVE ignored' \subseteq Mark
    <3>1. ignored' = {IF m.finding \in mem[c].todo THEN [m EXCEPT !.state = "released"] ELSE m :
                        m \in mem[c].list}
      BY <2>6 DEF Release, Saves
    <3>2. \A m \in Mark : [m EXCEPT !.state = "released"] \in Mark
      BY DEF Mark
    <3> QED
      BY <2>4, <3>1, <3>2
  <2>7. ignored' \subseteq Mark
    BY <1>12, <2>5, <2>6
  <2> QED
    BY <2>1, <2>2, <2>3, <2>7, LinesKept DEF QuarTypes, QuarTypeOK
<1>13. ASSUME NEW f \in Findings, NEW file \in Files, FileAppears(f, file) PROVE QuarTypes'
  <2>1. UNCHANGED <<pc, mem, stored, items, ignored>>
    BY <1>13 DEF FileAppears, marks
  <2>2. source' \in [Findings -> Files \cup {None}] /\ origin' \in [Files -> Findings \cup {None}]
    BY <1>13 DEF FileAppears, QuarTypes, QuarTypeOK
  <2> QED
    BY <2>1, <2>2 DEF QuarTypes, QuarTypeOK, QuarCallers, LinesThere
<1>14. ASSUME JournalCrash, QuarCrash PROVE QuarTypes'
  <2>1. UNCHANGED <<source, stored, items, ignored, origin>>
    BY <1>14 DEF QuarCrash, places
  <2>2. QuarCallers' /\ \A c \in Callers : LinesThere(c)'
    BY <1>14, QuarCrashFacts DEF LinesThere, Transits
  <2> QED
    BY <2>1, <2>2 DEF QuarTypes, QuarTypeOK
<1>15. CASE UNCHANGED <<journalVars, quarVars>>
  BY <1>15 DEF journalVars, quarVars, QuarTypes, QuarTypeOK, QuarCallers, LinesThere
<1> QED
  BY <1>1, <1>2, <1>3, <1>4, <1>5, <1>6, <1>7, <1>8, <1>9, <1>10, <1>11, <1>12, <1>13, <1>14, <1>15
  DEF QuarNext

-----------------------------------------------------------------------------
(* Findings two callers work on at once are muddled.                        *)

Alone == \A c, d \in Callers : c # d => AtWork(c) \cap AtWork(d) \subseteq muddled

\* What a caller still has to do, and what it is doing, is about its findings.
LEMMA Engaged ==
  ASSUME QuarTypes, NEW d \in Callers
  PROVE  /\ pc[d] \in Transits => \A t \in mem[d].todo : t[2].finding \in AtWork(d)
         /\ pc[d] \in {"q_append", "t_move", "t_append"} => mem[d].finding \in AtWork(d)
<1>1. QuarCallers
  BY DEF QuarTypes
<1>2. pc[d] # "idle" => AtWork(d) = mem[d].busy
  BY <1>1, WorkFacts
<1> QED
  BY <1>1, <1>2 DEF QuarCallers, QuarFitting, Transits

LEMMA AloneKept ==
  ASSUME QuarTypes, Alone, NEW c \in Callers, Moves(c), muddled \subseteq muddled',
         AtWork(c)' \subseteq AtWork(c)
  PROVE  Alone'
<1>1. \A d \in Callers : d # c => AtWork(d)' = AtWork(d)
  BY QuarOthers DEF QuarTypes, AtWork
<1> QED
  BY <1>1 DEF Alone

LEMMA AloneBegun ==
  ASSUME QuarTypes, Alone, NEW c \in Callers, Moves(c), NEW F, Begins(c, F), AtWork(c)' = F
  PROVE  Alone'
<1>1. \A d \in Callers : d # c => AtWork(d)' = AtWork(d)
  BY QuarOthers DEF QuarTypes, AtWork
<1>2. muddled \subseteq muddled' /\ \A d \in Callers \ {c} : F \cap AtWork(d) \subseteq muddled'
  BY DEF Begins
<1> QED
  BY <1>1, <1>2 DEF Alone

LEMMA QuarAlone ==
  ASSUME QuarTypes, QuarTypes', Alone, [QuarNext]_<<journalVars, quarVars>>
  PROVE  Alone' /\ muddled \subseteq muddled'
<1>0. /\ \A c \in Callers : /\ pc[c] # "idle" => AtWork(c) = mem[c].busy
                            /\ pc'[c] # "idle" => AtWork(c)' = mem'[c].busy
                            /\ pc'[c] = "idle" => AtWork(c)' = {}
  <2>1. QuarCallers /\ QuarCallers'
    BY DEF QuarTypes
  <2>2. \A c \in Callers : pc[c] # "idle" => AtWork(c) = mem[c].busy
    BY <2>1, WorkFacts
  <2>3. ASSUME NEW c \in Callers
        PROVE  /\ pc'[c] = "idle" => AtWork(c)' = {}
               /\ pc'[c] # "idle" => AtWork(c)' = mem'[c].busy
    <3>1. CASE pc'[c] = "idle"
      BY <2>1, <3>1 DEF QuarCallers, QuarFitting, AtWork
    <3>2. CASE pc'[c] # "idle"
      <4>1. mem'[c] \in QuarMemory
        BY <2>1, <3>2 DEF QuarCallers, QuarFitting
      <4>2. mem'[c] # None /\ "busy" \in DOMAIN mem'[c]
        BY <4>1, NoFileAssumption DEF QuarMemory
      <4> QED
        BY <3>2, <4>2 DEF AtWork
    <3> QED
      BY <3>1, <3>2
  <2> QED
    BY <2>2, <2>3
<1>1. ASSUME NEW c \in Callers, NEW chosen \in SUBSET Findings, StartQuarantine(c, chosen)
      PROVE  Alone' /\ muddled \subseteq muddled'
  <2>1. Moves(c) /\ pc'[c] = "q_item" /\ mem'[c].busy = chosen
    <3>1. Moves(c) /\ pc'[c] = "q_item" /\ mem'[c] = QuarMem("quarantine", chosen, chosen)
      BY <1>1, StartQuarantineFacts
    <3> QED
      BY <3>1 DEF QuarMem
  <2> QED
    BY <1>0, <1>1, <2>1, AloneBegun DEF StartQuarantine, Begins
<1>2. ASSUME NEW c \in Callers, NEW flow \in {"ignore", "release"}, NEW chosen \in SUBSET Findings,
             LoadIgnored(c, flow, chosen)
      PROVE  Alone' /\ muddled \subseteq muddled'
  <2>1. Moves(c) /\ pc'[c] = "i_save" /\ mem'[c].busy = {} /\ UNCHANGED muddled
    BY <1>2, LoadFacts DEF LoadIgnored
  <2> QED
    BY <1>0, <2>1, AloneKept
<1>3. ASSUME NEW c \in Callers, NEW target \in {"restored", "deleted"}, NEW ids \in SUBSET Items,
             StartTransition(c, target, ids)
      PROVE  Alone' /\ muddled \subseteq muddled'
  <2>1. /\ Moves(c) /\ pc'[c] = "t_item"
        /\ \E F : mem'[c].busy = F /\ Begins(c, F)
    BY <1>3, StartTransitionFacts
  <2> QED
    BY <1>0, <2>1, AloneBegun DEF Begins
<1>4. ASSUME NEW c \in Callers, QuarantineRefused(c) PROVE Alone' /\ muddled \subseteq muddled'
  <2>1. /\ Moves(c) /\ pc[c] = "q_item" /\ pc'[c] = "q_item" /\ mem'[c].busy = mem[c].busy
        /\ UNCHANGED muddled
    BY <1>4, RefusedFacts DEF QuarantineRefused, quarVars
  <2> QED
    BY <1>0, <2>1, AloneKept
<1>5. ASSUME NEW c \in Callers, QuarantineMove(c) PROVE Alone' /\ muddled \subseteq muddled'
  <2>1. /\ Moves(c) /\ pc[c] = "q_item" /\ pc'[c] = "q_append" /\ mem'[c].busy = mem[c].busy
        /\ muddled \subseteq muddled'
    BY <1>5, MoveFacts
  <2> QED
    BY <1>0, <2>1, AloneKept
<1>6. ASSUME NEW c \in Callers, QuarantineAppend(c) PROVE Alone' /\ muddled \subseteq muddled'
  <2>1. /\ Moves(c) /\ pc[c] = "q_append" /\ pc'[c] = "q_item" /\ mem'[c].busy = mem[c].busy
        /\ UNCHANGED muddled
    BY <1>6, AppendFacts DEF QuarantineAppend
  <2> QED
    BY <1>0, <2>1, AloneKept
<1>7. ASSUME NEW c \in Callers, RestoreCheck(c) PROVE Alone' /\ muddled \subseteq muddled'
  <2>1. /\ Moves(c) /\ pc[c] = "t_item" /\ pc'[c] # "idle" /\ mem'[c].busy = mem[c].busy
        /\ UNCHANGED muddled
    BY <1>7, CheckFacts DEF RestoreCheck, quarVars
  <2> QED
    BY <1>0, <2>1, AloneKept
<1>8. ASSUME NEW c \in Callers, RestoreMove(c) PROVE Alone' /\ muddled \subseteq muddled'
  <2>1. /\ Moves(c) /\ pc[c] = "t_move" /\ pc'[c] # "idle" /\ mem'[c].busy = mem[c].busy
        /\ UNCHANGED muddled
    BY <1>8, RestoreMoveFacts DEF RestoreMove
  <2> QED
    BY <1>0, <2>1, AloneKept
<1>9. ASSUME NEW c \in Callers, DeleteFile(c) PROVE Alone' /\ muddled \subseteq muddled'
  <2>1. /\ Moves(c) /\ pc[c] = "t_item" /\ pc'[c] # "idle" /\ mem'[c].busy = mem[c].busy
        /\ UNCHANGED muddled
    BY <1>9, DeleteFacts DEF DeleteFile
  <2> QED
    BY <1>0, <2>1, AloneKept
<1>10. ASSUME NEW c \in Callers, TransitionAppend(c) PROVE Alone' /\ muddled \subseteq muddled'
  <2>1. /\ Moves(c) /\ pc[c] = "t_append" /\ pc'[c] # "idle" /\ mem'[c].busy = mem[c].busy
        /\ UNCHANGED muddled
    BY <1>10, TransitionAppendFacts DEF TransitionAppend
  <2> QED
    BY <1>0, <2>1, AloneKept
<1>11. ASSUME NEW c \in Callers, QuarEnd(c) \/ Ignore(c) \/ Release(c)
       PROVE  Alone' /\ muddled \subseteq muddled'
  <2>1. Moves(c) /\ pc'[c] = "idle" /\ UNCHANGED muddled
    BY <1>11, QuarLeaveFacts DEF QuarEnd, Ignore, Release, Saves, quarVars
  <2> QED
    BY <1>0, <2>1, AloneKept
<1>12. ASSUME NEW f \in Findings, NEW file \in Files, FileAppears(f, file)
       PROVE  Alone' /\ muddled \subseteq muddled'
  BY <1>12 DEF FileAppears, Alone, AtWork
<1>13. ASSUME JournalCrash, QuarCrash PROVE Alone' /\ muddled \subseteq muddled'
  BY <1>0, <1>13, QuarCrashFacts DEF QuarCrash, Alone
<1>14. CASE UNCHANGED <<journalVars, quarVars>>
  BY <1>14 DEF journalVars, quarVars, Alone, AtWork
<1> QED
  BY <1>1, <1>2, <1>3, <1>4, <1>5, <1>6, <1>7, <1>8, <1>9, <1>10, <1>11, <1>12, <1>13, <1>14
  DEF QuarNext

-----------------------------------------------------------------------------
(* Every file is at its source or in the quarantine.                        *)

\* i is an active line about f.
Active(i, f) == items[i] # None /\ items[i].finding = f /\ items[i].state = "active"

\* What active lines of f, and the transitions under way, are about is the file
\* that is in the place of f; the source is free when a restore moves it back.
LinesOf(f) == \A i \in Items : Active(i, f) => stored[f] \in {None, items[i].file}
TodoOf(c, f) == pc[c] \in Transits =>
                    \A t \in mem[c].todo : t[2].finding = f => stored[f] \in {None, t[2].file}
FreeFor(c, f) == pc[c] = "t_move" /\ mem[c].finding = f => source[f] = None
Whole(f) == \A g \in Files : origin[g] = f => g \in {source[f], stored[f]} \cup destroyed

Placed(f) ==
    /\ LinesOf(f)
    /\ \A c \in Callers : TodoOf(c, f) /\ FreeFor(c, f)
    /\ Whole(f)

FilesPlaced == \A f \in Findings \ muddled : Placed(f)

\* Nobody else has to do with a finding a caller works on.
LEMMA NotOthers ==
  ASSUME QuarTypes, QuarTypes', Alone', NEW c \in Callers, Moves(c), NEW f \in AtWork(c)',
         f \notin muddled'
  PROVE  \A d \in Callers \ {c} :
            /\ pc'[d] \in Transits => \A t \in mem'[d].todo : t[2].finding # f
            /\ pc'[d] \in {"q_append", "t_move", "t_append"} => mem'[d].finding # f
<1>1. \A d \in Callers \ {c} : pc'[d] = pc[d] /\ mem'[d] = mem[d] /\ AtWork(d)' = AtWork(d)
  BY QuarOthers DEF QuarTypes, AtWork
<1>2. \A d \in Callers \ {c} : f \notin AtWork(d)
  BY <1>1 DEF Alone
<1> QED
  BY <1>1, <1>2, Engaged

\* A step that leaves the place, the source and the lines of a finding alone.
LEMMA Untouched ==
  ASSUME QuarTypes, NEW c \in Callers, Moves(c), NEW f \in Findings, Placed(f),
         source'[f] = source[f], stored'[f] = stored[f], origin' = origin,
         destroyed \subseteq destroyed', TodoOf(c, f)', FreeFor(c, f)',
         \A i \in Items : Active(i, f)' => Active(i, f) /\ items'[i].file = items[i].file
  PROVE  Placed(f)'
<1>1. \A d \in Callers \ {c} : pc'[d] = pc[d] /\ mem'[d] = mem[d]
  BY QuarOthers DEF QuarTypes
<1>2. LinesOf(f)'
  BY DEF Placed, LinesOf
<1>3. \A d \in Callers : TodoOf(d, f)' /\ FreeFor(d, f)'
  BY <1>1 DEF Placed, TodoOf, FreeFor
<1>4. Whole(f)'
  BY DEF Placed, Whole
<1> QED
  BY <1>2, <1>3, <1>4 DEF Placed

LEMMA StillEngaged ==
  ASSUME QuarTypes', NEW d \in Callers
  PROVE  pc'[d] \in {"q_append", "t_move", "t_append"} => mem'[d].finding \in AtWork(d)'
<1>1. CASE pc'[d] \in {"q_append", "t_move", "t_append"}
  <2>1. mem'[d] \in QuarMemory /\ mem'[d].finding \in mem'[d].busy
    BY <1>1 DEF QuarTypes, QuarCallers, QuarFitting
  <2>2. mem'[d] # None /\ "busy" \in DOMAIN mem'[d]
    BY <2>1, NoFileAssumption DEF QuarMemory
  <2> QED
    BY <2>1, <2>2 DEF AtWork
<1> QED
  BY <1>1

LEMMA FilesStayPlaced ==
  ASSUME QuarTypes, QuarTypes', Alone, Alone', FilesPlaced, [QuarNext]_<<journalVars, quarVars>>
  PROVE  FilesPlaced'
<1> SUFFICES ASSUME NEW f \in Findings, f \notin muddled' PROVE Placed(f)'
  BY DEF FilesPlaced
<1>0. f \notin muddled /\ Placed(f)
  BY QuarAlone DEF FilesPlaced
<1>1. ASSUME NEW c \in Callers,
             \/ \E chosen \in SUBSET Findings : StartQuarantine(c, chosen)
             \/ \E flow \in {"ignore", "release"} : \E chosen \in SUBSET Findings :
                   LoadIgnored(c, flow, chosen)
             \/ QuarantineRefused(c) \/ QuarEnd(c) \/ Ignore(c) \/ Release(c)
      PROVE  Placed(f)'
  <2>1. Moves(c) /\ pc'[c] \notin Transits
    BY <1>1, StartQuarantineFacts, LoadFacts, RefusedFacts, QuarLeaveFacts
       DEF QuarEnd, Ignore, Release, Saves, Transits
  <2>2. UNCHANGED <<source, stored, items, origin, destroyed>>
    BY <1>1 DEF StartQuarantine, LoadIgnored, QuarantineRefused, QuarEnd, Ignore, Release, places,
                marks, quarVars
  <2>3. TodoOf(c, f)' /\ FreeFor(c, f)'
    BY <2>1 DEF TodoOf, FreeFor, Transits
  <2> QED
    BY <1>0, <2>1, <2>2, <2>3, Untouched DEF Active
<1>2. ASSUME NEW c \in Callers, NEW target \in {"restored", "deleted"}, NEW ids \in SUBSET Items,
             StartTransition(c, target, ids)
      PROVE  Placed(f)'
  <2>1. Moves(c) /\ pc'[c] = "t_item"
    BY <1>2, StartTransitionFacts
  <2>2. PICK chosen \in SUBSET Items :
          /\ \A i \in chosen : items[i] # None /\ items[i].state = "active"
          /\ mem'[c].todo = {<<i, items[i]>> : i \in chosen}
    BY <1>2, StartTransitionFacts
  <2>3. UNCHANGED <<source, stored, items, origin, destroyed>>
    BY <1>2 DEF StartTransition, places, marks
  <2>4. TodoOf(c, f)' /\ FreeFor(c, f)'
    BY <1>0, <2>1, <2>2, <2>3 DEF TodoOf, FreeFor, Placed, LinesOf, Active
  <2> QED
    BY <1>0, <2>1, <2>3, <2>4, Untouched DEF Active
<1>3. ASSUME NEW c \in Callers, QuarantineMove(c) PROVE Placed(f)'
  <2>1. Moves(c) /\ pc'[c] = "q_append" /\ mem'[c].busy = mem[c].busy
    BY <1>3, MoveFacts
  <2>2. PICK o \in Findings :
          /\ mem'[c].finding = o /\ source[o] # None
          /\ stored' = [stored EXCEPT ![o] = source[o]]
          /\ source' = [source EXCEPT ![o] = None]
          /\ muddled' = IF stored[o] = None /\ ~Outdated(o) THEN muddled ELSE muddled \cup {o}
    BY <1>3, MoveFacts
  <2>3. UNCHANGED <<items, origin, destroyed>>
    BY <1>3 DEF QuarantineMove
  <2>4. TodoOf(c, f)' /\ FreeFor(c, f)'
    BY <2>1 DEF TodoOf, FreeFor, Transits
  <2>5. CASE f # o
    BY <1>0, <2>1, <2>2, <2>3, <2>4, <2>5, Untouched DEF Active, QuarTypes, QuarTypeOK
  <2>6. CASE f = o
    <3>1. stored[f] = None /\ ~Outdated(f) /\ stored'[f] = source[f] /\ source'[f] = None
      BY <2>2, <2>6 DEF QuarTypes, QuarTypeOK
    <3>2. LinesOf(f)'
      BY <2>3, <3>1 DEF LinesOf, Active, Outdated
    <3>3. f \in AtWork(c)'
      BY <2>1, <2>2, <2>6, StillEngaged
    <3>4. \A d \in Callers : TodoOf(d, f)' /\ FreeFor(d, f)'
      BY <2>1, <2>4, <3>3, NotOthers DEF TodoOf, FreeFor
    <3>5. Whole(f)'
      BY <1>0, <2>3, <3>1, NoFileAssumption DEF Placed, Whole
    <3> QED
      BY <3>2, <3>4, <3>5 DEF Placed
  <2> QED
    BY <2>5, <2>6
<1>4. ASSUME NEW c \in Callers, QuarantineAppend(c) PROVE Placed(f)'
  <2>1. /\ Moves(c) /\ pc'[c] = "q_item" /\ mem[c].finding \in Findings /\ mem[c].item \in Items
    BY <1>4, AppendFacts
  <2>2. UNCHANGED <<source, stored, origin, destroyed>>
    BY <1>4 DEF QuarantineAppend, places
  <2>3. TodoOf(c, f)' /\ FreeFor(c, f)'
    BY <2>1 DEF TodoOf, FreeFor, Transits
  <2>4. UNCHANGED items \/ items' = [items EXCEPT ![mem[c].item] =
            [finding |-> mem[c].finding, file |-> stored[mem[c].finding], state |-> "active"]]
    BY <1>4 DEF QuarantineAppend, Appended
  <2>5. LinesOf(f)'
    BY <1>0, <2>1, <2>2, <2>4 DEF Placed, LinesOf, Active, QuarTypes, QuarTypeOK
  <2>6. \A d \in Callers : TodoOf(d, f)' /\ FreeFor(d, f)'
    <3>1. \A d \in Callers \ {c} : pc'[d] = pc[d] /\ mem'[d] = mem[d]
      BY <2>1, QuarOthers DEF QuarTypes
    <3> QED
      BY <1>0, <2>2, <2>3, <3>1 DEF Placed, TodoOf, FreeFor
  <2>7. Whole(f)'
    BY <1>0, <2>2 DEF Placed, Whole
  <2> QED
    BY <2>5, <2>6, <2>7 DEF Placed
<1>5. ASSUME NEW c \in Callers, RestoreCheck(c) PROVE Placed(f)'
  <2>1. Moves(c) /\ pc[c] = "t_item"
    BY <1>5, CheckFacts
  <2>2. PICK t \in mem[c].todo :
          /\ mem'[c].todo = mem[c].todo \ {t}
          /\ \/ pc'[c] = "t_item"
             \/ /\ pc'[c] = "t_move" /\ mem'[c].item = t[1] /\ mem'[c].finding = t[2].finding
                /\ stored[t[2].finding] # None /\ SourceFree(t[2].finding)
    BY <1>5, CheckFacts
  <2>3. UNCHANGED <<source, stored, items, origin, destroyed>>
    BY <1>5 DEF RestoreCheck, quarVars
  <2>4. TodoOf(c, f)' /\ FreeFor(c, f)'
    BY <1>0, <2>1, <2>2, <2>3 DEF TodoOf, FreeFor, Placed, SourceFree, Transits
  <2> QED
    BY <1>0, <2>1, <2>3, <2>4, Untouched DEF Active
<1>6. ASSUME NEW c \in Callers, RestoreMove(c) PROVE Placed(f)'
  <2> DEFINE o == mem[c].finding
  <2>1. /\ Moves(c) /\ pc[c] = "t_move" /\ mem' = mem /\ o \in Findings
        /\ pc'[c] = IF stored[o] # None THEN "t_append" ELSE "t_item"
    BY <1>6, RestoreMoveFacts
  <2>2. UNCHANGED <<items, origin, destroyed>>
    BY <1>6 DEF RestoreMove
  <2>3. \/ stored[o] = None /\ UNCHANGED <<source, stored>>
        \/ /\ stored[o] # None
           /\ source' = [source EXCEPT ![o] = stored[o]] /\ stored' = [stored EXCEPT ![o] = None]
    BY <1>6 DEF RestoreMove, places
  <2>4. TodoOf(c, f)' /\ FreeFor(c, f)'
    BY <1>0, <2>1, <2>3 DEF TodoOf, FreeFor, Placed, Transits, QuarTypes, QuarTypeOK
  <2>5. CASE f # o \/ stored[o] = None
    <3>1. source'[f] = source[f] /\ stored'[f] = stored[f]
      BY <2>1, <2>3, <2>5 DEF QuarTypes, QuarTypeOK
    <3> QED
      BY <1>0, <2>1, <2>2, <2>4, <3>1, Untouched DEF Active
  <2>6. CASE f = o /\ stored[o] # None
    <3>1. source[f] = None /\ source'[f] = stored[f] /\ stored'[f] = None
      BY <1>0, <2>1, <2>3, <2>6 DEF Placed, FreeFor, QuarTypes, QuarTypeOK
    <3>2. LinesOf(f)'
      BY <3>1 DEF LinesOf
    <3>3. \A d \in Callers : TodoOf(d, f)'
      BY <3>1 DEF TodoOf
    <3>4. f \in AtWork(c)'
      BY <1>6, <2>1, <2>6, Engaged DEF AtWork
    <3>5. \A d \in Callers : FreeFor(d, f)'
      BY <2>1, <2>4, <3>4, NotOthers DEF FreeFor
    <3>6. Whole(f)'
      BY <1>0, <2>2, <3>1, NoFileAssumption DEF Placed, Whole
    <3> QED
      BY <3>2, <3>3, <3>5, <3>6 DEF Placed
  <2> QED
    BY <2>5, <2>6
<1>7. ASSUME NEW c \in Callers, DeleteFile(c) PROVE Placed(f)'
  <2>1. Moves(c) /\ pc[c] = "t_item" /\ pc'[c] = "t_append"
    BY <1>7, DeleteFacts
  <2>2. PICK t \in mem[c].todo :
          /\ mem'[c].todo = mem[c].todo \ {t} /\ t[2].finding \in Findings
          /\ stored' = Unlinked(t[2].finding)
          /\ destroyed' = destroyed \cup ({t[2].file} \cap {stored[t[2].finding]})
    BY <1>7, DeleteFacts
  <2>3. UNCHANGED <<source, items, origin>>
    BY <1>7 DEF DeleteFile
  <2>4. \A g \in Findings : stored'[g] = IF g = t[2].finding THEN None ELSE stored[g]
    BY <2>2 DEF Unlinked, QuarTypes, QuarTypeOK
  <2>5. TodoOf(c, f)' /\ FreeFor(c, f)'
    BY <1>0, <2>1, <2>2, <2>4 DEF TodoOf, FreeFor, Placed, Transits
  <2>6. CASE f # t[2].finding
    <3>1. stored'[f] = stored[f]
      BY <2>4, <2>6
    <3> QED
      BY <1>0, <2>1, <2>2, <2>3, <2>5, <3>1, Untouched DEF Active
  <2>7. CASE f = t[2].finding
    <3>1. stored'[f] = None /\ stored[f] \in {None, t[2].file}
      BY <1>0, <2>1, <2>4, <2>7 DEF Placed, TodoOf, Transits
    <3>2. LinesOf(f)'
      BY <3>1 DEF LinesOf
    <3>3. \A d \in Callers \ {c} : pc'[d] = pc[d] /\ mem'[d] = mem[d]
      BY <2>1, QuarOthers DEF QuarTypes
    <3>4. \A d \in Callers : TodoOf(d, f)' /\ FreeFor(d, f)'
      BY <1>0, <2>3, <2>5, <3>1, <3>3 DEF Placed, TodoOf, FreeFor
    <3>5. Whole(f)'
      BY <1>0, <2>2, <2>3, <2>7, <3>1, NoFileAssumption DEF Placed, Whole
    <3> QED
      BY <3>2, <3>4, <3>5 DEF Placed
  <2> QED
    BY <2>6, <2>7
<1>8. ASSUME NEW c \in Callers, TransitionAppend(c) PROVE Placed(f)'
  <2>1. /\ Moves(c) /\ pc[c] = "t_append" /\ pc'[c] = "t_item" /\ mem'[c].todo = mem[c].todo
        /\ mem[c].flow \in {"restored", "deleted"}
        /\ mem[c].item \in Items /\ items[mem[c].item] \in Item
    BY <1>8, TransitionAppendFacts
  <2>2. UNCHANGED <<source, stored, origin, destroyed>>
    BY <1>8 DEF TransitionAppend, places
  <2>3. UNCHANGED items \/ items' = [items EXCEPT ![mem[c].item].state = mem[c].flow]
    BY <1>8 DEF TransitionAppend
  <2>4. TodoOf(c, f)' /\ FreeFor(c, f)'
    BY <1>0, <2>1, <2>2 DEF TodoOf, FreeFor, Placed, Transits
  <2>5. \A i \in Items : Active(i, f)' => Active(i, f) /\ items'[i].file = items[i].file
    BY <2>1, <2>3 DEF Active, Item, QuarTypes, QuarTypeOK
  <2> QED
    BY <1>0, <2>1, <2>2, <2>4, <2>5, Untouched
<1>9. ASSUME NEW o \in Findings, NEW file \in Files, FileAppears(o, file) PROVE Placed(f)'
  <2>1. UNCHANGED <<pc, mem, stored, items, destroyed>> /\ source[o] = None
    BY <1>9 DEF FileAppears
  <2>2. /\ source' = [source EXCEPT ![o] = file] /\ origin' = [origin EXCEPT ![file] = o]
        /\ \A c \in Callers : o \in AtWork(c) => o \in muddled'
    BY <1>9 DEF FileAppears
  <2>3. LinesOf(f)' /\ \A c \in Callers : TodoOf(c, f)'
    BY <1>0, <2>1 DEF Placed, LinesOf, TodoOf, Active
  <2>4. ASSUME NEW c \in Callers PROVE FreeFor(c, f)'
    BY <1>0, <2>1, <2>2, Engaged DEF Placed, FreeFor, QuarTypes, QuarTypeOK
  <2>5. Whole(f)'
    BY <1>0, <2>1, <2>2, NoFileAssumption DEF Placed, Whole, QuarTypes, QuarTypeOK
  <2> QED
    BY <2>3, <2>4, <2>5 DEF Placed
<1>10. ASSUME JournalCrash, QuarCrash PROVE Placed(f)'
  <2>1. UNCHANGED <<source, stored, items, origin, destroyed>>
    BY <1>10 DEF QuarCrash, places
  <2> QED
    BY <1>0, <1>10, <2>1, QuarCrashFacts
       DEF Placed, LinesOf, TodoOf, FreeFor, Whole, Active, Transits
<1>11. CASE UNCHANGED <<journalVars, quarVars>>
  BY <1>0, <1>11 DEF journalVars, quarVars, Placed, LinesOf, TodoOf, FreeFor, Whole, Active
<1> QED
  BY <1>1, <1>2, <1>3, <1>4, <1>5, <1>6, <1>7, <1>8, <1>9, <1>10, <1>11 DEF QuarNext

-----------------------------------------------------------------------------
(* The index of the quarantine agrees with the places.                      *)

\* An item id that was drawn has no line yet, and is not drawn again.
Drawn ==
    \A c \in Callers : pc[c] = "q_append" =>
        /\ items[mem[c].item] = None
        /\ \A d \in Callers \ {c} : pc[d] = "q_append" => mem[d].item # mem[c].item

\* The lines a transition works on are about the findings it works on.
SameFinding(c) ==
    pc[c] \in Transits =>
        /\ \A t \in mem[c].todo : items[t[1]].finding = t[2].finding
        /\ pc[c] # "t_item" => items[mem[c].item].finding = mem[c].finding

Lined == Drawn /\ \A c \in Callers : SameFinding(c)

\* What a step of c may do to lines: new ones for the id it drew, and old ones
\* stay about their finding.
LinesSteady(c) ==
    \A i \in Items : \/ items'[i] = items[i]
                     \/ items[i] # None /\ items'[i].finding = items[i].finding
                     \/ items[i] = None /\ pc[c] = "q_append" /\ i = mem[c].item

LEMMA LinedKept ==
  ASSUME QuarTypes, Lined, NEW c \in Callers, Moves(c), pc'[c] # "q_append", SameFinding(c)',
         LinesSteady(c)
  PROVE  Lined'
<1>1. \A d \in Callers \ {c} : pc'[d] = pc[d] /\ mem'[d] = mem[d]
  BY QuarOthers DEF QuarTypes
<1>2. \A d \in Callers : pc[d] = "q_append" => mem[d].item \in Items
  BY DEF QuarTypes, QuarCallers, QuarFitting
<1>3. Drawn'
  BY <1>1, <1>2 DEF Lined, Drawn, LinesSteady
<1>4. ASSUME NEW d \in Callers \ {c} PROVE SameFinding(d)'
  <2>1. pc[d] \in Transits =>
          /\ \A t \in mem[d].todo : t[1] \in Items /\ items[t[1]] # None
          /\ pc[d] # "t_item" => mem[d].item \in Items /\ items[mem[d].item] # None
    BY DEF QuarTypes, QuarCallers, QuarFitting, LinesThere, Transits
  <2> QED
    BY <1>1, <2>1 DEF Lined, SameFinding, LinesSteady
<1> QED
  BY <1>3, <1>4 DEF Lined

LEMMA QuarLined ==
  ASSUME QuarTypes, Lined, [QuarNext]_<<journalVars, quarVars>>
  PROVE  Lined'
<1>1. ASSUME NEW c \in Callers,
             \/ \E chosen \in SUBSET Findings : StartQuarantine(c, chosen)
             \/ \E flow \in {"ignore", "release"} : \E chosen \in SUBSET Findings :
                   LoadIgnored(c, flow, chosen)
             \/ QuarantineRefused(c) \/ QuarEnd(c) \/ Ignore(c) \/ Release(c)
      PROVE  Lined'
  <2>1. Moves(c) /\ pc'[c] \notin Transits /\ pc'[c] # "q_append"
    BY <1>1, StartQuarantineFacts, LoadFacts, RefusedFacts, QuarLeaveFacts
       DEF QuarEnd, Ignore, Release, Saves, Transits
  <2>2. UNCHANGED items
    BY <1>1 DEF StartQuarantine, LoadIgnored, QuarantineRefused, QuarEnd, Ignore, Release, quarVars
  <2> QED
    BY <2>1, <2>2, LinedKept DEF SameFinding, LinesSteady
<1>2. ASSUME NEW c \in Callers, NEW target \in {"restored", "deleted"}, NEW ids \in SUBSET Items,
             StartTransition(c, target, ids)
      PROVE  Lined'
  <2>1. Moves(c) /\ pc'[c] = "t_item"
    BY <1>2, StartTransitionFacts
  <2>2. \E chosen \in SUBSET Items : mem'[c].todo = {<<i, items[i]>> : i \in chosen}
    BY <1>2, StartTransitionFacts
  <2>3. UNCHANGED items
    BY <1>2 DEF StartTransition
  <2>4. SameFinding(c)'
    BY <2>1, <2>2, <2>3 DEF SameFinding
  <2> QED
    BY <2>1, <2>3, <2>4, LinedKept DEF LinesSteady
<1>3. ASSUME NEW c \in Callers, QuarantineMove(c) PROVE Lined'
  <2>1. Moves(c) /\ pc'[c] = "q_append"
    BY <1>3, MoveFacts
  <2>2. /\ mem'[c].item \in Items /\ items[mem'[c].item] = None
        /\ \A d \in Callers : mem[d] # None => mem[d].item # mem'[c].item
    BY <1>3, MoveFacts
  <2>3. UNCHANGED items
    BY <1>3 DEF QuarantineMove
  <2>4. \A d \in Callers \ {c} : pc'[d] = pc[d] /\ mem'[d] = mem[d]
    BY <2>1, QuarOthers DEF QuarTypes
  <2>5. \A d \in Callers : pc[d] = "q_append" => mem[d] # None
    BY WorkFacts DEF QuarTypes
  <2>6. Drawn'
    BY <2>1, <2>2, <2>3, <2>4, <2>5 DEF Lined, Drawn
  <2> QED
    BY <2>1, <2>3, <2>4, <2>6 DEF Lined, SameFinding, Transits
<1>4. ASSUME NEW c \in Callers, QuarantineAppend(c) PROVE Lined'
  <2>1. Moves(c) /\ pc[c] = "q_append" /\ pc'[c] = "q_item" /\ mem[c].item \in Items
    BY <1>4, AppendFacts
  <2>2. items[mem[c].item] = None
    BY <2>1 DEF Lined, Drawn
  <2>3. UNCHANGED items \/ \E line : items' = [items EXCEPT ![mem[c].item] = line]
    BY <1>4 DEF QuarantineAppend, Appended
  <2>4. SameFinding(c)'
    BY <2>1 DEF SameFinding, Transits
  <2>5. \A i \in Items : i # mem[c].item => items'[i] = items[i]
    BY <2>1, <2>3 DEF QuarTypes, QuarTypeOK
  <2> QED
    BY <2>1, <2>2, <2>4, <2>5, LinedKept DEF LinesSteady
<1>5. ASSUME NEW c \in Callers, RestoreCheck(c) PROVE Lined'
  <2>1. Moves(c) /\ pc[c] = "t_item"
    BY <1>5, CheckFacts
  <2>2. PICK t \in mem[c].todo :
          /\ mem'[c].todo = mem[c].todo \ {t}
          /\ \/ pc'[c] = "t_item"
             \/ /\ pc'[c] = "t_move" /\ mem'[c].item = t[1] /\ mem'[c].finding = t[2].finding
                /\ stored[t[2].finding] # None /\ SourceFree(t[2].finding)
    BY <1>5, CheckFacts
  <2>3. UNCHANGED items
    BY <1>5 DEF RestoreCheck, quarVars
  <2>4. SameFinding(c)'
    BY <2>1, <2>2, <2>3 DEF Lined, SameFinding, Transits
  <2>5. pc'[c] # "q_append"
    BY <2>2
  <2> QED
    BY <2>1, <2>3, <2>4, <2>5, LinedKept DEF LinesSteady
<1>6. ASSUME NEW c \in Callers, RestoreMove(c) PROVE Lined'
  <2>1. Moves(c) /\ pc[c] = "t_move" /\ mem' = mem /\ pc'[c] \in Transits /\ pc'[c] # "q_append"
    BY <1>6, RestoreMoveFacts DEF Transits
  <2>2. UNCHANGED items
    BY <1>6 DEF RestoreMove
  <2> QED
    BY <2>1, <2>2, LinedKept DEF Lined, SameFinding, Transits, LinesSteady
<1>7. ASSUME NEW c \in Callers, DeleteFile(c) PROVE Lined'
  <2>1. Moves(c) /\ pc[c] = "t_item" /\ pc'[c] = "t_append"
    BY <1>7, DeleteFacts
  <2>2. PICK t \in mem[c].todo : /\ mem'[c].todo = mem[c].todo \ {t} /\ mem'[c].item = t[1]
                                 /\ mem'[c].finding = t[2].finding
    BY <1>7, DeleteFacts
  <2>3. UNCHANGED items
    BY <1>7 DEF DeleteFile
  <2>4. SameFinding(c)'
    BY <2>1, <2>2, <2>3 DEF Lined, SameFinding, Transits
  <2> QED
    BY <2>1, <2>3, <2>4, LinedKept DEF LinesSteady
<1>8. ASSUME NEW c \in Callers, TransitionAppend(c) PROVE Lined'
  <2>1. /\ Moves(c) /\ pc[c] = "t_append" /\ pc'[c] = "t_item" /\ mem'[c].todo = mem[c].todo
        /\ mem[c].item \in Items /\ items[mem[c].item] \in Item
    BY <1>8, TransitionAppendFacts
  <2>2. UNCHANGED items \/ items' = [items EXCEPT ![mem[c].item].state = mem[c].flow]
    BY <1>8 DEF TransitionAppend
  <2>3. \A i \in Items : /\ items[i] # None => items'[i].finding = items[i].finding
                         /\ i # mem[c].item => items'[i] = items[i]
    BY <2>1, <2>2 DEF QuarTypes, QuarTypeOK, Item
  <2>4. \A t \in mem[c].todo : t[1] \in Items /\ items[t[1]] # None
    BY <2>1 DEF QuarTypes, QuarCallers, QuarFitting, LinesThere, Transits
  <2>5. SameFinding(c)'
    BY <2>1, <2>3, <2>4 DEF Lined, SameFinding, Transits
  <2>6. items[mem[c].item] # None
    BY <2>1, NoFileAssumption
  <2> QED
    BY <2>1, <2>3, <2>5, <2>6, LinedKept DEF LinesSteady
<1>9. ASSUME NEW f \in Findings, NEW file \in Files, FileAppears(f, file) PROVE Lined'
  BY <1>9 DEF FileAppears, Lined, Drawn, SameFinding
<1>10. ASSUME JournalCrash, QuarCrash PROVE Lined'
  BY <1>10, QuarCrashFacts DEF Lined, Drawn, SameFinding, Transits
<1>11. CASE UNCHANGED <<journalVars, quarVars>>
  BY <1>11 DEF journalVars, quarVars, Lined, Drawn, SameFinding
<1> QED
  BY <1>1, <1>2, <1>3, <1>4, <1>5, <1>6, <1>7, <1>8, <1>9, <1>10, <1>11 DEF QuarNext

-----------------------------------------------------------------------------
(* Exactly the places with an active line have a file.                      *)

\* c has done something to the place of f that the index does not tell yet.
Mid(c, f) == pc[c] \in {"q_append", "t_append"} /\ mem[c].finding = f

OneLine(f) == \A i, j \in Items : Active(i, f) /\ Active(j, f) => i = j
Agrees(f) == (\A c \in Callers : ~Mid(c, f)) => (stored[f] # None <=> \E i \in Items : Active(i, f))

\* How the place and the lines of f stand to each other while c is at work on f.
Half(c, f) ==
    /\ pc[c] = "q_append" /\ mem[c].finding = f => stored[f] # None /\ \A i \in Items : ~Active(i, f)
    /\ pc[c] = "t_append" /\ mem[c].finding = f => stored[f] = None /\ Active(mem[c].item, f)
    /\ pc[c] = "t_move" /\ mem[c].finding = f => stored[f] # None /\ Active(mem[c].item, f)
    /\ pc[c] \in Transits =>
          \A t \in mem[c].todo : t[2].finding = f => /\ Active(t[1], f)
                                                     /\ pc[c] # "t_item" => mem[c].finding # f

Indexed(f) == OneLine(f) /\ Agrees(f) /\ \A c \in Callers : Half(c, f)

AllIndexed == \A f \in Findings \ (muddled \cup stranded) : Indexed(f)

\* A step that leaves the place and the lines of a finding alone.
LEMMA IndexUntouched ==
  ASSUME QuarTypes, NEW c \in Callers, Moves(c), NEW f \in Findings, Indexed(f),
         stored'[f] = stored[f], \A i \in Items : Active(i, f)' <=> Active(i, f),
         Half(c, f)', Mid(c, f) => Mid(c, f)'
  PROVE  Indexed(f)'
<1>1. \A d \in Callers \ {c} : pc'[d] = pc[d] /\ mem'[d] = mem[d]
  BY QuarOthers DEF QuarTypes
<1>2. OneLine(f)'
  BY DEF Indexed, OneLine
<1>3. \A d \in Callers : Mid(d, f) => Mid(d, f)'
  BY <1>1 DEF Mid
<1>4. Agrees(f)'
  BY <1>3 DEF Indexed, Agrees
<1>5. ASSUME NEW d \in Callers \ {c} PROVE Half(d, f)'
  <2>1. Half(d, f)
    BY DEF Indexed
  <2>2. /\ pc[d] \in {"t_move", "t_append"} => mem[d].item \in Items
        /\ pc[d] \in Transits => \A t \in mem[d].todo : t[1] \in Items
    BY DEF QuarTypes, QuarCallers, QuarFitting, Transits
  <2>3. pc'[d] = pc[d] /\ mem'[d] = mem[d]
    BY <1>1
  <2> QED
    BY <2>1, <2>2, <2>3 DEF Half
<1> QED
  BY <1>2, <1>4, <1>5 DEF Indexed

\* What a caller other than c is at work on is not f, when c is at work on f.
LEMMA HalfOthers ==
  ASSUME QuarTypes, QuarTypes', Alone', NEW c \in Callers, Moves(c), NEW f \in AtWork(c)',
         f \notin muddled', NEW d \in Callers \ {c}
  PROVE  Half(d, f)' /\ ~Mid(d, f)' /\ ~Mid(d, f)
<1>1. /\ pc'[d] \in Transits => \A t \in mem'[d].todo : t[2].finding # f
      /\ pc'[d] \in {"q_append", "t_move", "t_append"} => mem'[d].finding # f
  BY NotOthers
<1>2. pc'[d] = pc[d] /\ mem'[d] = mem[d]
  BY QuarOthers DEF QuarTypes
<1> QED
  BY <1>1, <1>2 DEF Half, Mid

LEMMA StrandedStay ==
  ASSUME [QuarNext]_<<journalVars, quarVars>>
  PROVE  stranded \subseteq stranded'
<1>1. ASSUME NEW c \in Callers,
             \/ \E chosen \in SUBSET Findings : StartQuarantine(c, chosen)
             \/ \E flow \in {"ignore", "release"} : \E chosen \in SUBSET Findings :
                   LoadIgnored(c, flow, chosen)
             \/ \E ids \in SUBSET Items : \E target \in {"restored", "deleted"} :
                   StartTransition(c, target, ids)
             \/ QuarantineRefused(c) \/ QuarantineMove(c) \/ RestoreCheck(c) \/ RestoreMove(c)
             \/ DeleteFile(c) \/ QuarEnd(c) \/ Ignore(c) \/ Release(c)
      PROVE  UNCHANGED stranded
  BY <1>1 DEF StartQuarantine, LoadIgnored, StartTransition, QuarantineRefused, QuarantineMove,
              RestoreCheck, RestoreMove, DeleteFile, QuarEnd, Ignore, Release, quarVars
<1>2. ASSUME NEW c \in Callers, QuarantineAppend(c) \/ TransitionAppend(c)
      PROVE  stranded \subseteq stranded'
  BY <1>2 DEF QuarantineAppend, TransitionAppend
<1>3. ASSUME NEW f \in Findings, NEW file \in Files, FileAppears(f, file) PROVE UNCHANGED stranded
  BY <1>3 DEF FileAppears
<1>4. ASSUME QuarCrash PROVE stranded \subseteq stranded'
  BY <1>4 DEF QuarCrash
<1>5. CASE UNCHANGED <<journalVars, quarVars>>
  BY <1>5 DEF quarVars
<1> QED
  BY <1>1, <1>2, <1>3, <1>4, <1>5 DEF QuarNext

LEMMA IndexStays ==
  ASSUME QuarTypes, QuarTypes', Alone, Alone', Lined, AllIndexed, [QuarNext]_<<journalVars, quarVars>>
  PROVE  AllIndexed'
<1> SUFFICES ASSUME NEW f \in Findings, f \notin muddled', f \notin stranded' PROVE Indexed(f)'
  BY DEF AllIndexed
<1>0. f \notin muddled /\ f \notin stranded /\ Indexed(f)
  BY QuarAlone, StrandedStay DEF AllIndexed
<1>1. ASSUME NEW c \in Callers,
             \/ \E chosen \in SUBSET Findings : StartQuarantine(c, chosen)
             \/ \E flow \in {"ignore", "release"} : \E chosen \in SUBSET Findings :
                   LoadIgnored(c, flow, chosen)
             \/ QuarantineRefused(c) \/ QuarEnd(c) \/ Ignore(c) \/ Release(c)
      PROVE  Indexed(f)'
  <2>1. Moves(c) /\ pc'[c] \notin Transits /\ pc'[c] # "q_append"
    BY <1>1, StartQuarantineFacts, LoadFacts, RefusedFacts, QuarLeaveFacts
       DEF QuarEnd, Ignore, Release, Saves, Transits
  <2>2. UNCHANGED <<stored, items>>
    BY <1>1 DEF StartQuarantine, LoadIgnored, QuarantineRefused, QuarEnd, Ignore, Release, places,
                quarVars
  <2>3. pc[c] \notin {"q_append", "t_append"}
    BY <1>1 DEF StartQuarantine, LoadIgnored, QuarantineRefused, QuarEnd, Ignore, Release, Call
  <2>4. Half(c, f)'
    BY <2>1 DEF Half, Transits
  <2> QED
    BY <1>0, <2>1, <2>2, <2>3, <2>4, IndexUntouched DEF Active, Mid
<1>2. ASSUME NEW c \in Callers, NEW target \in {"restored", "deleted"}, NEW ids \in SUBSET Items,
             StartTransition(c, target, ids)
      PROVE  Indexed(f)'
  <2>1. Moves(c) /\ pc[c] = "idle" /\ pc'[c] = "t_item"
    BY <1>2, StartTransitionFacts
  <2>2. PICK chosen \in SUBSET Items :
          /\ \A i \in chosen : items[i] # None /\ items[i].state = "active"
          /\ mem'[c].todo = {<<i, items[i]>> : i \in chosen}
    BY <1>2, StartTransitionFacts
  <2>3. UNCHANGED <<stored, items>>
    BY <1>2 DEF StartTransition, places
  <2>4. Half(c, f)'
    BY <2>1, <2>2, <2>3 DEF Half, Active
  <2> QED
    BY <1>0, <2>1, <2>3, <2>4, IndexUntouched DEF Active, Mid
<1>3. ASSUME NEW c \in Callers, QuarantineMove(c) PROVE Indexed(f)'
  <2>1. Moves(c) /\ pc[c] = "q_item" /\ pc'[c] = "q_append" /\ mem'[c].busy = mem[c].busy
    BY <1>3, MoveFacts
  <2>2. PICK o \in Findings :
          /\ mem'[c].finding = o /\ source[o] # None
          /\ stored' = [stored EXCEPT ![o] = source[o]]
          /\ muddled' = IF stored[o] = None /\ ~Outdated(o) THEN muddled ELSE muddled \cup {o}
    BY <1>3, MoveFacts
  <2>3. UNCHANGED items
    BY <1>3 DEF QuarantineMove
  <2>4. CASE f # o
    <3>1. Half(c, f)'
      BY <2>1, <2>2, <2>4 DEF Half, Transits
    <3>2. stored'[f] = stored[f]
      BY <2>2, <2>4 DEF QuarTypes, QuarTypeOK
    <3> QED
      BY <1>0, <2>1, <2>3, <3>1, <3>2, IndexUntouched DEF Active, Mid
  <2>5. CASE f = o
    <3>1. f \in AtWork(c)'
      BY <2>1, <2>2, <2>5, StillEngaged
    <3>2. \A d \in Callers \ {c} : Half(d, f)' /\ ~Mid(d, f)
      BY <2>1, <3>1, HalfOthers
    <3>3. stored[f] = None /\ stored'[f] # None
      BY <2>2, <2>5 DEF QuarTypes, QuarTypeOK
    <3>4. \A i \in Items : ~Active(i, f)
      BY <1>0, <2>1, <3>2, <3>3 DEF Indexed, Agrees, Mid
    <3>5. Half(c, f)' /\ OneLine(f)'
      BY <2>1, <2>3, <3>3, <3>4 DEF Half, OneLine, Active, Transits
    <3>6. Agrees(f)'
      BY <2>1, <2>2, <2>5 DEF Agrees, Mid
    <3> QED
      BY <3>2, <3>5, <3>6 DEF Indexed
  <2> QED
    BY <2>4, <2>5
<1>4. ASSUME NEW c \in Callers, QuarantineAppend(c) PROVE Indexed(f)'
  <2>1. /\ Moves(c) /\ pc[c] = "q_append" /\ pc'[c] = "q_item" /\ mem'[c].busy = mem[c].busy
        /\ mem[c].finding \in mem[c].busy /\ mem[c].finding \in Findings /\ mem[c].item \in Items
    BY <1>4, AppendFacts
  <2> DEFINE o == mem[c].finding
             k == mem[c].item
  <2>2. UNCHANGED stored
    BY <1>4 DEF QuarantineAppend, places
  <2>3. \/ stored[o] # None /\ items' = [items EXCEPT ![k] =
                                          [finding |-> o, file |-> stored[o], state |-> "active"]]
        \/ UNCHANGED items /\ o \in stranded'
    BY <1>4 DEF QuarantineAppend, Appended
  <2>4. items[k] = None
    BY <2>1 DEF Lined, Drawn
  <2>5. Half(c, f)'
    BY <2>1 DEF Half, Transits
  <2> HIDE DEF o, k
  <2>6. CASE f # o
    <3>1. \A i \in Items : Active(i, f)' <=> Active(i, f)
      <4>1. CASE UNCHANGED items
        BY <4>1 DEF Active
      <4>2. CASE items' = [items EXCEPT ![k] =
                             [finding |-> o, file |-> stored[o], state |-> "active"]]
        BY <2>4, <2>6, <4>2 DEF Active, QuarTypes, QuarTypeOK
      <4> QED
        BY <2>3, <4>1, <4>2
    <3>2. ~Mid(c, f)
      BY <2>6 DEF Mid, o
    <3> QED
      BY <1>0, <2>1, <2>2, <2>5, <3>1, <3>2, IndexUntouched
  <2>7. CASE f = o
    <3>1. stored[o] # None /\ items' = [items EXCEPT ![k] =
                                          [finding |-> o, file |-> stored[o], state |-> "active"]]
      BY <2>3, <2>7
    <3>2. k \in Items /\ \A i \in Items : ~Active(i, f)
      BY <1>0, <2>1, <2>7 DEF Indexed, Half, o, k
    <3>3. \A i \in Items : Active(i, f)' <=> i = k
      <4>1. items'[k] = [finding |-> o, file |-> stored[o], state |-> "active"]
            /\ \A i \in Items \ {k} : items'[i] = items[i]
        BY <3>1, <3>2 DEF QuarTypes, QuarTypeOK
      <4>2. items'[k] # None
        <5>1. items'[k] \in Item
          BY <2>1, <3>1, <4>1 DEF Item, QuarTypes, QuarTypeOK, o
        <5> QED
          BY <5>1, NoFileAssumption
      <4> QED
        BY <2>7, <3>2, <4>1, <4>2 DEF Active
    <3>4. f \in AtWork(c)'
      <4>1. mem'[c] \in QuarMemory
        BY <2>1 DEF QuarTypes, QuarCallers, QuarFitting
      <4>2. mem'[c] # None /\ "busy" \in DOMAIN mem'[c]
        BY <4>1, NoFileAssumption DEF QuarMemory
      <4> QED
        BY <2>1, <2>7, <4>2 DEF AtWork, o
    <3>5. \A d \in Callers \ {c} : Half(d, f)'
      BY <2>1, <3>4, HalfOthers
    <3>6. OneLine(f)' /\ Agrees(f)'
      BY <2>2, <2>7, <3>1, <3>2, <3>3 DEF OneLine, Agrees
    <3> QED
      BY <2>5, <3>5, <3>6 DEF Indexed
  <2> QED
    BY <2>6, <2>7
<1>5. ASSUME NEW c \in Callers, RestoreCheck(c) PROVE Indexed(f)'
  <2>1. Moves(c) /\ pc[c] = "t_item"
    BY <1>5, CheckFacts
  <2>2. PICK t \in mem[c].todo :
          /\ mem'[c].todo = mem[c].todo \ {t}
          /\ \/ pc'[c] = "t_item"
             \/ /\ pc'[c] = "t_move" /\ mem'[c].item = t[1] /\ mem'[c].finding = t[2].finding
                /\ stored[t[2].finding] # None /\ SourceFree(t[2].finding)
    BY <1>5, CheckFacts
  <2>3. UNCHANGED <<stored, items>>
    BY <1>5 DEF RestoreCheck, quarVars
  <2>4. \A u \in mem[c].todo : u[2].finding = f => Active(u[1], f)
    BY <1>0, <2>1 DEF Indexed, Half, Transits
  <2>5. /\ \A u \in mem[c].todo : u[1] \in Items
        /\ \A u \in mem[c].todo : u[1] = t[1] => u = t
    BY <2>1, <2>2 DEF QuarTypes, QuarCallers, QuarFitting, Transits
  <2>6. \A u \in mem'[c].todo : u[2].finding = f => Active(u[1], f)' /\ t[2].finding # f
    BY <1>0, <2>2, <2>3, <2>4, <2>5 DEF Indexed, OneLine, Active
  <2>7. Half(c, f)'
    BY <2>2, <2>3, <2>4, <2>6 DEF Half, Active
  <2> QED
    BY <1>0, <2>1, <2>3, <2>7, IndexUntouched DEF Active, Mid
<1>6. ASSUME NEW c \in Callers, RestoreMove(c) PROVE Indexed(f)'
  <2>1. /\ Moves(c) /\ pc[c] = "t_move" /\ mem' = mem
        /\ mem[c].finding \in mem[c].busy /\ mem[c].finding \in Findings
        /\ pc'[c] = IF stored[mem[c].finding] # None THEN "t_append" ELSE "t_item"
    BY <1>6, RestoreMoveFacts
  <2> DEFINE o == mem[c].finding
  <2>2. UNCHANGED items
    BY <1>6 DEF RestoreMove
  <2>3. stored' = IF stored[o] # None THEN [stored EXCEPT ![o] = None] ELSE stored
    BY <1>6 DEF RestoreMove, places
  <2>4. CASE f # o
    <3>1. Half(c, f)'
      BY <1>0, <2>1, <2>2, <2>4 DEF Indexed, Half, Active, Transits
    <3>2. stored'[f] = stored[f]
      BY <2>3, <2>4 DEF QuarTypes, QuarTypeOK
    <3> QED
      BY <1>0, <2>1, <2>2, <3>1, <3>2, IndexUntouched DEF Active, Mid
  <2>5. CASE f = o
    <3>1. stored[f] # None /\ Active(mem[c].item, f)
      BY <1>0, <2>1, <2>5 DEF Indexed, Half
    <3>2. pc'[c] = "t_append" /\ stored'[f] = None
      BY <2>1, <2>3, <2>5, <3>1 DEF QuarTypes, QuarTypeOK
    <3>3. f \in AtWork(c)'
      BY <2>1, <2>5, <3>2, StillEngaged
    <3>4. \A d \in Callers \ {c} : Half(d, f)'
      BY <2>1, <3>3, HalfOthers
    <3>5. Half(c, f)'
      BY <1>0, <2>1, <2>2, <3>1, <3>2 DEF Indexed, Half, Active, Transits
    <3>6. OneLine(f)' /\ Agrees(f)'
      BY <1>0, <2>1, <2>2, <2>5, <3>2 DEF Indexed, OneLine, Agrees, Mid, Active
    <3> QED
      BY <3>4, <3>5, <3>6 DEF Indexed
  <2> QED
    BY <2>4, <2>5
<1>7. ASSUME NEW c \in Callers, DeleteFile(c) PROVE Indexed(f)'
  <2>1. Moves(c) /\ pc[c] = "t_item" /\ pc'[c] = "t_append"
    BY <1>7, DeleteFacts
  <2>2. PICK t \in mem[c].todo :
          /\ mem'[c].todo = mem[c].todo \ {t} /\ mem'[c].item = t[1]
          /\ mem'[c].finding = t[2].finding /\ t[2].finding \in Findings
          /\ stored' = Unlinked(t[2].finding)
    BY <1>7, DeleteFacts
  <2>3. UNCHANGED items
    BY <1>7 DEF DeleteFile
  <2>4. \A g \in Findings : stored'[g] = IF g = t[2].finding THEN None ELSE stored[g]
    BY <2>2 DEF Unlinked, QuarTypes, QuarTypeOK
  <2>5. \A u \in mem[c].todo : u[2].finding = f => Active(u[1], f)
    BY <1>0, <2>1 DEF Indexed, Half, Transits
  <2>6. /\ \A u \in mem[c].todo : u[1] \in Items
        /\ \A u \in mem[c].todo : u[1] = t[1] => u = t
    BY <2>1, <2>2 DEF QuarTypes, QuarCallers, QuarFitting, Transits
  <2>7. \A u \in mem'[c].todo : u[2].finding = f => Active(u[1], f)' /\ t[2].finding # f
    BY <1>0, <2>2, <2>3, <2>5, <2>6 DEF Indexed, OneLine, Active
  <2>8. Half(c, f)'
    BY <2>1, <2>2, <2>3, <2>4, <2>5, <2>7 DEF Half, Active
  <2>9. CASE f # t[2].finding
    BY <1>0, <2>1, <2>3, <2>4, <2>8, <2>9, IndexUntouched DEF Active, Mid
  <2>10. CASE f = t[2].finding
    <3>1. f \in AtWork(c)'
      BY <2>1, <2>2, <2>10, StillEngaged
    <3>2. \A d \in Callers \ {c} : Half(d, f)'
      BY <2>1, <3>1, HalfOthers
    <3>3. OneLine(f)' /\ Agrees(f)'
      BY <1>0, <2>1, <2>2, <2>3, <2>10 DEF Indexed, OneLine, Agrees, Mid, Active
    <3> QED
      BY <2>8, <3>2, <3>3 DEF Indexed
  <2> QED
    BY <2>9, <2>10
<1>8. ASSUME NEW c \in Callers, TransitionAppend(c) PROVE Indexed(f)'
  <2>1. /\ Moves(c) /\ pc[c] = "t_append" /\ pc'[c] = "t_item" /\ mem'[c].todo = mem[c].todo
        /\ mem'[c].busy = mem[c].busy /\ mem[c].flow \in {"restored", "deleted"}
        /\ mem[c].item \in Items /\ items[mem[c].item] \in Item
        /\ mem[c].finding \in mem[c].busy /\ mem[c].finding \in Findings
    BY <1>8, TransitionAppendFacts
  <2> DEFINE o == mem[c].finding
             k == mem[c].item
  <2>2. UNCHANGED stored
    BY <1>8 DEF TransitionAppend, places
  <2>3. \/ items' = [items EXCEPT ![k].state = mem[c].flow]
        \/ UNCHANGED items /\ o \in stranded'
    BY <1>8 DEF TransitionAppend
  <2>4. items[k].finding = o
    BY <2>1 DEF Lined, SameFinding, Transits
  <2>5. \A u \in mem[c].todo :
           u[1] \in Items /\ (u[2].finding = f => Active(u[1], f) /\ o # f)
    BY <1>0, <2>1 DEF Indexed, Half, Transits, QuarTypes, QuarCallers, QuarFitting
  <2> HIDE DEF o, k
  <2>6. \A i \in Items : i # k => items'[i] = items[i]
    BY <2>3 DEF QuarTypes, QuarTypeOK
  <2>7. f # o => items'[k] = items[k] \/ (items'[k].finding = o /\ items[k].finding = o)
    <3>1. CASE items' = [items EXCEPT ![k].state = mem[c].flow]
      <4>1. items'[k].finding = items[k].finding
        BY <2>1, <3>1 DEF QuarTypes, QuarTypeOK, Item, k
      <4> QED
        BY <2>4, <4>1
    <3>2. CASE UNCHANGED items
      BY <3>2
    <3> QED
      BY <2>3, <3>1, <3>2
  <2>8. CASE f # o
    <3>1. \A i \in Items : Active(i, f)' <=> Active(i, f)
      BY <2>6, <2>7, <2>8 DEF Active
    <3>2. Half(c, f)'
      BY <2>1, <2>5, <3>1 DEF Half, Transits
    <3>3. ~Mid(c, f)
      BY <2>8 DEF Mid, o
    <3> QED
      BY <1>0, <2>1, <2>2, <3>1, <3>2, <3>3, IndexUntouched
  <2>9. CASE f = o
    <3>1. items' = [items EXCEPT ![k].state = mem[c].flow]
      BY <2>3, <2>9
    <3>2. stored[f] = None /\ Active(k, f) /\ k \in Items
      BY <1>0, <2>1, <2>9 DEF Indexed, Half, o, k
    <3>3. items'[k].state # "active"
      BY <2>1, <3>1 DEF QuarTypes, QuarTypeOK, Item, k
    <3>4. \A i \in Items : ~Active(i, f)'
      BY <1>0, <2>6, <3>2, <3>3 DEF Indexed, OneLine, Active
    <3>5. f \in AtWork(c)'
      <4>1. mem'[c] \in QuarMemory
        BY <2>1 DEF QuarTypes, QuarCallers, QuarFitting
      <4>2. mem'[c] # None /\ "busy" \in DOMAIN mem'[c]
        BY <4>1, NoFileAssumption DEF QuarMemory
      <4> QED
        BY <2>1, <2>9, <4>2 DEF AtWork, o
    <3>6. \A d \in Callers \ {c} : Half(d, f)'
      BY <2>1, <3>5, HalfOthers
    <3>7. Half(c, f)'
      BY <2>1, <2>5, <2>9 DEF Half, Transits
    <3>8. OneLine(f)' /\ Agrees(f)'
      BY <2>2, <3>2, <3>4 DEF OneLine, Agrees
    <3> QED
      BY <3>6, <3>7, <3>8 DEF Indexed
  <2> QED
    BY <2>8, <2>9
<1>9. ASSUME NEW o \in Findings, NEW file \in Files, FileAppears(o, file) PROVE Indexed(f)'
  BY <1>0, <1>9 DEF FileAppears, Indexed, OneLine, Agrees, Half, Mid, Active
<1>10. ASSUME JournalCrash, QuarCrash PROVE Indexed(f)'
  <2>1. UNCHANGED <<stored, items>> /\ stranded' = stranded \cup UNION {AtWork(c) : c \in Callers}
    BY <1>10 DEF QuarCrash, places
  <2>2. \A c \in Callers : ~Mid(c, f)
    BY <2>1, Engaged DEF Mid
  <2>3. \A c \in Callers : Half(c, f)'
    BY <1>10, QuarCrashFacts DEF Half, Transits
  <2>4. OneLine(f)' /\ Agrees(f)'
    BY <1>0, <2>1, <2>2 DEF Indexed, OneLine, Agrees, Active
  <2> QED
    BY <2>3, <2>4 DEF Indexed
<1>11. CASE UNCHANGED <<journalVars, quarVars>>
  BY <1>0, <1>11 DEF journalVars, quarVars, Indexed, OneLine, Agrees, Half, Mid, Active
<1> QED
  BY <1>1, <1>2, <1>3, <1>4, <1>5, <1>6, <1>7, <1>8, <1>9, <1>10, <1>11 DEF QuarNext

-----------------------------------------------------------------------------
(* The list of ignored findings.                                            *)

\* Unless a newer list was written over: the list has what is wanted, and who
\* is about to write one holds the list as it is.
Listed ==
    None \notin oldList =>
        /\ wanted = AlreadyIgnored(ignored)
        /\ \A c \in Callers : pc[c] = "i_save" /\ c \notin oldList => mem[c].list = ignored

\* A step that leaves the list and its writers alone.
LEMMA ListedKept ==
  ASSUME QuarTypes, Listed, NEW c \in Callers, Moves(c), UNCHANGED <<ignored, wanted, oldList>>,
         pc'[c] # "i_save"
  PROVE  Listed'
<1>1. \A d \in Callers \ {c} : pc'[d] = pc[d] /\ mem'[d] = mem[d]
  BY QuarOthers DEF QuarTypes
<1> QED
  BY <1>1 DEF Listed, AlreadyIgnored

\* Who writes the list held the one that was there, or a newer one is lost.
LEMMA SavedListed ==
  ASSUME QuarTypes, Listed, NEW c \in Callers, pc[c] = "i_save", NEW list, Saves(c, list),
         None \notin oldList'
  PROVE  /\ mem[c].list = ignored /\ wanted = AlreadyIgnored(ignored)
         /\ \A d \in Callers : pc'[d] = "i_save" => d \in oldList'
<1>1. c # None
  BY NoFileAssumption
<1>2. c \notin oldList /\ None \notin oldList
  BY <1>1 DEF Saves
<1>3. Moves(c) /\ pc'[c] = "idle"
  BY QuarLeaveFacts DEF Saves
<1>4. \A d \in Callers \ {c} : pc'[d] = pc[d]
  BY <1>3, QuarOthers DEF QuarTypes
<1>5. \A d \in Callers \ {c} : pc[d] = "i_save" => d \in oldList'
  BY DEF Saves
<1> QED
  BY <1>2, <1>3, <1>4, <1>5 DEF Listed

LEMMA QuarListed ==
  ASSUME QuarTypes, Listed, [QuarNext]_<<journalVars, quarVars>>
  PROVE  Listed'
<1>1. ASSUME NEW c \in Callers,
             \/ \E chosen \in SUBSET Findings : StartQuarantine(c, chosen)
             \/ \E ids \in SUBSET Items : \E target \in {"restored", "deleted"} :
                   StartTransition(c, target, ids)
             \/ QuarantineRefused(c) \/ QuarantineMove(c) \/ QuarantineAppend(c) \/ RestoreCheck(c)
             \/ RestoreMove(c) \/ DeleteFile(c) \/ TransitionAppend(c) \/ QuarEnd(c)
      PROVE  Listed'
  <2>1. Moves(c) /\ pc'[c] # "i_save"
    BY <1>1, StartQuarantineFacts, StartTransitionFacts, RefusedFacts, MoveFacts, AppendFacts,
       CheckFacts, RestoreMoveFacts, DeleteFacts, TransitionAppendFacts, QuarLeaveFacts DEF QuarEnd
  <2>2. UNCHANGED <<ignored, wanted, oldList>>
    BY <1>1 DEF StartQuarantine, StartTransition, QuarantineRefused, QuarantineMove,
                QuarantineAppend, RestoreCheck, RestoreMove, DeleteFile, TransitionAppend, QuarEnd,
                marks, quarVars
  <2> QED
    BY <2>1, <2>2, ListedKept
<1>2. ASSUME NEW c \in Callers, NEW flow \in {"ignore", "release"}, NEW chosen \in SUBSET Findings,
             LoadIgnored(c, flow, chosen)
      PROVE  Listed'
  <2>1. Moves(c) /\ mem'[c].list = ignored
    BY <1>2, LoadFacts
  <2>2. UNCHANGED <<ignored, wanted>> /\ oldList' = oldList \ {c} /\ c # None
    BY <1>2, NoFileAssumption DEF LoadIgnored
  <2>3. \A d \in Callers \ {c} : pc'[d] = pc[d] /\ mem'[d] = mem[d]
    BY <2>1, QuarOthers DEF QuarTypes
  <2> QED
    BY <2>1, <2>2, <2>3 DEF Listed, AlreadyIgnored
<1>3. ASSUME NEW c \in Callers, Ignore(c) PROVE Listed'
  <2> SUFFICES ASSUME None \notin oldList' PROVE Listed'
    BY DEF Listed
  <2> DEFINE new == mem[c].todo \ AlreadyIgnored(mem[c].list)
  <2>1. PICK ids \in [new -> Marks \ {m.id : m \in ignored \cup mem[c].list}] :
           Saves(c, mem[c].list \cup
                    {[id |-> ids[f], finding |-> f, state |-> "active"] : f \in new})
    BY <1>3 DEF Ignore
  <2> DEFINE added == {[id |-> ids[f], finding |-> f, state |-> "active"] : f \in new}
  <2>2. pc[c] = "i_save" /\ wanted' = wanted \cup mem[c].todo
    BY <1>3 DEF Ignore
  <2>3. /\ mem[c].list = ignored /\ wanted = AlreadyIgnored(ignored)
        /\ \A d \in Callers : pc'[d] = "i_save" => d \in oldList'
    BY <2>1, <2>2, SavedListed
  <2>4. ignored' = ignored \cup added
    BY <2>1, <2>3 DEF Saves
  <2>5. AlreadyIgnored(ignored \cup added) = AlreadyIgnored(ignored) \cup new
    <3>1. ASSUME NEW f \in new PROVE \E m \in added : m.state = "active" /\ m.finding = f
      <4>1. [id |-> ids[f], finding |-> f, state |-> "active"] \in added
        OBVIOUS
      <4> QED
        BY <4>1
    <3>2. \A m \in added : m.state = "active" /\ m.finding \in new
      OBVIOUS
    <3> HIDE DEF new, added
    <3> QED
      BY <3>1, <3>2 DEF AlreadyIgnored
  <2>6. AlreadyIgnored(ignored') = AlreadyIgnored(ignored) \cup mem[c].todo
    BY <2>3, <2>4, <2>5
  <2>7. AlreadyIgnored(ignored)' = AlreadyIgnored(ignored')
    BY DEF AlreadyIgnored
  <2> QED
    BY <2>2, <2>3, <2>6, <2>7 DEF Listed
<1>4. ASSUME NEW c \in Callers, Release(c) PROVE Listed'
  <2> SUFFICES ASSUME None \notin oldList' PROVE Listed'
    BY DEF Listed
  <2> DEFINE list == {IF m.finding \in mem[c].todo THEN [m EXCEPT !.state = "released"] ELSE m :
                         m \in mem[c].list}
  <2>1. pc[c] = "i_save" /\ wanted' = wanted \ mem[c].todo /\ Saves(c, list)
    BY <1>4 DEF Release
  <2>2. /\ mem[c].list = ignored /\ wanted = AlreadyIgnored(ignored)
        /\ \A d \in Callers : pc'[d] = "i_save" => d \in oldList'
    BY <2>1, SavedListed
  <2>3. ignored' = list
    BY <2>1 DEF Saves
  <2>4. AlreadyIgnored(list) = AlreadyIgnored(ignored) \ mem[c].todo
    <3>1. \A m \in Mark : /\ [m EXCEPT !.state = "released"].state = "released"
                          /\ [m EXCEPT !.state = "released"].finding = m.finding
      BY DEF Mark
    <3>2. ignored \subseteq Mark /\ mem[c].list = ignored
      BY <2>2 DEF QuarTypes, QuarTypeOK
    <3>3. \A m \in list : m.state = "active" => m \in ignored /\ m.finding \notin mem[c].todo
      BY <3>1, <3>2
    <3>4. \A m \in ignored : m.finding \notin mem[c].todo => m \in list
      BY <3>2
    <3> HIDE DEF list
    <3> QED
      BY <3>3, <3>4 DEF AlreadyIgnored
  <2>5. AlreadyIgnored(ignored)' = AlreadyIgnored(ignored')
    BY DEF AlreadyIgnored
  <2> QED
    BY <2>1, <2>2, <2>3, <2>4, <2>5 DEF Listed
<1>5. ASSUME NEW f \in Findings, NEW file \in Files, FileAppears(f, file) PROVE Listed'
  BY <1>5 DEF FileAppears, marks, Listed, AlreadyIgnored
<1>6. ASSUME JournalCrash, QuarCrash PROVE Listed'
  BY <1>6, QuarCrashFacts DEF QuarCrash, Listed, AlreadyIgnored
<1>7. CASE UNCHANGED <<journalVars, quarVars>>
  BY <1>7 DEF journalVars, quarVars, Listed, AlreadyIgnored
<1> QED
  BY <1>1, <1>2, <1>3, <1>4, <1>5, <1>6, <1>7 DEF QuarNext

-----------------------------------------------------------------------------
(* The quarantine of files as a whole.                                      *)

QuarInv == QuarTypes /\ Alone /\ FilesPlaced /\ Lined /\ AllIndexed /\ Listed

LEMMA QuarStarts ==
  ASSUME JournalInit, QuarInit
  PROVE  QuarInv
<1>1. /\ \A c \in Callers : pc[c] = "idle" /\ mem[c] = None
      /\ \A f \in Findings : stored[f] = None
      /\ \A i \in Items : items[i] = None
  BY DEF JournalInit, QuarInit
<1>2. \A g \in Files : origin[g] = IF \E f \in Findings : source[f] = g
                                   THEN CHOOSE f \in Findings : source[f] = g ELSE None
  BY DEF QuarInit
<1>3. QuarTypes
  <2>1. QuarCallers
    <3>1. pc \in [Callers -> QuarSteps] /\ mem \in [Callers -> QuarMemory \cup {None}]
      BY DEF JournalInit, QuarSteps
    <3> QED
      BY <1>1, <3>1, QuarIdleFits DEF QuarCallers
  <2>2. origin \in [Files -> Findings \cup {None}]
    BY <1>2 DEF QuarInit
  <2>3. QuarTypeOK
    BY DEF QuarInit, QuarTypeOK
  <2> QED
    BY <1>1, <2>1, <2>2, <2>3 DEF QuarTypes, LinesThere, Transits
<1>4. Alone
  BY <1>1 DEF Alone, AtWork
<1>5. FilesPlaced
  <2> SUFFICES ASSUME NEW f \in Findings PROVE Placed(f)
    BY DEF FilesPlaced
  <2>1. Whole(f)
    BY <1>2, NoFileAssumption DEF Whole
  <2> QED
    BY <1>1, <2>1 DEF Placed, LinesOf, TodoOf, FreeFor, Active, Transits
<1>6. Lined
  BY <1>1 DEF Lined, Drawn, SameFinding, Transits
<1>7. AllIndexed
  BY <1>1 DEF AllIndexed, Indexed, OneLine, Agrees, Half, Active, Transits
<1>8. Listed
  BY <1>1 DEF Listed, QuarInit, AlreadyIgnored
<1> QED
  BY <1>3, <1>4, <1>5, <1>6, <1>7, <1>8 DEF QuarInv

LEMMA QuarStep ==
  ASSUME QuarInv, [QuarNext]_<<journalVars, quarVars>>
  PROVE  QuarInv'
<1>1. QuarTypes'
  BY QuarTyped DEF QuarInv
<1>2. Alone'
  BY <1>1, QuarAlone DEF QuarInv
<1> QED
  BY <1>1, <1>2, FilesStayPlaced, QuarLined, IndexStays, QuarListed DEF QuarInv

LEMMA QuarKeeps ==
  ASSUME QuarInv
  PROVE  FilesKept /\ FileIndexTrue /\ IgnoredStays
<1>1. FilesKept
  BY DEF QuarInv, FilesPlaced, Placed, Whole, FilesKept, QuarTypes
<1>2. FileIndexTrue
  <2> SUFFICES ASSUME NEW f \in Findings \ (muddled \cup stranded \cup UNION {AtWork(c) : c \in Callers})
               PROVE  stored[f] # None <=> \E i \in Items : Active(i, f)
    BY DEF FileIndexTrue, Active
  <2>1. \A c \in Callers : ~Mid(c, f)
    BY Engaged DEF QuarInv, Mid
  <2> QED
    BY <2>1 DEF QuarInv, AllIndexed, Indexed, Agrees
<1>3. IgnoredStays
  BY DEF QuarInv, Listed, IgnoredStays
<1> QED
  BY <1>1, <1>2, <1>3

\* Where the quarantine is not in use, it is as it was at the start.
LEMMA QuarUnused ==
  ASSUME QuarInit
  PROVE  FilesKept /\ FileIndexTrue /\ IgnoredStays
<1>1. \A g \in Files : origin[g] # None => source[origin[g]] = g
  BY DEF QuarInit
<1>2. FilesKept
  BY <1>1 DEF FilesKept
<1>3. (\A f \in Findings : stored[f] = None) /\ (\A i \in Items : items[i] = None)
  BY DEF QuarInit
<1>4. FileIndexTrue
  BY <1>3 DEF FileIndexTrue
<1>5. IgnoredStays
  BY DEF QuarInit, IgnoredStays, AlreadyIgnored
<1> QED
  BY <1>2, <1>4, <1>5

-----------------------------------------------------------------------------
(* The quarantine of directories: what callers hold.                        *)

DirSteps == {"idle", "d_item", "d_write"}

\* An index has one line about a directory of a session.
OneEach(list) == \A i, j \in list : i.session = j.session /\ i.dir = j.dir => i = j

\* The lines a caller makes are about its session and what it is done with.
OwnLines(m) ==
    \A i \in m.made : /\ i.session = m.session /\ i.dir \notin m.todo
                      /\ i.state = IF m.flow = "quarantine" THEN "active" ELSE m.flow

DirFitting(s, m) ==
    /\ s = "idle" => m = None
    /\ s # "idle" => m \in DirMemory /\ OneEach(m.made) /\ OneEach(m.list) /\ OwnLines(m)

DirCallers ==
    /\ pc \in [Callers -> DirSteps] /\ mem \in [Callers -> DirMemory \cup {None}]
    /\ \A c \in Callers : DirFitting(pc[c], mem[c])

DirTypes == DirTypeOK /\ DirCallers

LEMMA DirGo ==
  ASSUME DirCallers, NEW c \in Callers, NEW s, NEW m, Goes(c, s), Holds(c, m)
  PROVE  Moves(c) /\ pc'[c] = s /\ mem'[c] = m
  BY DEF DirCallers, Goes, Holds, Moves

LEMMA DirHold ==
  ASSUME DirCallers, NEW c \in Callers, NEW m, Holds(c, m), UNCHANGED pc
  PROVE  Moves(c) /\ pc'[c] = pc[c] /\ mem'[c] = m
  BY DEF DirCallers, Holds, Moves

LEMMA DirGoOnly ==
  ASSUME DirCallers, NEW c \in Callers, NEW s, Goes(c, s), UNCHANGED mem
  PROVE  Moves(c) /\ pc'[c] = s /\ mem'[c] = mem[c]
  BY DEF DirCallers, Goes, Moves

LEMMA DirOthers ==
  ASSUME DirCallers, NEW c \in Callers, Moves(c)
  PROVE  \A d \in Callers : d # c => pc'[d] = pc[d] /\ mem'[d] = mem[d]
  BY DEF DirCallers, Moves

LEMMA DirCallerStep ==
  ASSUME DirCallers, NEW c \in Callers, Moves(c), pc'[c] \in DirSteps,
         DirFitting(pc'[c], mem'[c])
  PROVE  DirCallers'
<1>1. mem'[c] \in DirMemory \cup {None}
  BY DEF DirFitting
<1>2. pc' \in [Callers -> DirSteps] /\ mem' \in [Callers -> DirMemory \cup {None}]
  BY <1>1 DEF DirCallers, Moves
<1>3. \A d \in Callers : DirFitting(pc'[d], mem'[d])
  BY DirOthers DEF DirCallers
<1> QED
  BY <1>2, <1>3 DEF DirCallers

LEMMA DirIdleFits == DirFitting("idle", None)
  BY DEF DirFitting

\* Exactly the callers that are not idle hold something.
LEMMA DirHolds ==
  ASSUME DirCallers, NEW c \in Callers
  PROVE  /\ mem[c] # None <=> pc[c] # "idle"
         /\ mem[c] # None => /\ mem[c] \in DirMemory /\ "session" \in DOMAIN mem[c]
                             /\ OneEach(mem[c].made) /\ OneEach(mem[c].list) /\ OwnLines(mem[c])
<1>1. pc[c] # "idle" => mem[c] \in DirMemory /\ mem[c] # None
  BY NoDirAssumption DEF DirCallers, DirFitting
<1>2. pc[c] = "idle" => mem[c] = None
  BY DEF DirCallers, DirFitting
<1>3. mem[c] \in DirMemory => "session" \in DOMAIN mem[c]
  BY DEF DirMemory
<1> QED
  BY <1>1, <1>2, <1>3 DEF DirCallers, DirFitting

\* A caller sets a directory aside.
LEMMA Dropped ==
  ASSUME DirTypes, NEW c \in Callers, pc[c] = "d_item", NEW d, UNCHANGED pc,
         Holds(c, [mem[c] EXCEPT !.todo = @ \ {d}])
  PROVE  /\ Moves(c) /\ pc'[c] = "d_item" /\ DirCallers' /\ mem[c] # None /\ mem'[c] # None
         /\ mem'[c].flow = mem[c].flow /\ mem'[c].session = mem[c].session
         /\ mem'[c].list = mem[c].list /\ mem'[c].made = mem[c].made
         /\ mem'[c].todo = mem[c].todo \ {d}
<1>1. mem[c] \in DirMemory /\ DirFitting("d_item", mem[c]) /\ mem[c] # None
  BY DirHolds DEF DirTypes, DirCallers, DirFitting
<1>2. Moves(c) /\ pc'[c] = "d_item" /\ mem'[c] = [mem[c] EXCEPT !.todo = @ \ {d}]
  BY DirHold DEF DirTypes
<1>3. /\ mem'[c] \in DirMemory
      /\ mem'[c].flow = mem[c].flow /\ mem'[c].session = mem[c].session
      /\ mem'[c].list = mem[c].list /\ mem'[c].made = mem[c].made
      /\ mem'[c].todo = mem[c].todo \ {d}
  BY <1>1, <1>2 DEF DirMemory
<1>4. DirFitting("d_item", mem'[c])
  BY <1>1, <1>3 DEF DirFitting, OwnLines
<1> QED
  BY <1>1, <1>2, <1>3, <1>4, DirCallerStep, NoDirAssumption DEF DirTypes, DirSteps

\* c has done with the directory d of its list, and nothing else of it changes
\* but the lines it has made.
Works(c, d) ==
    /\ Moves(c) /\ pc[c] = "d_item" /\ pc'[c] = "d_item" /\ DirCallers'
    /\ mem[c] # None /\ mem'[c] # None
    /\ mem'[c].flow = mem[c].flow /\ mem'[c].session = mem[c].session /\ mem'[c].list = mem[c].list
    /\ mem'[c].todo = mem[c].todo \ {d} /\ d \in mem[c].todo
    /\ mem[c].session \in Sessions /\ d \in Dirs

Line(s, d, state) == [session |-> s, dir |-> d, state |-> state]
Crossed(m, d, line) == [m EXCEPT !.todo = @ \ {d}, !.made = @ \cup {line}]

\* A caller is done with a directory and makes a line about it.
LEMMA MadeOne ==
  ASSUME DirTypes, NEW c \in Callers, pc[c] = "d_item", NEW d \in mem[c].todo, UNCHANGED pc,
         NEW state, state = IF mem[c].flow = "quarantine" THEN "active" ELSE mem[c].flow,
         Holds(c, Crossed(mem[c], d, Line(mem[c].session, d, state)))
  PROVE  Works(c, d) /\ mem'[c].made = mem[c].made \cup {Line(mem[c].session, d, state)}
<1> DEFINE line == Line(mem[c].session, d, state)
<1>1. mem[c] \in DirMemory /\ DirFitting("d_item", mem[c]) /\ mem[c] # None
  BY DirHolds DEF DirTypes, DirCallers, DirFitting
<1>2. Moves(c) /\ pc'[c] = "d_item" /\ mem'[c] = Crossed(mem[c], d, line)
  BY DirHold DEF DirTypes
<1>3. line \in DirItem /\ line.session = mem[c].session /\ line.dir = d /\ line.state = state
  BY <1>1 DEF DirMemory, DirItem, Line
<1> HIDE DEF line
<1>4. /\ mem'[c] \in DirMemory
      /\ mem'[c].flow = mem[c].flow /\ mem'[c].session = mem[c].session
      /\ mem'[c].list = mem[c].list /\ mem'[c].made = mem[c].made \cup {line}
      /\ mem'[c].todo = mem[c].todo \ {d}
  <2>1. mem[c].made \cup {line} \in SUBSET DirItem /\ mem[c].todo \ {d} \in SUBSET Dirs
    BY <1>1, <1>3 DEF DirMemory
  <2> QED
    BY <1>1, <1>2, <2>1 DEF DirMemory, Crossed
<1>5. OneEach(mem'[c].made)
  BY <1>1, <1>3, <1>4 DEF DirFitting, OwnLines, OneEach
<1>6. DirFitting("d_item", mem'[c])
  BY <1>1, <1>3, <1>4, <1>5 DEF DirFitting, OwnLines
<1>7. DirCallers' /\ mem'[c] # None
  BY <1>1, <1>2, <1>4, <1>6, DirCallerStep, NoDirAssumption DEF DirTypes, DirSteps
<1>8. mem[c].session \in Sessions /\ d \in Dirs
  BY <1>1 DEF DirMemory
<1> QED
  BY <1>1, <1>2, <1>4, <1>7, <1>8 DEF Works, line

-----------------------------------------------------------------------------
(* What each step of the directories does to its caller.                    *)

LEMMA StartDirFacts ==
  ASSUME DirTypes, NEW c \in Callers, NEW s \in Sessions, NEW selected \in SUBSET Dirs,
         StartDirQuarantine(c, s, selected)
  PROVE  /\ Moves(c) /\ mem[c] = None /\ pc[c] = "idle" /\ pc'[c] = "d_item" /\ DirCallers'
         /\ mem'[c] = DirMem("quarantine", s, selected) /\ mem'[c] # None
<1>1. Moves(c) /\ pc[c] = "idle" /\ pc'[c] = "d_item" /\ mem'[c] = DirMem("quarantine", s, selected)
  BY DirGo DEF StartDirQuarantine, Call, DirTypes
<1>2. DirMem("quarantine", s, selected) \in DirMemory
  BY DEF DirMem, DirMemory
<1>3. DirFitting("d_item", mem'[c])
  BY <1>1, <1>2 DEF DirFitting, DirMem, OneEach, OwnLines
<1> QED
  BY <1>1, <1>2, <1>3, DirCallerStep, DirHolds, NoDirAssumption DEF DirTypes, DirSteps

LEMMA StartEndFacts ==
  ASSUME DirTypes, NEW c \in Callers, NEW target \in {"restored", "deleted"}, NEW s \in Sessions,
         NEW selected \in SUBSET Dirs, StartDirEnd(c, target, s, selected)
  PROVE  /\ Moves(c) /\ mem[c] = None /\ pc[c] = "idle" /\ pc'[c] = "d_item" /\ DirCallers'
         /\ mem'[c].flow = target /\ mem'[c].session = s /\ mem'[c].made = {}
         /\ mem'[c].list = dirIndex /\ mem'[c] # None
         /\ \E i \in dirIndex : i.session = s
<1> DEFINE active == {i \in dirIndex : i.session = s /\ i.state = "active" /\ i.dir \in selected}
           todo == {i.dir : i \in active}
<1>1. /\ Moves(c) /\ pc[c] = "idle" /\ pc'[c] = "d_item"
      /\ mem'[c] = [DirMem(target, s, todo) EXCEPT !.list = dirIndex]
  BY DirGo DEF StartDirEnd, Call, DirTypes
<1>2. todo \in SUBSET Dirs
  OBVIOUS
<1>3. \E i \in dirIndex : i.session = s
  BY DEF StartDirEnd
<1> HIDE DEF todo
<1>4. mem'[c] = [flow |-> target, session |-> s, todo |-> todo, made |-> {}, list |-> dirIndex]
  BY <1>1 DEF DirMem
<1>5. mem'[c] \in DirMemory
  BY <1>2, <1>4 DEF DirMemory, DirTypes, DirTypeOK
<1>6. OneEach(dirIndex)
  BY DEF DirTypes, DirTypeOK, OneEach
<1>7. DirFitting("d_item", mem'[c])
  BY <1>4, <1>5, <1>6 DEF DirFitting, OneEach, OwnLines
<1> QED
  BY <1>1, <1>3, <1>4, <1>5, <1>7, DirCallerStep, DirHolds, NoDirAssumption DEF DirTypes, DirSteps

LEMMA ReadIndexFacts ==
  ASSUME DirTypes, NEW c \in Callers, ReadDirIndex(c)
  PROVE  /\ Moves(c) /\ pc[c] = "d_item" /\ pc'[c] = "d_write" /\ DirCallers'
         /\ mem[c] # None /\ mem'[c] # None
         /\ mem'[c].flow = mem[c].flow /\ mem'[c].session = mem[c].session
         /\ mem'[c].made = mem[c].made /\ mem'[c].todo = mem[c].todo /\ mem'[c].list = dirIndex
<1>1. pc[c] = "d_item" /\ mem[c] \in DirMemory /\ DirFitting("d_item", mem[c]) /\ mem[c] # None
  BY DirHolds DEF ReadDirIndex, DirTypes, DirCallers, DirFitting
<1>2. Moves(c) /\ pc'[c] = "d_write" /\ mem'[c] = [mem[c] EXCEPT !.list = dirIndex]
  BY DirGo DEF ReadDirIndex, DirTypes
<1>3. /\ mem'[c] \in DirMemory
      /\ mem'[c].flow = mem[c].flow /\ mem'[c].session = mem[c].session
      /\ mem'[c].made = mem[c].made /\ mem'[c].todo = mem[c].todo /\ mem'[c].list = dirIndex
  BY <1>1, <1>2 DEF DirMemory, DirTypes, DirTypeOK
<1>4. OneEach(dirIndex)
  BY DEF DirTypes, DirTypeOK, OneEach
<1>5. DirFitting("d_write", mem'[c])
  BY <1>1, <1>3, <1>4 DEF DirFitting, OwnLines
<1> QED
  BY <1>1, <1>2, <1>3, <1>5, DirCallerStep, NoDirAssumption DEF DirTypes, DirSteps

LEMMA DirLeaveFacts ==
  ASSUME DirTypes, NEW c \in Callers, Leaves(c)
  PROVE  Moves(c) /\ pc'[c] = "idle" /\ mem'[c] = None /\ DirCallers'
<1>1. Moves(c) /\ pc'[c] = "idle" /\ mem'[c] = None
  BY DirGo DEF Leaves, DirTypes
<1> QED
  BY <1>1, DirIdleFits, DirCallerStep DEF DirTypes, DirSteps

LEMMA EndItemsFacts ==
  ASSUME DirTypes, NEW c \in Callers, EndItems(c)
  PROVE  /\ Moves(c) /\ pc'[c] = "d_write" /\ mem' = mem /\ DirCallers'
         /\ mem[c] # None /\ mem[c].flow \in {"restored", "deleted"}
<1>1. pc[c] = "d_item" /\ mem[c] # None /\ mem[c].flow \in {"restored", "deleted"} /\ mem' = mem
  BY DirHolds DEF EndItems, DirTypes
<1>2. Moves(c) /\ pc'[c] = "d_write"
  BY <1>1, DirGoOnly DEF EndItems, DirTypes
<1>3. DirFitting("d_write", mem'[c])
  BY <1>1 DEF DirTypes, DirCallers, DirFitting
<1> QED
  BY <1>1, <1>2, <1>3, DirCallerStep DEF DirTypes, DirSteps

\* A line about the key of one in new is replaced, every other one is kept.
LEMMA ReplaceFacts ==
  ASSUME NEW list \in SUBSET DirItem, NEW new \in SUBSET DirItem, OneEach(list), OneEach(new)
  PROVE  /\ Replace(list, new) \in SUBSET DirItem /\ OneEach(Replace(list, new))
         /\ \A i : i \in Replace(list, new) <=>
               \/ i \in new
               \/ i \in list /\ \A j \in new : ~(i.session = j.session /\ i.dir = j.dir)
<1>1. \A i : i \in Replace(list, new) <=>
         \/ i \in new
         \/ i \in list /\ \A j \in new : ~(i.session = j.session /\ i.dir = j.dir)
  BY DEF Replace
<1>2. OneEach(Replace(list, new))
  BY <1>1 DEF OneEach
<1> QED
  BY <1>1, <1>2

LEMMA MoveDirFacts ==
  ASSUME DirTypes, NEW c \in Callers, MoveDir(c)
  PROVE  /\ mem[c].flow = "quarantine"
         /\ \E d \in Dirs :
               /\ Works(c, d)
               /\ \/ /\ tree[d] # None
                     /\ kept' = [kept EXCEPT ![mem[c].session][d] = tree[d]]
                     /\ tree' = [tree EXCEPT ![d] = None]
                     /\ mem'[c].made = mem[c].made \cup {Line(mem[c].session, d, "active")}
                  \/ UNCHANGED <<tree, kept>> /\ mem'[c].made = mem[c].made
<1>1. pc[c] = "d_item" /\ mem[c].flow = "quarantine" /\ UNCHANGED pc
  BY DEF MoveDir
<1>2. mem[c] \in DirMemory
  BY <1>1, DirHolds DEF DirTypes
<1>3. PICK d \in mem[c].todo :
         \/ /\ tree[d] # None
            /\ kept' = [kept EXCEPT ![mem[c].session][d] = tree[d]]
            /\ tree' = [tree EXCEPT ![d] = None]
            /\ Holds(c, [mem[c] EXCEPT !.todo = @ \ {d}, !.made = @ \cup
                            {[session |-> mem[c].session, dir |-> d, state |-> "active"]}])
         \/ /\ Holds(c, [mem[c] EXCEPT !.todo = @ \ {d}])
            /\ UNCHANGED <<tree, kept>>
  BY Zenon DEF MoveDir
<1>4. d \in Dirs /\ mem[c].session \in Sessions
  BY <1>2 DEF DirMemory
<1>5. CASE /\ tree[d] # None
           /\ kept' = [kept EXCEPT ![mem[c].session][d] = tree[d]]
           /\ tree' = [tree EXCEPT ![d] = None]
           /\ Holds(c, [mem[c] EXCEPT !.todo = @ \ {d}, !.made = @ \cup
                           {[session |-> mem[c].session, dir |-> d, state |-> "active"]}])
  <2>1. Holds(c, Crossed(mem[c], d, Line(mem[c].session, d, "active")))
    BY <1>5, Zenon DEF Crossed, Line
  <2>2. "active" = IF mem[c].flow = "quarantine" THEN "active" ELSE mem[c].flow
    BY <1>1
  <2>3. Works(c, d) /\ mem'[c].made = mem[c].made \cup {Line(mem[c].session, d, "active")}
    BY <1>1, <2>1, <2>2, MadeOne
  <2> QED
    BY <1>1, <1>4, <1>5, <2>3
<1>6. CASE Holds(c, [mem[c] EXCEPT !.todo = @ \ {d}]) /\ UNCHANGED <<tree, kept>>
  BY <1>1, <1>4, <1>6, Dropped DEF Works
<1> QED
  BY <1>1, <1>3, <1>5, <1>6

LEMMA RestoreDirFacts ==
  ASSUME DirTypes, NEW c \in Callers, RestoreDir(c)
  PROVE  /\ mem[c].flow = "restored"
         /\ \E d \in Dirs :
               /\ Works(c, d)
               /\ \/ /\ tree[d] = None /\ kept[mem[c].session][d] # None
                     /\ tree' = [tree EXCEPT ![d] = kept[mem[c].session][d]]
                     /\ kept' = [kept EXCEPT ![mem[c].session][d] = None]
                     /\ mem'[c].made = mem[c].made \cup {Line(mem[c].session, d, "restored")}
                  \/ UNCHANGED <<tree, kept>> /\ mem'[c].made = mem[c].made
<1>1. pc[c] = "d_item" /\ mem[c].flow = "restored" /\ UNCHANGED pc
  BY DEF RestoreDir
<1>2. mem[c] \in DirMemory
  BY <1>1, DirHolds DEF DirTypes
<1>3. PICK d \in mem[c].todo :
         \/ /\ tree[d] = None /\ kept[mem[c].session][d] # None
            /\ tree' = [tree EXCEPT ![d] = kept[mem[c].session][d]]
            /\ kept' = [kept EXCEPT ![mem[c].session][d] = None]
            /\ Marked(c, d)
         \/ /\ Holds(c, [mem[c] EXCEPT !.todo = @ \ {d}])
            /\ UNCHANGED <<tree, kept>>
  BY DEF RestoreDir
<1>4. d \in Dirs /\ mem[c].session \in Sessions
  BY <1>2 DEF DirMemory
<1>5. CASE /\ tree[d] = None /\ kept[mem[c].session][d] # None
           /\ tree' = [tree EXCEPT ![d] = kept[mem[c].session][d]]
           /\ kept' = [kept EXCEPT ![mem[c].session][d] = None]
           /\ Marked(c, d)
  <2>1. Holds(c, Crossed(mem[c], d, Line(mem[c].session, d, "restored")))
    BY <1>1, <1>5, Zenon DEF Marked, Crossed, Line
  <2>2. "restored" = IF mem[c].flow = "quarantine" THEN "active" ELSE mem[c].flow
    BY <1>1
  <2>3. Works(c, d) /\ mem'[c].made = mem[c].made \cup {Line(mem[c].session, d, "restored")}
    BY <1>1, <2>1, <2>2, MadeOne
  <2> QED
    BY <1>1, <1>4, <1>5, <2>3
<1>6. CASE Holds(c, [mem[c] EXCEPT !.todo = @ \ {d}]) /\ UNCHANGED <<tree, kept>>
  BY <1>1, <1>4, <1>6, Dropped DEF Works
<1> QED
  BY <1>1, <1>3, <1>5, <1>6

LEMMA RemoveDirFacts ==
  ASSUME DirTypes, NEW c \in Callers, RemoveDir(c)
  PROVE  /\ mem[c].flow = "deleted"
         /\ \E d \in Dirs :
               /\ Works(c, d)
               /\ \/ /\ kept[mem[c].session][d] # None
                     /\ kept' = [kept EXCEPT ![mem[c].session][d] = None]
                     /\ mem'[c].made = mem[c].made \cup {Line(mem[c].session, d, "deleted")}
                  \/ UNCHANGED kept /\ mem'[c].made = mem[c].made
<1>1. pc[c] = "d_item" /\ mem[c].flow = "deleted" /\ UNCHANGED pc
  BY DEF RemoveDir
<1>2. mem[c] \in DirMemory
  BY <1>1, DirHolds DEF DirTypes
<1>3. PICK d \in mem[c].todo :
         \/ /\ kept[mem[c].session][d] # None
            /\ kept' = [kept EXCEPT ![mem[c].session][d] = None]
            /\ Marked(c, d)
         \/ /\ Holds(c, [mem[c] EXCEPT !.todo = @ \ {d}])
            /\ UNCHANGED kept
  BY DEF RemoveDir
<1>4. d \in Dirs /\ mem[c].session \in Sessions
  BY <1>2 DEF DirMemory
<1>5. CASE /\ kept[mem[c].session][d] # None
           /\ kept' = [kept EXCEPT ![mem[c].session][d] = None]
           /\ Marked(c, d)
  <2>1. Holds(c, Crossed(mem[c], d, Line(mem[c].session, d, "deleted")))
    BY <1>1, <1>5, Zenon DEF Marked, Crossed, Line
  <2>2. "deleted" = IF mem[c].flow = "quarantine" THEN "active" ELSE mem[c].flow
    BY <1>1
  <2>3. Works(c, d) /\ mem'[c].made = mem[c].made \cup {Line(mem[c].session, d, "deleted")}
    BY <1>1, <2>1, <2>2, MadeOne
  <2> QED
    BY <1>1, <1>4, <1>5, <2>3
<1>6. CASE Holds(c, [mem[c] EXCEPT !.todo = @ \ {d}]) /\ UNCHANGED kept
  BY <1>1, <1>4, <1>6, Dropped DEF Works
<1> QED
  BY <1>1, <1>3, <1>5, <1>6

LEMMA WriteIndexFacts ==
  ASSUME DirTypes, NEW c \in Callers, WriteDirIndex(c)
  PROVE  /\ Moves(c) /\ pc'[c] = "idle" /\ mem'[c] = None /\ mem[c] # None /\ pc[c] = "d_write"
         /\ DirCallers' /\ dirIndex' \in SUBSET DirItem /\ OneEach(dirIndex')
         /\ \A i : i \in dirIndex' <=>
               \/ i \in mem[c].made
               \/ /\ i \in mem[c].list
                  /\ \A j \in mem[c].made : ~(i.session = j.session /\ i.dir = j.dir)
<1>1. pc[c] = "d_write" /\ dirIndex' = Replace(mem[c].list, mem[c].made) /\ Leaves(c)
  BY DEF WriteDirIndex, Merged
<1>2. mem[c] \in DirMemory /\ mem[c] # None /\ OneEach(mem[c].made) /\ OneEach(mem[c].list)
  BY <1>1, DirHolds DEF DirTypes
<1>3. mem[c].list \in SUBSET DirItem /\ mem[c].made \in SUBSET DirItem
  BY <1>2 DEF DirMemory
<1>4. /\ Replace(mem[c].list, mem[c].made) \in SUBSET DirItem
      /\ OneEach(Replace(mem[c].list, mem[c].made))
      /\ \A i : i \in Replace(mem[c].list, mem[c].made) <=>
            \/ i \in mem[c].made
            \/ /\ i \in mem[c].list
               /\ \A j \in mem[c].made : ~(i.session = j.session /\ i.dir = j.dir)
  BY <1>2, <1>3, ReplaceFacts
<1> QED
  BY <1>1, <1>2, <1>4, DirLeaveFacts

-----------------------------------------------------------------------------
(* Types of the quarantine of directories.                                  *)

LEMMA DirCrashFacts ==
  ASSUME JournalCrash
  PROVE  /\ \A c \in Callers : pc'[c] = "idle" /\ mem'[c] = None
         /\ DirCallers'
<1>1. pc' = [c \in Callers |-> "idle"] /\ mem' = [c \in Callers |-> None]
  BY DEF JournalCrash
<1> QED
  BY <1>1, DirIdleFits DEF DirCallers, DirSteps

LEMMA DirTyped ==
  ASSUME DirTypes, [DirNext]_<<journalVars, dirVars>>
  PROVE  DirTypes'
<1>0. /\ tree \in [Dirs -> (SUBSET DirFiles) \cup {None}]
      /\ kept \in [Sessions -> [Dirs -> (SUBSET DirFiles) \cup {None}]]
      /\ dirIndex \in SUBSET DirItem /\ OneEach(dirIndex)
  BY DEF DirTypes, DirTypeOK, OneEach
<1>1. ASSUME tree' \in [Dirs -> (SUBSET DirFiles) \cup {None}],
             kept' \in [Sessions -> [Dirs -> (SUBSET DirFiles) \cup {None}]],
             dirIndex' \in SUBSET DirItem, OneEach(dirIndex'), DirCallers'
      PROVE  DirTypes'
  BY <1>1 DEF DirTypes, DirTypeOK, OneEach
<1>2. ASSUME NEW c \in Callers, NEW s \in Sessions, NEW selected \in SUBSET Dirs,
             StartDirQuarantine(c, s, selected)
      PROVE  DirTypes'
  BY <1>0, <1>1, <1>2, StartDirFacts DEF StartDirQuarantine, dirVars
<1>3. ASSUME NEW c \in Callers, NEW target \in {"restored", "deleted"}, NEW s \in Sessions,
             NEW selected \in SUBSET Dirs, StartDirEnd(c, target, s, selected)
      PROVE  DirTypes'
  BY <1>0, <1>1, <1>3, StartEndFacts DEF StartDirEnd
<1>4. ASSUME NEW c \in Callers, MoveDir(c) PROVE DirTypes'
  <2>1. PICK d \in Dirs :
           /\ Works(c, d)
           /\ \/ /\ tree[d] # None
                 /\ kept' = [kept EXCEPT ![mem[c].session][d] = tree[d]]
                 /\ tree' = [tree EXCEPT ![d] = None]
                 /\ mem'[c].made = mem[c].made \cup {Line(mem[c].session, d, "active")}
              \/ UNCHANGED <<tree, kept>> /\ mem'[c].made = mem[c].made
    BY <1>4, MoveDirFacts
  <2>2. UNCHANGED dirIndex /\ DirCallers' /\ mem[c].session \in Sessions
    BY <1>4, <2>1 DEF MoveDir, Works
  <2>3. /\ tree' \in [Dirs -> (SUBSET DirFiles) \cup {None}]
        /\ kept' \in [Sessions -> [Dirs -> (SUBSET DirFiles) \cup {None}]]
    BY <1>0, <2>1, <2>2
  <2> QED
    BY <1>0, <1>1, <2>2, <2>3
<1>5. ASSUME NEW c \in Callers, ReadDirIndex(c) PROVE DirTypes'
  BY <1>0, <1>1, <1>5, ReadIndexFacts DEF ReadDirIndex
<1>6. ASSUME NEW c \in Callers, WriteDirIndex(c) PROVE DirTypes'
  BY <1>0, <1>1, <1>6, WriteIndexFacts DEF WriteDirIndex
<1>7. ASSUME NEW c \in Callers, RestoreDir(c) PROVE DirTypes'
  <2>1. PICK d \in Dirs :
           /\ Works(c, d)
           /\ \/ /\ tree[d] = None /\ kept[mem[c].session][d] # None
                 /\ tree' = [tree EXCEPT ![d] = kept[mem[c].session][d]]
                 /\ kept' = [kept EXCEPT ![mem[c].session][d] = None]
                 /\ mem'[c].made = mem[c].made \cup {Line(mem[c].session, d, "restored")}
              \/ UNCHANGED <<tree, kept>> /\ mem'[c].made = mem[c].made
    BY <1>7, RestoreDirFacts
  <2>2. UNCHANGED dirIndex /\ DirCallers' /\ mem[c].session \in Sessions
    BY <1>7, <2>1 DEF RestoreDir, Works
  <2>3. /\ tree' \in [Dirs -> (SUBSET DirFiles) \cup {None}]
        /\ kept' \in [Sessions -> [Dirs -> (SUBSET DirFiles) \cup {None}]]
    BY <1>0, <2>1, <2>2
  <2> QED
    BY <1>0, <1>1, <2>2, <2>3
<1>8. ASSUME NEW c \in Callers, RemoveDir(c) PROVE DirTypes'
  <2>1. PICK d \in Dirs :
           /\ Works(c, d)
           /\ \/ /\ kept[mem[c].session][d] # None
                 /\ kept' = [kept EXCEPT ![mem[c].session][d] = None]
                 /\ mem'[c].made = mem[c].made \cup {Line(mem[c].session, d, "deleted")}
              \/ UNCHANGED kept /\ mem'[c].made = mem[c].made
    BY <1>8, RemoveDirFacts
  <2>2. UNCHANGED <<tree, dirIndex>> /\ DirCallers' /\ mem[c].session \in Sessions
    BY <1>8, <2>1 DEF RemoveDir, Works
  <2>3. kept' \in [Sessions -> [Dirs -> (SUBSET DirFiles) \cup {None}]]
    BY <1>0, <2>1, <2>2
  <2> QED
    BY <1>0, <1>1, <2>2, <2>3
<1>9. ASSUME NEW c \in Callers, EndItems(c) PROVE DirTypes'
  BY <1>0, <1>1, <1>9, EndItemsFacts DEF EndItems, dirVars
<1>10. ASSUME NEW d \in Dirs,
              \/ DirMade(d)
              \/ \E x \in DirFiles : FileAdded(d, x) \/ FileTaken(d, x)
       PROVE  DirTypes'
  <2>1. UNCHANGED <<pc, mem, kept, dirIndex>>
    BY <1>10 DEF DirMade, FileAdded, FileTaken
  <2>2. tree' = [tree EXCEPT ![d] = {}]
        \/ \E x \in DirFiles : /\ tree[d] # None
                               /\ \/ tree' = [tree EXCEPT ![d] = tree[d] \cup {x}]
                                  \/ tree' = [tree EXCEPT ![d] = tree[d] \ {x}]
    BY <1>10 DEF DirMade, FileAdded, FileTaken
  <2>3. tree' \in [Dirs -> (SUBSET DirFiles) \cup {None}]
    BY <1>0, <2>2
  <2>4. DirCallers'
    BY <2>1 DEF DirTypes, DirCallers
  <2> QED
    BY <1>0, <1>1, <2>1, <2>3, <2>4
<1>11. ASSUME JournalCrash, DirCrash PROVE DirTypes'
  BY <1>0, <1>1, <1>11, DirCrashFacts DEF DirCrash
<1>12. CASE UNCHANGED <<journalVars, dirVars>>
  BY <1>12 DEF journalVars, dirVars, DirTypes, DirTypeOK, DirCallers
<1> QED
  BY <1>2, <1>3, <1>4, <1>5, <1>6, <1>7, <1>8, <1>9, <1>10, <1>11, <1>12 DEF DirNext

-----------------------------------------------------------------------------
(* No file goes with a directory.                                           *)

\* What is in a session, or in a directory that was found empty and is still to
\* be moved, was put there after the scan.
Slipped(held) == held # None => held \subseteq slipped
FoundSlipped(c) == mem[c] # None /\ mem[c].flow = "quarantine" =>
                       \A d \in mem[c].todo : Slipped(tree[d])

DirSafe ==
    /\ \A s \in Sessions : \A d \in Dirs : Slipped(kept[s][d])
    /\ \A c \in Callers : FoundSlipped(c)
    /\ \A x \in alive \ slipped : \E d \in Dirs : tree[d] # None /\ x \in tree[d]

LEMMA DirSafeStays ==
  ASSUME DirTypes, DirTypes', DirSafe, [DirNext]_<<journalVars, dirVars>>
  PROVE  DirSafe'
<1>0. /\ tree \in [Dirs -> (SUBSET DirFiles) \cup {None}]
      /\ kept \in [Sessions -> [Dirs -> (SUBSET DirFiles) \cup {None}]]
      /\ \A c \in Callers : mem[c] # None => mem[c].todo \subseteq Dirs
  <2>1. \A c \in Callers : mem[c] # None => mem[c] \in DirMemory
    BY DirHolds DEF DirTypes
  <2> QED
    BY <2>1 DEF DirTypes, DirTypeOK, DirMemory
<1>1. ASSUME NEW c \in Callers, Moves(c), UNCHANGED <<tree, kept, alive, slipped>>, FoundSlipped(c)'
      PROVE  DirSafe'
  <2>1. \A d \in Callers \ {c} : mem'[d] = mem[d]
    BY <1>1, DirOthers DEF DirTypes
  <2> QED
    BY <1>1, <2>1 DEF DirSafe, FoundSlipped, Slipped
<1>2. ASSUME NEW c \in Callers, NEW s \in Sessions, NEW selected \in SUBSET Dirs,
             StartDirQuarantine(c, s, selected)
      PROVE  DirSafe'
  <2>1. UNCHANGED <<tree, kept, alive, slipped>> /\ \A d \in selected : tree[d] = {}
    BY <1>2 DEF StartDirQuarantine, dirVars, EmptyLeaf
  <2>2. Moves(c) /\ mem'[c].todo = selected
    <3>1. Moves(c) /\ mem'[c] = DirMem("quarantine", s, selected)
      BY <1>2, StartDirFacts
    <3> QED
      BY <3>1 DEF DirMem
  <2> QED
    BY <1>1, <2>1, <2>2 DEF FoundSlipped, Slipped
<1>3. ASSUME NEW c \in Callers, NEW target \in {"restored", "deleted"}, NEW s \in Sessions,
             NEW selected \in SUBSET Dirs, StartDirEnd(c, target, s, selected)
      PROVE  DirSafe'
  BY <1>1, <1>3, StartEndFacts DEF StartDirEnd, FoundSlipped
<1>4. ASSUME NEW c \in Callers, MoveDir(c) PROVE DirSafe'
  <2>1. PICK d \in Dirs :
           /\ Works(c, d)
           /\ \/ /\ tree[d] # None
                 /\ kept' = [kept EXCEPT ![mem[c].session][d] = tree[d]]
                 /\ tree' = [tree EXCEPT ![d] = None]
                 /\ mem'[c].made = mem[c].made \cup {Line(mem[c].session, d, "active")}
              \/ UNCHANGED <<tree, kept>> /\ mem'[c].made = mem[c].made
    BY <1>4, MoveDirFacts
  <2>2. /\ UNCHANGED <<alive, slipped>> /\ mem[c].session \in Sessions /\ d \in mem[c].todo
        /\ Moves(c) /\ mem[c] # None /\ mem[c].flow = "quarantine"
        /\ mem'[c].todo = mem[c].todo \ {d}
    BY <1>4, <2>1 DEF MoveDir, Works
  <2>3. Slipped(tree[d])
    BY <2>2 DEF DirSafe, FoundSlipped
  <2>4. CASE UNCHANGED <<tree, kept>>
    BY <1>1, <2>2, <2>4 DEF DirSafe, FoundSlipped, Slipped
  <2>5. CASE /\ tree[d] # None
             /\ kept' = [kept EXCEPT ![mem[c].session][d] = tree[d]]
             /\ tree' = [tree EXCEPT ![d] = None]
    <3>1. \A e \in Dirs : tree'[e] = IF e = d THEN None ELSE tree[e]
      BY <1>0, <2>5
    <3>2. ASSUME NEW s \in Sessions, NEW e \in Dirs PROVE Slipped(kept[s][e])'
      <4>1. kept'[s][e] = IF s = mem[c].session /\ e = d THEN tree[d] ELSE kept[s][e]
        BY <1>0, <2>2, <2>5
      <4> QED
        BY <2>2, <2>3, <4>1 DEF DirSafe, Slipped
    <3>3. ASSUME NEW b \in Callers PROVE FoundSlipped(b)'
      <4>1. mem'[b] # None => mem[b] # None /\ mem'[b].flow = mem[b].flow
                              /\ mem'[b].todo \subseteq mem[b].todo
        <5>1. CASE b = c
          BY <2>1, <5>1 DEF Works
        <5>2. CASE b # c
          BY <2>2, <5>2, DirOthers DEF DirTypes
        <5> QED
          BY <5>1, <5>2
      <4> QED
        BY <1>0, <2>2, <3>1, <4>1 DEF DirSafe, FoundSlipped, Slipped
    <3>4. ASSUME NEW x \in alive' \ slipped' PROVE \E e \in Dirs : tree'[e] # None /\ x \in tree'[e]
      <4>1. PICK e \in Dirs : tree[e] # None /\ x \in tree[e]
        BY <2>2 DEF DirSafe
      <4>2. e # d
        BY <2>2, <2>3, <4>1 DEF Slipped
      <4> QED
        BY <3>1, <4>1, <4>2
    <3> QED
      BY <3>2, <3>3, <3>4 DEF DirSafe
  <2> QED
    BY <2>1, <2>4, <2>5
<1>5. ASSUME NEW c \in Callers, ReadDirIndex(c) PROVE DirSafe'
  BY <1>1, <1>5, ReadIndexFacts DEF ReadDirIndex, DirSafe, FoundSlipped, Slipped
<1>6. ASSUME NEW c \in Callers, WriteDirIndex(c) PROVE DirSafe'
  BY <1>1, <1>6, WriteIndexFacts DEF WriteDirIndex, FoundSlipped
<1>7. ASSUME NEW c \in Callers, RestoreDir(c) PROVE DirSafe'
  <2>1. PICK d \in Dirs :
           /\ Works(c, d)
           /\ \/ /\ tree[d] = None /\ kept[mem[c].session][d] # None
                 /\ tree' = [tree EXCEPT ![d] = kept[mem[c].session][d]]
                 /\ kept' = [kept EXCEPT ![mem[c].session][d] = None]
                 /\ mem'[c].made = mem[c].made \cup {Line(mem[c].session, d, "restored")}
              \/ UNCHANGED <<tree, kept>> /\ mem'[c].made = mem[c].made
    BY <1>7, RestoreDirFacts
  <2>2. /\ UNCHANGED <<alive, slipped>> /\ mem[c].session \in Sessions
        /\ Moves(c) /\ mem[c] # None /\ mem[c].flow = "restored" /\ mem'[c].flow = "restored"
    BY <1>7, <2>1 DEF RestoreDir, Works
  <2>3. CASE UNCHANGED <<tree, kept>>
    BY <1>1, <2>2, <2>3 DEF FoundSlipped
  <2>4. CASE /\ tree[d] = None /\ kept[mem[c].session][d] # None
             /\ tree' = [tree EXCEPT ![d] = kept[mem[c].session][d]]
             /\ kept' = [kept EXCEPT ![mem[c].session][d] = None]
    <3>1. \A e \in Dirs : tree'[e] = IF e = d THEN kept[mem[c].session][d] ELSE tree[e]
      BY <1>0, <2>4
    <3>2. Slipped(kept[mem[c].session][d])
      BY <2>2 DEF DirSafe
    <3>3. ASSUME NEW s \in Sessions, NEW e \in Dirs PROVE Slipped(kept[s][e])'
      <4>1. kept'[s][e] = IF s = mem[c].session /\ e = d THEN None ELSE kept[s][e]
        BY <1>0, <2>2, <2>4
      <4> QED
        BY <2>2, <4>1 DEF DirSafe, Slipped
    <3>4. ASSUME NEW b \in Callers PROVE FoundSlipped(b)'
      <4>1. CASE b = c
        BY <2>2, <4>1 DEF FoundSlipped
      <4>2. CASE b # c
        <5>1. mem'[b] = mem[b]
          BY <2>2, <4>2, DirOthers DEF DirTypes
        <5> QED
          BY <1>0, <2>2, <3>1, <3>2, <5>1 DEF DirSafe, FoundSlipped, Slipped
      <4> QED
        BY <4>1, <4>2
    <3>5. ASSUME NEW x \in alive' \ slipped' PROVE \E e \in Dirs : tree'[e] # None /\ x \in tree'[e]
      <4>1. PICK e \in Dirs : tree[e] # None /\ x \in tree[e]
        BY <2>2 DEF DirSafe
      <4> QED
        BY <2>4, <3>1, <4>1
    <3> QED
      BY <3>3, <3>4, <3>5 DEF DirSafe
  <2> QED
    BY <2>1, <2>3, <2>4
<1>8. ASSUME NEW c \in Callers, RemoveDir(c) PROVE DirSafe'
  <2>1. PICK d \in Dirs :
           /\ Works(c, d)
           /\ \/ /\ kept[mem[c].session][d] # None
                 /\ kept' = [kept EXCEPT ![mem[c].session][d] = None]
                 /\ mem'[c].made = mem[c].made \cup {Line(mem[c].session, d, "deleted")}
              \/ UNCHANGED kept /\ mem'[c].made = mem[c].made
    BY <1>8, RemoveDirFacts
  <2>2. /\ UNCHANGED <<tree, alive, slipped>> /\ mem[c].session \in Sessions
        /\ Moves(c) /\ mem[c] # None /\ mem[c].flow = "deleted" /\ mem'[c].flow = "deleted"
    BY <1>8, <2>1 DEF RemoveDir, Works
  <2>3. ASSUME NEW s \in Sessions, NEW e \in Dirs PROVE kept'[s][e] \in {None, kept[s][e]}
    BY <1>0, <2>1, <2>2
  <2>4. ASSUME NEW b \in Callers PROVE FoundSlipped(b)'
    <3>1. CASE b = c
      BY <2>2, <3>1 DEF FoundSlipped
    <3>2. CASE b # c
      <4>1. mem'[b] = mem[b]
        BY <2>2, <3>2, DirOthers DEF DirTypes
      <4> QED
        BY <2>2, <4>1 DEF DirSafe, FoundSlipped, Slipped
    <3> QED
      BY <3>1, <3>2
  <2> QED
    BY <2>2, <2>3, <2>4 DEF DirSafe, Slipped
<1>9. ASSUME NEW c \in Callers, EndItems(c) PROVE DirSafe'
  BY <1>1, <1>9, EndItemsFacts DEF EndItems, dirVars, FoundSlipped
<1>10. ASSUME NEW d \in Dirs, DirMade(d) PROVE DirSafe'
  <2>1. /\ UNCHANGED <<mem, kept, alive, slipped>> /\ tree[d] = None
        /\ \A e \in Dirs : tree'[e] = IF e = d THEN {} ELSE tree[e]
    BY <1>0, <1>10 DEF DirMade
  <2> QED
    BY <1>0, <2>1 DEF DirSafe, FoundSlipped, Slipped
<1>11. ASSUME NEW d \in Dirs, NEW x \in DirFiles, FileAdded(d, x) PROVE DirSafe'
  <2>1. /\ UNCHANGED <<mem, kept>> /\ tree[d] # None /\ alive' = alive \cup {x}
        /\ \A e \in Dirs : tree'[e] = IF e = d THEN tree[d] \cup {x} ELSE tree[e]
        /\ slipped \subseteq slipped' /\ (FoundEmpty(d) => x \in slipped')
    BY <1>0, <1>11 DEF FileAdded
  <2>2. tree[d] \cup {x} # None
    BY <1>0, <2>1, NoDirAssumption
  <2>3. \A c \in Callers : mem[c] # None /\ mem[c].flow = "quarantine" /\ d \in mem[c].todo =>
           x \in slipped'
    BY <2>1 DEF FoundEmpty
  <2>4. ASSUME NEW c \in Callers PROVE FoundSlipped(c)'
    BY <1>0, <2>1, <2>2, <2>3 DEF DirSafe, FoundSlipped, Slipped
  <2>5. ASSUME NEW y \in alive' \ slipped' PROVE \E e \in Dirs : tree'[e] # None /\ y \in tree'[e]
    BY <2>1, <2>2 DEF DirSafe
  <2> QED
    BY <2>1, <2>4, <2>5 DEF DirSafe, Slipped
<1>12. ASSUME NEW d \in Dirs, NEW x \in DirFiles, FileTaken(d, x) PROVE DirSafe'
  <2>1. /\ UNCHANGED <<mem, kept, slipped>> /\ tree[d] # None /\ alive' = alive \ {x}
        /\ \A e \in Dirs : tree'[e] = IF e = d THEN tree[d] \ {x} ELSE tree[e]
    BY <1>0, <1>12 DEF FileTaken
  <2>2. tree[d] \ {x} # None
    BY <1>0, <2>1, NoDirAssumption
  <2> QED
    BY <1>0, <2>1, <2>2 DEF DirSafe, FoundSlipped, Slipped
<1>13. ASSUME JournalCrash, DirCrash PROVE DirSafe'
  BY <1>13, DirCrashFacts DEF DirCrash, DirSafe, FoundSlipped, Slipped
<1>14. CASE UNCHANGED <<journalVars, dirVars>>
  BY <1>14 DEF journalVars, dirVars, DirSafe, FoundSlipped, Slipped
<1> QED
  BY <1>2, <1>3, <1>4, <1>5, <1>6, <1>7, <1>8, <1>9, <1>10, <1>11, <1>12, <1>13, <1>14 DEF DirNext

-----------------------------------------------------------------------------
(* The index of the sessions.                                               *)

OnSession(c, s) == mem[c] # None /\ mem[c].session = s

\* A caller at work on s has moved d there, or back or for good out of it, and
\* the index does not tell yet.
Moved(s, d) == \E c \in Callers : /\ OnSession(c, s) /\ mem[c].flow = "quarantine"
                                  /\ \E i \in mem[c].made : i.dir = d
Ended(s, d) == \E c \in Callers : /\ OnSession(c, s) /\ mem[c].flow # "quarantine"
                                  /\ \E i \in mem[c].made : i.dir = d

Tells(s, d) ==
    kept[s][d] # None <=> \/ Line(s, d, "active") \in dirIndex /\ ~Ended(s, d)
                          \/ Moved(s, d)

\* Who will write an index holds the one that is there, and who fills a session
\* has it alone.
Fresh(c) == WithIndex(c) /\ c \notin oldIndex => mem[c].list = dirIndex
Exclusive(c) ==
    mem[c] # None /\ mem[c].flow = "quarantine" =>
        /\ \A b \in Callers \ {c} : ~OnSession(b, mem[c].session)
        /\ \A i \in dirIndex : i.session # mem[c].session

DirTold ==
    None \notin oldIndex =>
        /\ \A c \in Callers : Fresh(c) /\ Exclusive(c)
        /\ \A s \in Sessions \ cut : \A d \in Dirs : Tells(s, d)

LEMMA BusyMeansOn ==
  ASSUME DirTypes, NEW s
  PROVE  SessionBusy(s) <=> \E c \in Callers : OnSession(c, s)
  BY DirHolds DEF DirTypes, SessionBusy, OnSession

\* A step in which c makes no line, and nothing is moved or written.
LEMMA ToldKept ==
  ASSUME DirTypes, DirTold, None \notin oldIndex, NEW c \in Callers, Moves(c),
         UNCHANGED <<kept, dirIndex, cut>>, oldIndex' \in {oldIndex, oldIndex \ {c}},
         mem[c] # None, mem'[c] # None, mem'[c].flow = mem[c].flow,
         mem'[c].session = mem[c].session, mem'[c].made = mem[c].made, Fresh(c)'
  PROVE  DirTold'
<1>1. \A b \in Callers \ {c} : pc'[b] = pc[b] /\ mem'[b] = mem[b]
  BY DirOthers DEF DirTypes
<1>2. \A b \in Callers : Fresh(b)'
  BY <1>1 DEF DirTold, Fresh, WithIndex
<1>3. \A b \in Callers : \A s : OnSession(b, s)' <=> OnSession(b, s)
  BY <1>1 DEF OnSession
<1>4. ASSUME NEW b \in Callers PROVE Exclusive(b)'
  <2>1. Exclusive(b)
    BY DEF DirTold
  <2>2. mem'[b] # None <=> mem[b] # None
    BY <1>1
  <2>3. mem[b] # None => mem'[b].flow = mem[b].flow /\ mem'[b].session = mem[b].session
    BY <1>1
  <2> QED
    BY <1>3, <2>1, <2>2, <2>3 DEF Exclusive, OnSession
<1>5. \A b \in Callers : mem[b] # None => mem'[b].flow = mem[b].flow /\ mem'[b].made = mem[b].made
  BY <1>1
<1>6. ASSUME NEW s \in Sessions, NEW d \in Dirs
      PROVE  (Moved(s, d)' <=> Moved(s, d)) /\ (Ended(s, d)' <=> Ended(s, d))
  <2>1. \A b \in Callers : OnSession(b, s) =>
           mem'[b].flow = mem[b].flow /\ mem'[b].made = mem[b].made
    BY <1>5 DEF OnSession
  <2> QED
    BY <1>3, <2>1 DEF Moved, Ended
<1>7. \A s \in Sessions \ cut' : \A d \in Dirs : Tells(s, d)'
  BY <1>6 DEF DirTold, Tells, Line
<1> QED
  BY <1>2, <1>4, <1>7 DEF DirTold

\* A line c makes about one directory says nothing of the others.
LEMMA OtherKeys ==
  ASSUME DirTypes, NEW c \in Callers, NEW d \in Dirs, NEW state, Works(c, d), UNCHANGED dirIndex,
         mem'[c].made = mem[c].made \cup {Line(mem[c].session, d, state)}
  PROVE  /\ \A s \in Sessions : \A e \in Dirs : s # mem[c].session \/ e # d =>
               (Moved(s, e)' <=> Moved(s, e)) /\ (Ended(s, e)' <=> Ended(s, e))
         /\ \A b \in Callers : Exclusive(b) => Exclusive(b)'
         /\ \A b \in Callers : \A s : OnSession(b, s)' <=> OnSession(b, s)
<1>1. \A b \in Callers \ {c} : pc'[b] = pc[b] /\ mem'[b] = mem[b]
  BY DirOthers DEF DirTypes, Works
<1>2. /\ mem[c] # None /\ mem'[c] # None /\ mem'[c].flow = mem[c].flow
      /\ mem'[c].session = mem[c].session
  BY DEF Works
<1>3. \A b \in Callers : \A s : OnSession(b, s)' <=> OnSession(b, s)
  BY <1>1, <1>2 DEF OnSession
<1>4. ASSUME NEW b \in Callers, Exclusive(b) PROVE Exclusive(b)'
  <2>1. mem'[b] # None <=> mem[b] # None
    BY <1>1, <1>2
  <2>2. mem[b] # None => mem'[b].flow = mem[b].flow /\ mem'[b].session = mem[b].session
    BY <1>1, <1>2
  <2> QED
    BY <1>3, <1>4, <2>1, <2>2 DEF Exclusive, OnSession
<1>5. ASSUME NEW s \in Sessions, NEW e \in Dirs, s # mem[c].session \/ e # d
      PROVE  (Moved(s, e)' <=> Moved(s, e)) /\ (Ended(s, e)' <=> Ended(s, e))
  <2>1. ASSUME NEW b \in Callers, OnSession(b, s)
        PROVE  /\ mem'[b].flow = mem[b].flow
               /\ (\E i \in mem'[b].made : i.dir = e) <=> \E i \in mem[b].made : i.dir = e
    <3>1. CASE b = c
      <4>1. e # d /\ Line(mem[c].session, d, state).dir = d
        BY <1>5, <2>1, <3>1 DEF OnSession, Line
      <4> QED
        BY <1>2, <3>1, <4>1
    <3>2. CASE b # c
      BY <1>1, <3>2
    <3> QED
      BY <3>1, <3>2
  <2> QED
    BY <1>3, <2>1 DEF Moved, Ended
<1> QED
  BY <1>3, <1>4, <1>5

LEMMA DirToldStays ==
  ASSUME DirTypes, DirTypes', DirTold, [DirNext]_<<journalVars, dirVars>>
  PROVE  DirTold'
<1> SUFFICES ASSUME None \notin oldIndex' PROVE DirTold'
  BY DEF DirTold
<1>0. /\ kept \in [Sessions -> [Dirs -> (SUBSET DirFiles) \cup {None}]]
      /\ tree \in [Dirs -> (SUBSET DirFiles) \cup {None}]
      /\ \A c \in Callers : c # None
  BY NoDirAssumption DEF DirTypes, DirTypeOK
<1>1. ASSUME NEW c \in Callers, NEW s \in Sessions, NEW selected \in SUBSET Dirs,
             StartDirQuarantine(c, s, selected)
      PROVE  DirTold'
  <2>1. /\ Moves(c) /\ mem[c] = None /\ pc'[c] = "d_item" /\ mem'[c] # None
        /\ mem'[c] = DirMem("quarantine", s, selected)
    BY <1>1, StartDirFacts
  <2>2. mem'[c].flow = "quarantine" /\ mem'[c].session = s /\ mem'[c].made = {}
    BY <2>1 DEF DirMem
  <2>3. UNCHANGED <<kept, dirIndex, cut, oldIndex>> /\ ~SessionBusy(s)
        /\ \A i \in dirIndex : i.session # s
    BY <1>1 DEF StartDirQuarantine, dirVars
  <2>4. \A b \in Callers : ~OnSession(b, s)
    BY <2>3, BusyMeansOn
  <2>5. \A b \in Callers \ {c} : pc'[b] = pc[b] /\ mem'[b] = mem[b]
    BY <2>1, DirOthers DEF DirTypes
  <2>6. \A b \in Callers : Fresh(b)'
    BY <2>1, <2>2, <2>3, <2>5 DEF DirTold, Fresh, WithIndex
  <2>7. ASSUME NEW b \in Callers PROVE Exclusive(b)'
    <3>1. CASE b = c
      BY <2>2, <2>3, <2>4, <2>5, <3>1 DEF Exclusive, OnSession
    <3>2. CASE b # c
      <4>1. Exclusive(b)
        BY <2>3 DEF DirTold
      <4>2. mem[b] # None => mem[b].session # s
        BY <2>4 DEF OnSession
      <4> QED
        BY <2>1, <2>2, <2>3, <2>5, <3>2, <4>1, <4>2 DEF Exclusive, OnSession
    <3> QED
      BY <3>1, <3>2
  <2>8. ASSUME NEW t \in Sessions, NEW d \in Dirs
        PROVE  (Moved(t, d)' <=> Moved(t, d)) /\ (Ended(t, d)' <=> Ended(t, d))
    BY <2>1, <2>2, <2>5 DEF Moved, Ended, OnSession
  <2> QED
    BY <2>3, <2>6, <2>7, <2>8 DEF DirTold, Tells, Line
<1>2. ASSUME NEW c \in Callers, NEW target \in {"restored", "deleted"}, NEW s \in Sessions,
             NEW selected \in SUBSET Dirs, StartDirEnd(c, target, s, selected)
      PROVE  DirTold'
  <2>1. /\ Moves(c) /\ mem[c] = None /\ pc'[c] = "d_item" /\ mem'[c] # None
        /\ mem'[c].flow = target /\ mem'[c].session = s /\ mem'[c].made = {}
        /\ mem'[c].list = dirIndex /\ \E i \in dirIndex : i.session = s
    BY <1>2, StartEndFacts
  <2>2. UNCHANGED <<kept, dirIndex, cut>> /\ oldIndex' = oldIndex \ {c}
    BY <1>2 DEF StartDirEnd
  <2>3. None \notin oldIndex
    BY <1>0, <2>2
  <2>4. \A b \in Callers \ {c} : pc'[b] = pc[b] /\ mem'[b] = mem[b]
    BY <2>1, DirOthers DEF DirTypes
  <2>5. \A b \in Callers : Fresh(b)'
    BY <2>1, <2>2, <2>3, <2>4 DEF DirTold, Fresh, WithIndex
  <2>6. ASSUME NEW b \in Callers PROVE Exclusive(b)'
    <3>1. CASE b = c
      BY <2>1, <3>1 DEF Exclusive
    <3>2. CASE b # c
      <4>1. Exclusive(b)
        BY <2>3 DEF DirTold
      <4> QED
        BY <2>1, <2>2, <2>4, <3>2, <4>1 DEF Exclusive, OnSession
    <3> QED
      BY <3>1, <3>2
  <2>7. ASSUME NEW t \in Sessions, NEW d \in Dirs
        PROVE  (Moved(t, d)' <=> Moved(t, d)) /\ (Ended(t, d)' <=> Ended(t, d))
    BY <2>1, <2>4 DEF Moved, Ended, OnSession
  <2> QED
    BY <2>2, <2>3, <2>5, <2>6, <2>7 DEF DirTold, Tells, Line
<1>3. ASSUME NEW c \in Callers, MoveDir(c) PROVE DirTold'
  <2>1. PICK d \in Dirs :
           /\ Works(c, d)
           /\ \/ /\ tree[d] # None
                 /\ kept' = [kept EXCEPT ![mem[c].session][d] = tree[d]]
                 /\ tree' = [tree EXCEPT ![d] = None]
                 /\ mem'[c].made = mem[c].made \cup {Line(mem[c].session, d, "active")}
              \/ UNCHANGED <<tree, kept>> /\ mem'[c].made = mem[c].made
    BY <1>3, MoveDirFacts
  <2>2. /\ UNCHANGED <<dirIndex, cut, oldIndex>> /\ mem[c].session \in Sessions
        /\ Moves(c) /\ mem[c] # None /\ mem[c].flow = "quarantine" /\ pc'[c] = "d_item"
        /\ mem'[c] # None /\ mem'[c].flow = mem[c].flow /\ mem'[c].session = mem[c].session
    BY <1>3, <2>1 DEF MoveDir, Works
  <2>3. Fresh(c)'
    BY <2>2 DEF Fresh, WithIndex
  <2>4. CASE UNCHANGED <<tree, kept>> /\ mem'[c].made = mem[c].made
    BY <2>2, <2>3, <2>4, ToldKept
  <2>5. CASE /\ tree[d] # None
             /\ kept' = [kept EXCEPT ![mem[c].session][d] = tree[d]]
             /\ mem'[c].made = mem[c].made \cup {Line(mem[c].session, d, "active")}
    <3>1. /\ \A s \in Sessions : \A e \in Dirs : s # mem[c].session \/ e # d =>
                (Moved(s, e)' <=> Moved(s, e)) /\ (Ended(s, e)' <=> Ended(s, e))
          /\ \A b \in Callers : Exclusive(b) => Exclusive(b)'
      BY <2>1, <2>2, <2>5, OtherKeys
    <3>2. \A b \in Callers \ {c} : pc'[b] = pc[b] /\ mem'[b] = mem[b]
      BY <2>2, DirOthers DEF DirTypes
    <3>3. \A b \in Callers : Fresh(b)' /\ Exclusive(b)'
      BY <2>2, <2>3, <3>1, <3>2 DEF DirTold, Fresh, WithIndex
    <3>4. ASSUME NEW s \in Sessions \ cut', NEW e \in Dirs PROVE Tells(s, e)'
      <4>1. kept'[s][e] = IF s = mem[c].session /\ e = d THEN tree[d] ELSE kept[s][e]
        BY <1>0, <2>2, <2>5
      <4>2. CASE s = mem[c].session /\ e = d
        <5>1. Moved(s, e)'
          <6>1. OnSession(c, s)' /\ mem'[c].flow = "quarantine"
            BY <2>2, <4>2 DEF OnSession
          <6>2. Line(mem[c].session, d, "active") \in mem'[c].made
                /\ Line(mem[c].session, d, "active").dir = e
            BY <2>5, <4>2 DEF Line
          <6> QED
            BY <6>1, <6>2 DEF Moved
        <5> QED
          BY <2>5, <4>1, <4>2, <5>1 DEF Tells
      <4>3. CASE s # mem[c].session \/ e # d
        BY <2>2, <3>1, <4>1, <4>3 DEF DirTold, Tells, Line
      <4> QED
        BY <4>2, <4>3
    <3> QED
      BY <3>3, <3>4 DEF DirTold
  <2> QED
    BY <2>1, <2>4, <2>5
<1>4. ASSUME NEW c \in Callers, NEW d \in Dirs, NEW state, Works(c, d), mem[c].flow # "quarantine",
             mem[c].flow \in {"restored", "deleted"}, UNCHANGED <<dirIndex, cut, oldIndex>>,
             \/ /\ kept' = [kept EXCEPT ![mem[c].session][d] = None]
                /\ mem'[c].made = mem[c].made \cup {Line(mem[c].session, d, state)}
             \/ UNCHANGED kept /\ mem'[c].made = mem[c].made
      PROVE  DirTold'
  <2>1. /\ mem[c].session \in Sessions
        /\ Moves(c) /\ mem[c] # None /\ pc'[c] = "d_item" /\ mem'[c].list = mem[c].list
        /\ mem'[c] # None /\ mem'[c].flow = mem[c].flow /\ mem'[c].session = mem[c].session
    BY <1>4 DEF Works
  <2>2. Fresh(c)'
    BY <1>4, <2>1 DEF DirTold, Fresh, WithIndex
  <2>3. CASE UNCHANGED kept /\ mem'[c].made = mem[c].made
    BY <1>4, <2>1, <2>2, <2>3, ToldKept
  <2>4. CASE /\ kept' = [kept EXCEPT ![mem[c].session][d] = None]
             /\ mem'[c].made = mem[c].made \cup {Line(mem[c].session, d, state)}
    <3>1. /\ \A s \in Sessions : \A e \in Dirs : s # mem[c].session \/ e # d =>
                (Moved(s, e)' <=> Moved(s, e)) /\ (Ended(s, e)' <=> Ended(s, e))
          /\ \A b \in Callers : Exclusive(b) => Exclusive(b)'
      BY <1>4, <2>4, OtherKeys
    <3>2. \A b \in Callers \ {c} : pc'[b] = pc[b] /\ mem'[b] = mem[b]
      BY <2>1, DirOthers DEF DirTypes
    <3>3. \A b \in Callers : Fresh(b)' /\ Exclusive(b)'
      BY <1>4, <2>2, <3>1, <3>2 DEF DirTold, Fresh, WithIndex
    <3>4. ASSUME NEW s \in Sessions \ cut', NEW e \in Dirs PROVE Tells(s, e)'
      <4>1. kept'[s][e] = IF s = mem[c].session /\ e = d THEN None ELSE kept[s][e]
        BY <1>0, <2>1, <2>4
      <4>2. CASE s = mem[c].session /\ e = d
        <5>1. Ended(s, e)'
          <6>1. OnSession(c, s)' /\ mem'[c].flow # "quarantine"
            BY <1>4, <2>1, <4>2 DEF OnSession
          <6>2. Line(mem[c].session, d, state) \in mem'[c].made
                /\ Line(mem[c].session, d, state).dir = e
            BY <2>4, <4>2 DEF Line
          <6> QED
            BY <6>1, <6>2 DEF Ended
        <5>2. ~Moved(s, e)'
          BY <1>4, <2>1, <3>3, <4>2 DEF Moved, Exclusive, OnSession
        <5> QED
          BY <4>1, <4>2, <5>1, <5>2 DEF Tells
      <4>3. CASE s # mem[c].session \/ e # d
        BY <1>4, <3>1, <4>1, <4>3 DEF DirTold, Tells, Line
      <4> QED
        BY <4>2, <4>3
    <3> QED
      BY <3>3, <3>4 DEF DirTold
  <2> QED
    BY <1>4, <2>3, <2>4
<1>5. ASSUME NEW c \in Callers, RestoreDir(c) PROVE DirTold'
  <2>1. mem[c].flow = "restored" /\ UNCHANGED <<dirIndex, cut, oldIndex>>
    BY <1>5 DEF RestoreDir
  <2>2. PICK d \in Dirs :
           /\ Works(c, d)
           /\ \/ /\ tree[d] = None /\ kept[mem[c].session][d] # None
                 /\ tree' = [tree EXCEPT ![d] = kept[mem[c].session][d]]
                 /\ kept' = [kept EXCEPT ![mem[c].session][d] = None]
                 /\ mem'[c].made = mem[c].made \cup {Line(mem[c].session, d, "restored")}
              \/ UNCHANGED <<tree, kept>> /\ mem'[c].made = mem[c].made
    BY <1>5, RestoreDirFacts
  <2> QED
    BY <1>4, <2>1, <2>2
<1>6. ASSUME NEW c \in Callers, RemoveDir(c) PROVE DirTold'
  <2>1. mem[c].flow = "deleted" /\ UNCHANGED <<dirIndex, cut, oldIndex>>
    BY <1>6 DEF RemoveDir
  <2>2. PICK d \in Dirs :
           /\ Works(c, d)
           /\ \/ /\ kept[mem[c].session][d] # None
                 /\ kept' = [kept EXCEPT ![mem[c].session][d] = None]
                 /\ mem'[c].made = mem[c].made \cup {Line(mem[c].session, d, "deleted")}
              \/ UNCHANGED kept /\ mem'[c].made = mem[c].made
    BY <1>6, RemoveDirFacts
  <2> QED
    BY <1>4, <2>1, <2>2
<1>7. ASSUME NEW c \in Callers, ReadDirIndex(c) PROVE DirTold'
  <2>1. /\ Moves(c) /\ mem[c] # None /\ mem'[c] # None
        /\ mem'[c].flow = mem[c].flow /\ mem'[c].session = mem[c].session
        /\ mem'[c].made = mem[c].made /\ mem'[c].list = dirIndex
    BY <1>7, ReadIndexFacts
  <2>2. UNCHANGED <<kept, dirIndex, cut>> /\ oldIndex' = oldIndex \ {c} /\ None \notin oldIndex
    BY <1>0, <1>7 DEF ReadDirIndex
  <2>3. Fresh(c)'
    BY <2>1, <2>2 DEF Fresh
  <2> QED
    BY <2>1, <2>2, <2>3, ToldKept
<1>8. ASSUME NEW c \in Callers, EndItems(c) PROVE DirTold'
  <2>1. Moves(c) /\ mem' = mem /\ mem[c] # None /\ mem[c].flow \in {"restored", "deleted"}
    BY <1>8, EndItemsFacts
  <2>2. UNCHANGED <<kept, dirIndex, cut, oldIndex>>
    BY <1>8 DEF EndItems, dirVars
  <2>3. Fresh(c)'
    BY <2>1, <2>2 DEF DirTold, Fresh, WithIndex
  <2> QED
    BY <2>1, <2>2, <2>3, ToldKept
<1>9. ASSUME NEW c \in Callers, WriteDirIndex(c) PROVE DirTold'
  <2>1. /\ Moves(c) /\ mem'[c] = None /\ mem[c] # None /\ pc[c] = "d_write" /\ pc'[c] = "idle"
        /\ \A i : i \in dirIndex' <=>
              \/ i \in mem[c].made
              \/ /\ i \in mem[c].list
                 /\ \A j \in mem[c].made : ~(i.session = j.session /\ i.dir = j.dir)
    BY <1>9, WriteIndexFacts
  <2>2. /\ UNCHANGED <<kept, cut>>
        /\ oldIndex' = (oldIndex \cup {d \in Callers \ {c} : WithIndex(d)}
                                 \cup (IF c \in oldIndex THEN {None} ELSE {})) \ {c}
    BY <1>9 DEF WriteDirIndex
  <2>3. c \notin oldIndex /\ None \notin oldIndex
    BY <1>0, <2>2
  <2>4. mem[c].list = dirIndex
    BY <2>1, <2>3 DEF DirTold, Fresh, WithIndex
  <2>5. \A b \in Callers \ {c} : pc'[b] = pc[b] /\ mem'[b] = mem[b]
    BY <2>1, DirOthers DEF DirTypes
  <2>6. /\ \A i \in mem[c].made : i.session = mem[c].session
        /\ mem[c].made \subseteq DirItem /\ OwnLines(mem[c])
        /\ mem[c].flow \in {"quarantine", "restored", "deleted"}
    <3>1. mem[c] \in DirMemory /\ OwnLines(mem[c])
      BY <2>1, DirHolds DEF DirTypes
    <3> QED
      BY <3>1 DEF DirMemory, OwnLines
  <2>7. \A b \in Callers : Fresh(b)'
    BY <2>1, <2>2, <2>5 DEF Fresh, WithIndex
  <2>8. ASSUME NEW b \in Callers PROVE Exclusive(b)'
    <3>1. CASE b = c
      BY <2>1, <3>1 DEF Exclusive
    <3>2. CASE b # c
      <4>1. Exclusive(b) /\ (mem[b] # None /\ mem[b].flow = "quarantine" =>
                                mem[b].session # mem[c].session)
        BY <2>1, <2>3, <3>2 DEF DirTold, Exclusive, OnSession
      <4> QED
        BY <2>1, <2>4, <2>5, <2>6, <3>2, <4>1 DEF Exclusive, OnSession
    <3> QED
      BY <3>1, <3>2
  <2>9. ASSUME NEW s \in Sessions \ cut', NEW d \in Dirs PROVE Tells(s, d)'
    <3> DEFINE line == Line(s, d, "active")
    <3>1. Tells(s, d) /\ line.session = s /\ line.dir = d /\ line.state = "active"
      BY <2>2, <2>3 DEF DirTold, Line
    <3>2. \A b \in Callers : OnSession(b, s)' <=> b # c /\ OnSession(b, s)
      BY <2>1, <2>5 DEF OnSession
    <3>3. CASE s # mem[c].session
      <4>1. line \in dirIndex' <=> line \in dirIndex
        BY <2>1, <2>4, <2>6, <3>1, <3>3
      <4>2. (Moved(s, d)' <=> Moved(s, d)) /\ (Ended(s, d)' <=> Ended(s, d))
        BY <2>5, <3>2, <3>3 DEF Moved, Ended, OnSession
      <4> QED
        BY <2>2, <3>1, <4>1, <4>2 DEF Tells, Line
    <3>4. CASE s = mem[c].session /\ mem[c].flow = "quarantine"
      <4>1. \A b \in Callers \ {c} : ~OnSession(b, s)
        BY <2>1, <2>3, <3>4 DEF DirTold, Exclusive
      <4>2. ~Moved(s, d)' /\ ~Ended(s, d)' /\ ~Ended(s, d)
        BY <3>2, <3>4, <4>1 DEF Moved, Ended, OnSession
      <4>3. line \notin dirIndex
        BY <2>1, <2>3, <3>1, <3>4 DEF DirTold, Exclusive
      <4>4. line \in dirIndex' <=> line \in mem[c].made
        BY <2>1, <2>4, <4>3
      <4>5. Moved(s, d) <=> \E i \in mem[c].made : i.dir = d
        BY <2>1, <3>4, <4>1 DEF Moved, OnSession
      <4>6. \A i \in mem[c].made : i.dir = d => i = line
        <5>1. \A i \in mem[c].made : i \in DirItem /\ i.session = s /\ i.state = "active"
          BY <2>6, <3>4 DEF OwnLines
        <5> QED
          BY <5>1 DEF DirItem, Line
      <4>7. line \in dirIndex' <=> Moved(s, d)
        BY <3>1, <4>4, <4>5, <4>6
      <4> QED
        BY <2>2, <3>1, <4>2, <4>3, <4>7 DEF Tells, Line
    <3>5. CASE s = mem[c].session /\ mem[c].flow # "quarantine"
      <4>1. \A b \in Callers : OnSession(b, s) => mem[b].flow # "quarantine"
        BY <2>1, <2>3, <3>5 DEF DirTold, Exclusive, OnSession
      <4>2. ~Moved(s, d) /\ ~Moved(s, d)'
        BY <2>5, <3>2, <4>1 DEF Moved
      <4>3. Ended(s, d) <=> Ended(s, d)' \/ \E i \in mem[c].made : i.dir = d
        BY <2>1, <2>5, <3>2, <3>5 DEF Ended, OnSession
      <4>4. line \notin mem[c].made
        BY <2>6, <3>1, <3>5 DEF OwnLines
      <4>5. line \in dirIndex' <=> line \in dirIndex /\ ~(\E i \in mem[c].made : i.dir = d)
        BY <2>1, <2>4, <2>6, <3>1, <3>5, <4>4
      <4> QED
        BY <2>2, <3>1, <4>2, <4>3, <4>5 DEF Tells, Line
    <3> QED
      BY <3>3, <3>4, <3>5
  <2> QED
    BY <2>7, <2>8, <2>9 DEF DirTold
<1>10. ASSUME NEW d \in Dirs,
              \/ DirMade(d)
              \/ \E x \in DirFiles : FileAdded(d, x) \/ FileTaken(d, x)
       PROVE  DirTold'
  <2>1. UNCHANGED <<pc, mem, kept, dirIndex, cut, oldIndex>>
    BY <1>10 DEF DirMade, FileAdded, FileTaken
  <2> QED
    BY <2>1 DEF DirTold, Fresh, WithIndex, Exclusive, OnSession, Tells, Moved, Ended, Line
<1>11. ASSUME JournalCrash, DirCrash PROVE DirTold'
  <2>1. /\ UNCHANGED <<kept, dirIndex>> /\ cut' = cut \cup {s \in Sessions : SessionBusy(s)}
        /\ None \notin oldIndex
    BY <1>11 DEF DirCrash
  <2>2. \A c \in Callers : mem'[c] = None
    BY <1>11, DirCrashFacts
  <2>3. \A c \in Callers : Fresh(c)' /\ Exclusive(c)'
    BY <2>2 DEF Fresh, WithIndex, Exclusive
  <2>4. ASSUME NEW s \in Sessions \ cut', NEW d \in Dirs PROVE Tells(s, d)'
    <3>1. Tells(s, d) /\ \A c \in Callers : ~OnSession(c, s)
      BY <2>1, BusyMeansOn DEF DirTold
    <3>2. ~Moved(s, d)' /\ ~Ended(s, d)'
      BY <2>2 DEF Moved, Ended, OnSession
    <3> QED
      BY <2>1, <3>1, <3>2 DEF Tells, Moved, Ended, Line
  <2> QED
    BY <2>3, <2>4 DEF DirTold
<1>12. CASE UNCHANGED <<journalVars, dirVars>>
  BY <1>12 DEF journalVars, dirVars, DirTold, Fresh, WithIndex, Exclusive, OnSession, Tells, Moved,
              Ended, Line
<1> QED
  BY <1>1, <1>2, <1>3, <1>5, <1>6, <1>7, <1>8, <1>9, <1>10, <1>11, <1>12 DEF DirNext

-----------------------------------------------------------------------------
(* The quarantine of directories as a whole.                                *)

DirInv == DirTypes /\ DirSafe /\ DirTold

LEMMA DirStarts ==
  ASSUME JournalInit, DirInit
  PROVE  DirInv
<1>1. /\ \A c \in Callers : pc[c] = "idle" /\ mem[c] = None
      /\ \A s \in Sessions : \A d \in Dirs : kept[s][d] = None
      /\ dirIndex = {} /\ alive = {}
  BY DEF JournalInit, DirInit
<1>2. DirCallers
  <2>1. pc \in [Callers -> DirSteps] /\ mem \in [Callers -> DirMemory \cup {None}]
    BY DEF JournalInit, DirSteps
  <2> QED
    BY <1>1, <2>1, DirIdleFits DEF DirCallers
<1>3. DirTypeOK
  <2>1. tree \in [Dirs -> (SUBSET DirFiles) \cup {None}]
    BY DEF DirInit
  <2>2. kept \in [Sessions -> [Dirs -> (SUBSET DirFiles) \cup {None}]]
    BY DEF DirInit
  <2> QED
    BY <1>1, <2>1, <2>2 DEF DirTypeOK
<1>4. DirSafe
  BY <1>1 DEF DirSafe, Slipped, FoundSlipped
<1>5. DirTold
  BY <1>1 DEF DirTold, Fresh, WithIndex, Exclusive, Tells, Moved, Ended, OnSession
<1> QED
  BY <1>2, <1>3, <1>4, <1>5 DEF DirInv, DirTypes

LEMMA DirStep ==
  ASSUME DirInv, [DirNext]_<<journalVars, dirVars>>
  PROVE  DirInv'
<1>1. DirTypes'
  BY DirTyped DEF DirInv
<1> QED
  BY <1>1, DirSafeStays, DirToldStays DEF DirInv

LEMMA DirKeeps ==
  ASSUME DirInv
  PROVE  DirFilesKept /\ DirIndexTrue
<1>1. DirFilesKept
  BY DEF DirInv, DirSafe, DirFilesKept
<1>2. DirIndexTrue
  <2> SUFFICES ASSUME None \notin oldIndex, NEW s \in Sessions \ cut, ~SessionBusy(s), NEW d \in Dirs
               PROVE  kept[s][d] # None <=> Line(s, d, "active") \in dirIndex
    BY DEF DirIndexTrue, Line
  <2>1. \A c \in Callers : ~OnSession(c, s)
    BY BusyMeansOn DEF DirInv
  <2>2. Tells(s, d)
    BY DEF DirInv, DirTold
  <2> QED
    BY <2>1, <2>2 DEF Tells, Moved, Ended
<1> QED
  BY <1>1, <1>2

LEMMA DirUnused ==
  ASSUME DirInit
  PROVE  DirFilesKept /\ DirIndexTrue
<1>1. alive = {} /\ dirIndex = {} /\ \A s \in Sessions : \A d \in Dirs : kept[s][d] = None
  BY DEF DirInit
<1> QED
  BY <1>1 DEF DirFilesKept, DirIndexTrue

-----------------------------------------------------------------------------
(* Catalog remediation: what callers, runs and indexes hold.                *)

Outcomes == {"applied", "failed", "skipped", "already_removed"}
RemMemory ==
    [run : Runs, kind : ActionKinds, todo : SUBSET RemFinding, finding : RemFinding \cup {None},
     old : Paths \cup {None}, done : SUBSET Outcomes]
RemEntry ==
    [item : Assets \cup Paths, status : {"applied"}, undo : {FALSE}, old : Paths \cup {None},
     new : Paths \cup {None}]

RemFitting(s, m) ==
    /\ s # "idle" => m \in RemMemory
    /\ s = "journal" => m.finding \in RemFinding

RemCallers ==
    /\ pc \in [Callers -> {"idle", "item", "journal"}] /\ mem \in [Callers -> RemMemory \cup {None}]
    /\ \A c \in Callers : RemFitting(pc[c], mem[c])

WorldTypes ==
    /\ original \in [Assets -> Paths \cup {None}] /\ disk \in [Paths -> Contents \cup {None}]
    /\ committed \in Index \cup {None} /\ walk \in Index \cup {None}
    /\ fixed \subseteq Assets

StoreTypes ==
    /\ runs \in [Runs -> RemRun \cup {None}]
    /\ journal \in [Runs -> Seq(RemEntry)]

RemTypes == RemCallers /\ WorldTypes /\ StoreTypes

LEMMA RemOthers ==
  ASSUME RemCallers, NEW c \in Callers, Moves(c)
  PROVE  \A d \in Callers : d # c => pc'[d] = pc[d] /\ mem'[d] = mem[d]
  BY DEF RemCallers, Moves

LEMMA RemCallerStep ==
  ASSUME RemCallers, NEW c \in Callers, Moves(c), pc'[c] \in {"idle", "item", "journal"},
         mem'[c] \in RemMemory \cup {None}, RemFitting(pc'[c], mem'[c])
  PROVE  RemCallers'
<1>1. pc' \in [Callers -> {"idle", "item", "journal"}] /\ mem' \in [Callers -> RemMemory \cup {None}]
  BY DEF RemCallers, Moves
<1>2. \A d \in Callers : RemFitting(pc'[d], mem'[d])
  BY RemOthers DEF RemCallers
<1> QED
  BY <1>1, <1>2 DEF RemCallers

LEMMA RemGo ==
  ASSUME RemCallers, NEW c \in Callers, NEW s, NEW m, Goes(c, s), Holds(c, m)
  PROVE  Moves(c) /\ pc'[c] = s /\ mem'[c] = m
  BY DEF RemCallers, Goes, Holds, Moves

-----------------------------------------------------------------------------
(* What a scan finds.                                                       *)

\* A set of positions has a first one.
LEMMA FirstExists ==
  ASSUME NEW S, S \subseteq Nat, S # {}
  PROVE  \E i \in S : \A j \in S : i <= j
<1>1. PICK i \in S : \A j \in S : ~(<<j, i>> \in OpToRel(<, Nat))
  BY NatLessThanWellFounded, WFMin
<1>2. \A j \in S : ~(j < i)
  BY <1>1 DEF OpToRel
<1> QED
  BY <1>2

LEMMA FirstListedFacts ==
  ASSUME NEW S, S \subseteq DOMAIN ListOrder
  PROVE  /\ S = {} => FirstListed(S) = None
         /\ S # {} => \E i \in S : FirstListed(S) = ListOrder[i]
<1>1. DOMAIN ListOrder \subseteq Nat
  BY RemediationConstants
<1>2. CASE S # {}
  <2>1. \E i \in S : \A j \in S : i <= j
    BY <1>1, <1>2, FirstExists
  <2> QED
    BY <1>2, <2>1 DEF FirstListed
<1> QED
  BY <1>2 DEF FirstListed

\* _search_for_relocated_file finds a listed file of the name of the asset, if
\* there is one elsewhere.
LEMMA LocatedFacts ==
  ASSUME NEW a
  PROVE  /\ Located(a) # None => /\ Located(a) \in Paths /\ Located(a) \in committed.listed
                                 /\ NameOf[Located(a)] = NameOf[a]
         /\ Located(a) = None => \A p \in Paths : p \in committed.listed /\ p # original[a] =>
                                                      NameOf[p] # NameOf[a]
<1> DEFINE S == {i \in DOMAIN ListOrder : /\ ListOrder[i] \in committed.listed
                                          /\ NameOf[ListOrder[i]] = NameOf[a]
                                          /\ ListOrder[i] # original[a]}
<1>1. Located(a) = FirstListed(S)
  BY DEF Located
<1>2. S = {} => FirstListed(S) = None
  BY FirstListedFacts
<1>3. S # {} => \E i \in S : FirstListed(S) = ListOrder[i]
  BY FirstListedFacts
<1>4. \A i \in DOMAIN ListOrder : ListOrder[i] \in Paths /\ ListOrder[i] # None
  BY RemediationConstants, NoRemAssumption
<1>5. \A p \in Paths : \E i \in DOMAIN ListOrder : p = ListOrder[i]
  BY RemediationConstants
<1> QED
  BY <1>1, <1>2, <1>3, <1>4, <1>5

\* A finding without a file elsewhere is for the removal of its row, one whose
\* file elsewhere has the right content for a new path.
BrokenWell(f, a) ==
    /\ f \in RemFinding /\ f.item = a /\ f.from = original[a]
    /\ f.actions \subseteq {"broken_db_cleanup", "broken_db_path_fix"}
    /\ "broken_db_cleanup" \in f.actions => Located(a) = None
    /\ "broken_db_path_fix" \in f.actions =>
          /\ f.at \in Uploads /\ NameOf[f.at] = NameOf[a] /\ disk[f.at] = Checksum[a]

LEMMA BrokenFacts ==
  ASSUME WorldTypes, NEW a \in Assets, original[a] # None
  PROVE  BrokenWell(BrokenFinding(a), a)
<1> DEFINE p == Located(a)
<1>1. original[a] \in Paths
  BY DEF WorldTypes
<1>2. p # None => p \in Paths /\ NameOf[p] = NameOf[a]
  BY LocatedFacts
<1> HIDE DEF p
<1>3. CASE p = None
  <2>1. BrokenFinding(a) = [item |-> a, class |-> "missing_confirmed", from |-> original[a],
                            at |-> None, actions |-> {"broken_db_cleanup"}]
    BY <1>3 DEF BrokenFinding, Finding, p
  <2>2. BrokenFinding(a) \in RemFinding
    BY <1>1, <2>1 DEF RemFinding, FindingClasses, ActionKinds
  <2> QED
    BY <1>3, <2>1, <2>2 DEF BrokenWell, p
<1>4. CASE p # None /\ Verified(a, p)
  <2>1. BrokenFinding(a) = [item |-> a, class |-> "found_with_hash_match", from |-> original[a],
                            at |-> p, actions |-> {"broken_db_path_fix"}]
    BY <1>4 DEF BrokenFinding, Finding, p
  <2>2. BrokenFinding(a) \in RemFinding
    BY <1>1, <1>2, <1>4, <2>1 DEF RemFinding, FindingClasses, ActionKinds
  <2> QED
    BY <1>2, <1>4, <2>1, <2>2 DEF BrokenWell, Verified
<1>5. CASE p # None /\ ~Verified(a, p)
  <2>1. BrokenFinding(a) = [item |-> a, class |-> "found_elsewhere", from |-> original[a],
                            at |-> p, actions |-> {}]
    BY <1>5 DEF BrokenFinding, Finding, p
  <2>2. BrokenFinding(a) \in RemFinding
    BY <1>1, <1>2, <1>5, <2>1 DEF RemFinding, FindingClasses
  <2> QED
    BY <2>1, <2>2 DEF BrokenWell
<1> QED
  BY <1>3, <1>4, <1>5

LEMMA ZeroByteFacts ==
  ASSUME NEW f \in ZeroByteFindings, committed \in Index
  PROVE  f \in RemFinding /\ f.actions = {}
<1>1. PICK p \in committed.listed \ Hidden : f = Finding(p, ZeroByteClass(p), None, p, {})
  BY DEF ZeroByteFindings
<1>2. ZeroByteClass(p) \in FindingClasses
  BY DEF ZeroByteClass, FindingClasses
<1>3. p \in Paths
  BY <1>1 DEF Index
<1> QED
  BY <1>1, <1>2, <1>3 DEF Finding, RemFinding

LEMMA HiddenFacts ==
  ASSUME NEW p \in Hidden
  PROVE  /\ HiddenFinding(p) \in RemFinding /\ HiddenFinding(p).at = p
         /\ HiddenFinding(p).actions \subseteq {"fuse_hidden_delete"}
<1>1. p \in Paths
  BY RemediationConstants
<1>2. CASE tool = "inspects" /\ p \in handles
  <2>1. HiddenFinding(p) = [item |-> p, class |-> "blocked_in_use", from |-> None, at |-> p,
                            actions |-> {}]
    BY <1>2 DEF HiddenFinding, Finding
  <2> QED
    BY <1>1, <2>1 DEF RemFinding, FindingClasses
<1>3. CASE ~(tool = "inspects" /\ p \in handles)
  <2>1. HiddenFinding(p) = [item |-> p, from |-> None, at |-> p, actions |-> {"fuse_hidden_delete"},
                            class |-> IF tool = "unavailable" THEN "check_failed"
                                      ELSE "deletable_orphan"]
    BY <1>3 DEF HiddenFinding, Finding
  <2> QED
    BY <1>1, <2>1 DEF RemFinding, FindingClasses, ActionKinds
<1> QED
  BY <1>2, <1>3

\* What the scan offers for each action.
LEMMA ScanFacts ==
  ASSUME WorldTypes, NEW f \in Scan
  PROVE  /\ f \in RemFinding /\ committed # None
         /\ "broken_db_cleanup" \in f.actions => f.item \in Broken /\ Located(f.item) = None
         /\ "broken_db_path_fix" \in f.actions =>
               /\ f.item \in Assets /\ f.at \in Uploads /\ NameOf[f.at] = NameOf[f.item]
               /\ disk[f.at] = Checksum[f.item]
         /\ "fuse_hidden_delete" \in f.actions => f.at \in Hidden
<1>1. committed \in Index /\ committed # None
  BY DEF Scan, WorldTypes
<1>2. CASE \E a \in Broken : f = BrokenFinding(a)
  <2>1. PICK a \in Broken : f = BrokenFinding(a)
    BY <1>2
  <2>2. a \in Assets /\ original[a] # None
    BY DEF Broken
  <2>3. BrokenWell(f, a)
    BY <2>1, <2>2, BrokenFacts
  <2> QED
    BY <1>1, <2>2, <2>3 DEF BrokenWell
<1>3. CASE f \in ZeroByteFindings
  BY <1>1, <1>3, ZeroByteFacts
<1>4. CASE \E p \in committed.listed \cap Hidden : f = HiddenFinding(p)
  <2>1. PICK p \in Hidden : f = HiddenFinding(p)
    BY <1>4
  <2>2. f \in RemFinding /\ f.at = p /\ f.actions \subseteq {"fuse_hidden_delete"}
    BY <2>1, HiddenFacts
  <2> QED
    BY <1>1, <2>2
<1> QED
  BY <1>1, <1>2, <1>3, <1>4 DEF Scan

-----------------------------------------------------------------------------
(* What each step does to its caller and its run.                           *)

\* A step of remediation that starts, works on an item or ends.
LEMMA StatusFacts ==
  ASSUME NEW done \in SUBSET Outcomes
  PROVE  FinalStatus(done) \in RunStatus
  BY DEF FinalStatus, RunStatus

LEMMA FinishFacts ==
  ASSUME StoreTypes, NEW r \in Runs, runs[r] # None, NEW status \in RunStatus, Finish(r, status)
  PROVE  /\ runs' \in [Runs -> RemRun \cup {None}]
         /\ runs'[r] # None /\ runs'[r].token = runs[r].token /\ runs'[r].kind = runs[r].kind
         /\ \A q \in Runs : q # r => runs'[q] = runs[q]
<1>1. runs[r] \in RemRun
  BY DEF StoreTypes
<1>2. runs' = [runs EXCEPT ![r] = [runs[r] EXCEPT !.status = status]]
  BY DEF Finish
<1>3. [runs[r] EXCEPT !.status = status] \in RemRun
  BY <1>1 DEF RemRun
<1>4. runs'[r] = [runs[r] EXCEPT !.status = status]
  BY <1>2 DEF StoreTypes
<1> QED
  BY <1>1, <1>2, <1>3, <1>4, NoRemAssumption DEF StoreTypes, RemRun

LEMMA PreviewFacts ==
  ASSUME RemTypes, NEW c \in Callers, NEW r \in Runs, NEW kind \in ActionKinds, NEW asked,
         NEW all \in BOOLEAN, Preview(c, r, kind, asked, all)
  PROVE  /\ UNCHANGED <<journal, pc, mem, remVars>>
         /\ runs[r] = None /\ runs' \in [Runs -> RemRun \cup {None}]
         /\ \A q \in Runs : q # r => runs'[q] = runs[q]
<1> DEFINE selected == Select(Scan, kind, asked, all)
           new == NewRun(kind, "planned", [items |-> {f.item : f \in selected}, all |-> all],
                         selected)
<1>1. \A f \in selected : f \in RemFinding
  BY ScanFacts DEF RemTypes, Select
<1>2. {f.item : f \in selected} \subseteq Assets \cup Paths
  BY <1>1 DEF RemFinding
<1>3. new \in RemRun
  <2> HIDE DEF selected
  <2> QED
    BY <1>1, <1>2 DEF NewRun, RemRun, RunStatus
<1>4. runs[r] = None /\ runs' = [runs EXCEPT ![r] = new]
  BY DEF Preview, CreateRun
<1>5. UNCHANGED <<journal, pc, mem, remVars>>
  BY DEF Preview
<1> HIDE DEF new
<1> QED
  BY <1>3, <1>4, <1>5 DEF RemTypes, StoreTypes

\* The selection an apply is let through with is the token of its run.
LEMMA ApplyFacts ==
  ASSUME RemTypes, NEW c \in Callers, NEW r \in Runs, StartApply(c, r)
  PROVE  /\ UNCHANGED <<journal, world, shaken, fixed>> /\ superseded' = superseded \ {c}
         /\ pc[c] = "idle" /\ runs[r] # None
         /\ runs' \in [Runs -> RemRun \cup {None}]
         /\ runs'[r] # None /\ runs'[r].token = runs[r].token
         /\ \A q \in Runs : q # r => runs'[q] = runs[q]
         /\ RemCallers'
         /\ \/ /\ Moves(c) /\ pc'[c] = "item" /\ mem'[c].run = r
               /\ mem'[c].todo = runs[r].token
               /\ \A f \in mem'[c].todo : f \in Scan /\ mem'[c].kind \in f.actions
            \/ UNCHANGED <<pc, mem>>
<1> DEFINE run == runs[r]
           selected == Select(Scan, run.kind, run.scope.items, run.scope.all)
<1>1. run # None /\ run \in RemRun /\ pc[c] = "idle"
  BY DEF StartApply, Call, RemTypes, StoreTypes
<1>2. UNCHANGED <<journal, world, shaken, fixed>> /\ superseded' = superseded \ {c}
  BY DEF StartApply
<1>3. \/ /\ GuardValid(run.token, selected) /\ Finish(r, "running")
         /\ Holds(c, [run |-> r, kind |-> run.kind, todo |-> selected, finding |-> None,
                      old |-> None, done |-> {}])
         /\ Goes(c, "item")
      \/ Finish(r, "failed") /\ UNCHANGED <<pc, mem>>
  BY DEF StartApply, Compared
<1>4. /\ runs' \in [Runs -> RemRun \cup {None}]
      /\ runs'[r] # None /\ runs'[r].token = runs[r].token
      /\ \A q \in Runs : q # r => runs'[q] = runs[q]
  BY <1>1, <1>3, FinishFacts DEF RemTypes, RunStatus
<1>5. CASE /\ GuardValid(run.token, selected)
           /\ Holds(c, [run |-> r, kind |-> run.kind, todo |-> selected, finding |-> None,
                        old |-> None, done |-> {}])
           /\ Goes(c, "item")
  <2>1. selected = run.token
    BY <1>5 DEF GuardValid
  <2>2. \A f \in selected : f \in Scan /\ run.kind \in f.actions
    BY DEF Select
  <2> HIDE DEF selected
  <2>3. Moves(c) /\ pc'[c] = "item"
        /\ mem'[c] = [run |-> r, kind |-> run.kind, todo |-> selected, finding |-> None,
                      old |-> None, done |-> {}]
    BY <1>5, RemGo DEF RemTypes
  <2>4. mem'[c] \in RemMemory
    BY <1>1, <2>1, <2>3 DEF RemMemory, RemRun
  <2>5. RemCallers'
    BY <2>3, <2>4, RemCallerStep DEF RemTypes, RemFitting
  <2> QED
    BY <1>1, <1>2, <1>4, <2>1, <2>2, <2>3, <2>5
<1>6. CASE UNCHANGED <<pc, mem>>
  <2>1. RemCallers'
    BY <1>6 DEF RemTypes, RemCallers
  <2> QED
    BY <1>1, <1>2, <1>4, <1>6, <2>1
<1> QED
  BY <1>3, <1>5, <1>6

\* c takes the finding f of its list and goes to a step with it.
WorksOn(c, f, step) ==
    /\ Moves(c) /\ pc[c] = "item" /\ pc'[c] = step /\ RemCallers'
    /\ mem'[c].run = mem[c].run /\ mem'[c].kind = mem[c].kind
    /\ f \in mem[c].todo /\ f \in RemFinding /\ mem'[c].todo = mem[c].todo \ {f}
    /\ step = "journal" => mem'[c].finding = f

LEMMA WorkingFacts ==
  ASSUME RemTypes, NEW c \in Callers, NEW f, NEW old \in Paths \cup {None},
         Takes(c, f, "journal"), Working(c, f, old)
  PROVE  WorksOn(c, f, "journal")
<1>1. pc[c] = "item" /\ f \in mem[c].todo
  BY DEF Takes
<1>2. mem[c] \in RemMemory /\ f \in RemFinding
  BY <1>1 DEF RemTypes, RemCallers, RemFitting, RemMemory
<1>3. Moves(c) /\ pc'[c] = "journal"
      /\ mem'[c] = [mem[c] EXCEPT !.todo = @ \ {f}, !.finding = f, !.old = old]
  BY RemGo DEF Takes, Working, RemTypes
<1>4. /\ mem'[c] \in RemMemory /\ mem'[c].run = mem[c].run /\ mem'[c].kind = mem[c].kind
      /\ mem'[c].todo = mem[c].todo \ {f} /\ mem'[c].finding = f
  <2>1. mem[c].todo \ {f} \in SUBSET RemFinding
    BY <1>2 DEF RemMemory
  <2> QED
    BY <1>2, <1>3, <2>1 DEF RemMemory
<1>5. RemCallers'
  BY <1>2, <1>3, <1>4, RemCallerStep DEF RemTypes, RemFitting
<1> QED
  BY <1>1, <1>2, <1>3, <1>4, <1>5 DEF WorksOn

LEMMA LeavingFacts ==
  ASSUME RemTypes, NEW c \in Callers, NEW f, NEW status \in Outcomes,
         Takes(c, f, "item"), Leaving(c, f, status)
  PROVE  WorksOn(c, f, "item")
<1>1. pc[c] = "item" /\ f \in mem[c].todo
  BY DEF Takes
<1>2. mem[c] \in RemMemory /\ f \in RemFinding
  BY <1>1 DEF RemTypes, RemCallers, RemFitting, RemMemory
<1>3. Moves(c) /\ pc'[c] = "item"
      /\ mem'[c] = [mem[c] EXCEPT !.todo = @ \ {f}, !.done = @ \cup {status}]
  BY RemGo DEF Takes, Leaving, RemTypes
<1>4. /\ mem'[c] \in RemMemory /\ mem'[c].run = mem[c].run /\ mem'[c].kind = mem[c].kind
      /\ mem'[c].todo = mem[c].todo \ {f}
  <2>1. mem[c].done \cup {status} \subseteq Outcomes
    BY <1>2 DEF RemMemory
  <2> QED
    BY <1>2, <1>3, <2>1 DEF RemMemory
<1>5. RemCallers'
  BY <1>2, <1>3, <1>4, RemCallerStep DEF RemTypes, RemFitting
<1> QED
  BY <1>1, <1>2, <1>3, <1>4, <1>5 DEF WorksOn

\* A finding is for the action it is worked on by: a row for its removal or its new
\* path, whose file has the content of the checksum unless it was changed since the
\* apply looked, or a hidden file.
FixTarget(f) ==
    /\ f.item \in Assets /\ f.at \in Uploads \ Hidden /\ NameOf[f.at] = NameOf[f.item]
    /\ f.at \in shaken \/ disk[f.at] = Checksum[f.item]

Fits(kind, f) ==
    /\ kind = "broken_db_cleanup" => f.item \in Assets
    /\ kind = "broken_db_path_fix" => FixTarget(f)
    /\ kind = "fuse_hidden_delete" => f.at \in Hidden

Targets(c) == pc[c] # "idle" => \A f \in mem[c].todo : Fits(mem[c].kind, f)

LEMMA RemoveFacts ==
  ASSUME RemTypes, NEW c \in Callers, Targets(c), RemoveAsset(c)
  PROVE  \E f \in mem[c].todo :
            \/ /\ WorksOn(c, f, "journal") /\ mem[c].kind = "broken_db_cleanup"
               /\ f.item \in Assets /\ original[f.item] # None
               /\ original' = [original EXCEPT ![f.item] = None] /\ fixed' = fixed \ {f.item}
            \/ WorksOn(c, f, "item") /\ UNCHANGED <<original, fixed>>
<1>1. PICK f \in mem[c].todo :
         \/ /\ original[f.item] # None
            /\ Takes(c, f, "journal") /\ Working(c, f, original[f.item])
            /\ original' = [original EXCEPT ![f.item] = None]
            /\ fixed' = fixed \ {f.item}
         \/ /\ Takes(c, f, "item")
            /\ Leaving(c, f, IF original[f.item] = None THEN "skipped" ELSE "failed")
            /\ UNCHANGED <<original, fixed>>
  BY DEF RemoveAsset
<1>2. mem[c].kind = "broken_db_cleanup"
  BY DEF RemoveAsset
<1>3. CASE /\ original[f.item] # None
           /\ Takes(c, f, "journal") /\ Working(c, f, original[f.item])
           /\ original' = [original EXCEPT ![f.item] = None]
           /\ fixed' = fixed \ {f.item}
  <2>1. f.item \in Assets
    BY <1>2, <1>3 DEF Takes, Targets, Fits
  <2>2. original[f.item] \in Paths \cup {None}
    BY <2>1 DEF RemTypes, WorldTypes
  <2>3. WorksOn(c, f, "journal")
    BY <1>3, <2>2, WorkingFacts
  <2> QED
    BY <1>2, <1>3, <2>1, <2>3
<1>4. CASE /\ Takes(c, f, "item")
           /\ Leaving(c, f, IF original[f.item] = None THEN "skipped" ELSE "failed")
           /\ UNCHANGED <<original, fixed>>
  <2>1. WorksOn(c, f, "item")
    BY <1>4, LeavingFacts DEF Outcomes
  <2> QED
    BY <1>4, <2>1
<1> QED
  BY <1>1, <1>3, <1>4

LEMMA FixFacts ==
  ASSUME RemTypes, NEW c \in Callers, Targets(c), FixPath(c)
  PROVE  \E f \in mem[c].todo :
            \/ /\ WorksOn(c, f, "journal") /\ FixTarget(f)
               /\ original' = [original EXCEPT ![f.item] = f.at]
               /\ fixed' = IF f.at \in shaken THEN fixed \ {f.item} ELSE fixed \cup {f.item}
            \/ WorksOn(c, f, "item") /\ UNCHANGED <<original, fixed>>
<1>1. PICK f \in mem[c].todo :
         \/ /\ original[f.item] # None
            /\ Takes(c, f, "journal") /\ Working(c, f, original[f.item])
            /\ original' = [original EXCEPT ![f.item] = f.at]
            /\ fixed' = IF f.at \in shaken THEN fixed \ {f.item} ELSE fixed \cup {f.item}
         \/ /\ Takes(c, f, "item") /\ Leaving(c, f, "failed")
            /\ UNCHANGED <<original, fixed>>
  BY DEF FixPath
<1>2. mem[c].kind = "broken_db_path_fix"
  BY DEF FixPath
<1>3. CASE /\ original[f.item] # None
           /\ Takes(c, f, "journal") /\ Working(c, f, original[f.item])
           /\ original' = [original EXCEPT ![f.item] = f.at]
           /\ fixed' = IF f.at \in shaken THEN fixed \ {f.item} ELSE fixed \cup {f.item}
  <2>1. FixTarget(f)
    BY <1>2, <1>3 DEF Takes, Targets, Fits
  <2>2. original[f.item] \in Paths \cup {None}
    BY <2>1 DEF RemTypes, WorldTypes, FixTarget
  <2>3. WorksOn(c, f, "journal")
    BY <1>3, <2>2, WorkingFacts
  <2> QED
    BY <1>3, <2>1, <2>3
<1>4. CASE /\ Takes(c, f, "item") /\ Leaving(c, f, "failed")
           /\ UNCHANGED <<original, fixed>>
  <2>1. WorksOn(c, f, "item")
    BY <1>4, LeavingFacts DEF Outcomes
  <2> QED
    BY <1>4, <2>1
<1> QED
  BY <1>1, <1>3, <1>4

LEMMA HiddenDeleteFacts ==
  ASSUME RemTypes, NEW c \in Callers, Targets(c), DeleteHidden(c)
  PROVE  \E f \in mem[c].todo :
            \/ /\ WorksOn(c, f, "journal") /\ f.at \in Hidden
               /\ disk' = [disk EXCEPT ![f.at] = None]
            \/ WorksOn(c, f, "item") /\ UNCHANGED disk
<1>1. PICK f \in mem[c].todo :
         \/ /\ disk[f.at] # None
            /\ Takes(c, f, "journal") /\ Working(c, f, None)
            /\ disk' = [disk EXCEPT ![f.at] = None]
            /\ handles' = handles \ {f.at}
         \/ /\ Takes(c, f, "item")
            /\ Leaving(c, f, IF disk[f.at] = None THEN "already_removed" ELSE "failed")
            /\ UNCHANGED <<disk, handles>>
  BY DEF DeleteHidden
<1>2. mem[c].kind = "fuse_hidden_delete"
  BY DEF DeleteHidden
<1>3. CASE /\ Takes(c, f, "journal") /\ Working(c, f, None)
           /\ disk' = [disk EXCEPT ![f.at] = None]
  <2>1. f.at \in Hidden
    BY <1>2, <1>3 DEF Takes, Targets, Fits
  <2>2. WorksOn(c, f, "journal")
    BY <1>3, WorkingFacts
  <2> QED
    BY <1>3, <2>1, <2>2
<1>4. CASE /\ Takes(c, f, "item")
           /\ Leaving(c, f, IF disk[f.at] = None THEN "already_removed" ELSE "failed")
           /\ UNCHANGED <<disk, handles>>
  <2>1. WorksOn(c, f, "item")
    BY <1>4, LeavingFacts DEF Outcomes
  <2> QED
    BY <1>4, <2>1
<1> QED
  BY <1>1, <1>3, <1>4

LEMMA RemAppend ==
  ASSUME StoreTypes, NEW r \in Runs, NEW e \in RemEntry, Appends(r, e)
  PROVE  /\ journal' \in [Runs -> Seq(RemEntry)]
         /\ Entries(r)' = Entries(r) \cup {e}
         /\ \A q \in Runs : q # r => journal'[q] = journal[q]
<1> DEFINE old == journal[r]
           new == journal'[r]
<1>1. old \in Seq(RemEntry) /\ new = Append(old, e)
  BY DEF StoreTypes, Appends
<1>2. /\ journal' \in [Runs -> Seq(RemEntry)]
      /\ \A q \in Runs : q # r => journal'[q] = journal[q]
  BY <1>1 DEF StoreTypes, Appends
<1>3. /\ Len(old) \in Nat /\ DOMAIN old = 1 .. Len(old)
      /\ DOMAIN new = 1 .. Len(old) + 1
      /\ \A i \in 1 .. Len(old) : new[i] = old[i]
      /\ new[Len(old) + 1] = e
  BY <1>1
<1>4. DOMAIN new = DOMAIN old \cup {Len(old) + 1}
  BY <1>3
<1>5. \A i \in DOMAIN old : new[i] = old[i]
  BY <1>3
<1> HIDE DEF old, new
<1>6. {new[i] : i \in DOMAIN new} = {old[i] : i \in DOMAIN old} \cup {e}
  BY <1>3, <1>4, <1>5
<1> QED
  BY <1>2, <1>6 DEF Entries, old, new

\* The entry is that of the finding the caller holds, or there is none.
Notes(c, e) ==
    /\ \A r \in Runs : IF r = mem[c].run THEN Entries(r)' = Entries(r) \cup {e}
                      ELSE journal'[r] = journal[r]
    /\ e.item = mem[c].finding.item /\ e.new = mem[c].finding.at

LEMMA JournalFacts ==
  ASSUME RemTypes, NEW c \in Callers, JournalItem(c)
  PROVE  /\ UNCHANGED <<runs, remVars>> /\ journal' \in [Runs -> Seq(RemEntry)]
         /\ Moves(c) /\ pc[c] = "journal" /\ pc'[c] = "item" /\ RemCallers'
         /\ mem[c].run \in Runs /\ mem'[c].run = mem[c].run /\ mem'[c].kind = mem[c].kind
         /\ mem'[c].todo = mem[c].todo
         /\ UNCHANGED journal \/ \E e : Notes(c, e)
<1> DEFINE f == mem[c].finding
           e == Entry(f.item, "applied", FALSE, mem[c].old, f.at)
<1>1. pc[c] = "journal" /\ UNCHANGED <<runs, remVars>> /\ Goes(c, "item")
  BY DEF JournalItem
<1>2. mem[c] \in RemMemory /\ f \in RemFinding
  BY <1>1 DEF RemTypes, RemCallers, RemFitting
<1>3. e \in RemEntry /\ e.item = f.item /\ e.new = f.at
  BY <1>2 DEF Entry, RemEntry, RemMemory, RemFinding
<1>4. \E status \in Outcomes :
         Holds(c, [mem[c] EXCEPT !.finding = None, !.old = None, !.done = @ \cup {status}])
  BY DEF JournalItem, Outcomes
<1>5. PICK status \in Outcomes :
         Holds(c, [mem[c] EXCEPT !.finding = None, !.old = None, !.done = @ \cup {status}])
  BY <1>4
<1>6. Moves(c) /\ pc'[c] = "item"
      /\ mem'[c] = [mem[c] EXCEPT !.finding = None, !.old = None, !.done = @ \cup {status}]
  BY <1>1, <1>5, RemGo DEF RemTypes
<1>7. mem[c].done \cup {status} \subseteq Outcomes
  BY <1>2 DEF RemMemory
<1>8. /\ mem'[c] \in RemMemory /\ mem'[c].run = mem[c].run /\ mem'[c].kind = mem[c].kind
      /\ mem'[c].todo = mem[c].todo /\ mem[c].run \in Runs
  BY <1>2, <1>6, <1>7 DEF RemMemory
<1>9. RemCallers'
  BY <1>6, <1>8, RemCallerStep DEF RemTypes, RemFitting
<1>10. Appends(mem[c].run, e) \/ UNCHANGED journal
  BY DEF JournalItem
<1>11. CASE Appends(mem[c].run, e)
  <2> HIDE DEF e
  <2>1. PICK r \in Runs : r = mem[c].run
    BY <1>8
  <2>2. /\ journal' \in [Runs -> Seq(RemEntry)]
        /\ Entries(r)' = Entries(r) \cup {e}
        /\ \A q \in Runs : q # r => journal'[q] = journal[q]
    BY <1>3, <1>11, <2>1, RemAppend DEF RemTypes
  <2>3. Notes(c, e)
    BY <1>3, <2>1, <2>2 DEF Notes
  <2> QED
    BY <1>1, <1>6, <1>8, <1>9, <2>2, <2>3
<1>12. CASE UNCHANGED journal
  BY <1>1, <1>6, <1>8, <1>9, <1>12 DEF RemTypes, StoreTypes
<1> QED
  BY <1>10, <1>11, <1>12

LEMMA FinishApplyFacts ==
  ASSUME RemTypes, NEW c \in Callers, runs[mem[c].run] # None, FinishApply(c)
  PROVE  /\ UNCHANGED <<journal, world, shaken, fixed>> /\ superseded' = superseded \ {c}
         /\ Moves(c) /\ pc'[c] = "idle" /\ RemCallers'
         /\ mem[c].run \in Runs /\ runs' \in [Runs -> RemRun \cup {None}]
         /\ runs'[mem[c].run] # None /\ runs'[mem[c].run].token = runs[mem[c].run].token
         /\ \A q \in Runs : q # mem[c].run => runs'[q] = runs[q]
<1>1. /\ pc[c] = "item" /\ UNCHANGED <<journal, world, shaken, fixed>>
      /\ superseded' = superseded \ {c} /\ Leaves(c)
      /\ Finish(mem[c].run, FinalStatus(mem[c].done))
  BY DEF FinishApply
<1>2. mem[c] \in RemMemory
  BY <1>1 DEF RemTypes, RemCallers, RemFitting
<1>3. mem[c].run \in Runs /\ FinalStatus(mem[c].done) \in RunStatus
  BY <1>2, StatusFacts DEF RemMemory
<1>4. /\ runs' \in [Runs -> RemRun \cup {None}]
      /\ runs'[mem[c].run] # None /\ runs'[mem[c].run].token = runs[mem[c].run].token
      /\ \A q \in Runs : q # mem[c].run => runs'[q] = runs[q]
  BY <1>1, <1>3, FinishFacts DEF RemTypes
<1>5. Moves(c) /\ pc'[c] = "idle" /\ mem'[c] = None
  BY <1>1, RemGo DEF Leaves, RemTypes
<1>6. RemCallers'
  BY <1>5, RemCallerStep DEF RemTypes, RemFitting
<1> QED
  BY <1>1, <1>3, <1>4, <1>5, <1>6

-----------------------------------------------------------------------------
(* What happens to the indexes, the rows and the files.                     *)

\* An index after changes of these paths: it lists what it did.
Kept(old, new, paths) ==
    /\ old = None => new = None
    /\ old \in Index => /\ new \in Index /\ new.walked = old.walked
                        /\ new.snapshot = old.snapshot /\ new.listed = old.listed
                        /\ old.young \subseteq new.young /\ new.changed = old.changed \cup paths
                        /\ new.late \subseteq old.late \cup paths

LEMMA RecordsFacts ==
  ASSUME NEW index \in Index \cup {None}, NEW paths \in SUBSET Paths, NEW modified \in SUBSET paths
  PROVE  Kept(index, Records(index, paths, modified), paths)
<1>1. CASE index \in Index
  <2> DEFINE late == IF index.walked THEN index.late ELSE index.late \cup modified
  <2>1. Records(index, paths, modified)
        = [index EXCEPT !.changed = index.changed \cup paths, !.late = late]
    BY <1>1, NoRemAssumption DEF Records, Index
  <2>2. late \subseteq Paths /\ late \subseteq index.late \cup paths
        /\ index.changed \cup paths \subseteq Paths
    BY <1>1 DEF Index
  <2> HIDE DEF late
  <2> QED
    BY <1>1, <2>1, <2>2, NoRemAssumption DEF Kept, Index
<1>2. CASE index = None
  BY <1>2, NoRemAssumption DEF Kept, Records
<1> QED
  BY <1>1, <1>2

LEMMA KeptUnchanged ==
  ASSUME NEW index \in Index \cup {None}
  PROVE  Kept(index, index, {})
  BY DEF Kept

LEMMA KeptTyped ==
  ASSUME NEW old \in Index \cup {None}, NEW new, NEW paths, Kept(old, new, paths)
  PROVE  new \in Index \cup {None}
  BY DEF Kept

\* Immich or a user changes the files of these paths.
Touches(paths) ==
    /\ UNCHANGED <<runs, journal, pc, mem, original, superseded>>
    /\ paths \subseteq Paths /\ disk' \in [Paths -> Contents \cup {None}]
    /\ \A p \in Paths \ paths : disk'[p] = disk[p]
    /\ Kept(committed, committed', paths) /\ Kept(walk, walk', paths)
    /\ shaken' = IF \E c \in Callers : pc[c] # "idle" THEN shaken \cup paths ELSE shaken
    /\ fixed' = {a \in fixed : original[a] \notin paths}

LEMMA WrittenFacts ==
  ASSUME RemTypes, NEW p \in Paths, NEW content \in Contents \cup {None}, FileWritten(p, content)
  PROVE  Touches({p})
<1>1. Kept(committed, committed', {p}) /\ Kept(walk, walk', {p})
  BY RecordsFacts DEF FileWritten, Changes, RemTypes, WorldTypes
<1>2. disk' = [disk EXCEPT ![p] = content]
  BY DEF FileWritten
<1> QED
  BY <1>1, <1>2 DEF Touches, FileWritten, Changes, RemTypes, WorldTypes

LEMMA MovedFacts ==
  ASSUME RemTypes, NEW p \in Paths, NEW q \in Paths, FileMoved(p, q)
  PROVE  Touches({p, q})
<1>1. Kept(committed, committed', {p, q}) /\ Kept(walk, walk', {p, q})
  BY RecordsFacts DEF FileMoved, Changes, RemTypes, WorldTypes
<1>2. disk' = [disk EXCEPT ![p] = None, ![q] = disk[p]] /\ disk[p] \in Contents \cup {None}
  BY DEF FileMoved, RemTypes, WorldTypes
<1> QED
  BY <1>1, <1>2 DEF Touches, FileMoved, Changes, RemTypes, WorldTypes

\* Immich changes the row of a, which gets younger than the indexes.
Renews(a) ==
    /\ UNCHANGED <<runs, journal, pc, mem, disk, superseded, shaken>>
    /\ original' \in [Assets -> Paths \cup {None}]
    /\ original'[a] # None /\ \A b \in Assets : b # a => original'[b] = original[b]
    /\ Kept(committed, committed', {}) /\ Kept(walk, walk', {})
    /\ committed \in Index => a \in committed'.young
    /\ fixed' = fixed \ {a}

LEMMA YoungerFacts ==
  ASSUME NEW index \in Index \cup {None}, NEW a \in Assets, NEW new,
         new = IF index = None THEN None ELSE [index EXCEPT !.young = @ \cup {a}]
  PROVE  Kept(index, new, {}) /\ (index \in Index => a \in new.young)
<1>1. CASE index \in Index
  <2>1. new = [index EXCEPT !.young = index.young \cup {a}] /\ index.young \cup {a} \subseteq Assets
    BY <1>1, NoRemAssumption DEF Index
  <2> QED
    BY <1>1, <2>1, NoRemAssumption DEF Kept, Index
<1>2. CASE index = None
  BY <1>2, NoRemAssumption DEF Kept
<1> QED
  BY <1>1, <1>2

LEMMA RowFacts ==
  ASSUME RemTypes, NEW a \in Assets, NEW p \in Uploads \ Hidden, RowChanged(a, p)
  PROVE  Renews(a)
<1>1. /\ committed' = IF committed = None THEN None ELSE [committed EXCEPT !.young = @ \cup {a}]
      /\ walk' = IF walk = None THEN None ELSE [walk EXCEPT !.young = @ \cup {a}]
  BY DEF RowChanged
<1>2. /\ Kept(committed, committed', {}) /\ Kept(walk, walk', {})
      /\ committed \in Index => a \in committed'.young
  BY <1>1, YoungerFacts DEF RemTypes, WorldTypes
<1>3. original' = [original EXCEPT ![a] = p] /\ p \in Paths
  BY DEF RowChanged, Uploads
<1> QED
  BY <1>2, <1>3, NoRemAssumption DEF Renews, RowChanged, RemTypes, WorldTypes

\* The scan opens its window, walks and commits.
LEMMA OpenFacts ==
  ASSUME OpenWindow
  PROVE  /\ UNCHANGED <<runs, journal, pc, mem, original, disk, committed, superseded, shaken, fixed>>
         /\ walk' \in Index /\ walk'.snapshot = {} /\ walk'.late = {}
  BY DEF OpenWindow, Index, journalVars

LEMMA WalkFacts ==
  ASSUME RemTypes, WalkRoots
  PROVE  /\ UNCHANGED <<runs, journal, pc, mem, original, disk, committed, superseded, shaken, fixed>>
         /\ walk \in Index /\ walk' \in Index /\ walk'.walked
         /\ walk'.late = walk.late /\ walk'.changed = walk.changed
         /\ \A p \in walk'.snapshot : p \notin walk.late => p \in walk'.listed
<1>1. walk \in Index
  BY DEF WalkRoots, RemTypes, WorldTypes
<1>2. PICK read \in SUBSET Paths :
        walk' = [walk EXCEPT !.walked = TRUE, !.snapshot = read,
                             !.listed = WithinWindow(read, walk.late)]
  BY DEF WalkRoots
<1> DEFINE listed == WithinWindow(read, walk.late)
<1>3. listed \subseteq Paths /\ \A p \in read : p \notin walk.late => p \in listed
  BY DEF WithinWindow
<1>4. UNCHANGED <<runs, journal, pc, mem, original, disk, committed, superseded, shaken, fixed>>
  BY DEF WalkRoots, store
<1>5. walk' = [walk EXCEPT !.walked = TRUE, !.snapshot = read, !.listed = listed]
  BY <1>2
<1> HIDE DEF listed
<1> QED
  BY <1>1, <1>3, <1>4, <1>5 DEF Index

LEMMA CommitFacts ==
  ASSUME RemTypes, CommitSnapshots
  PROVE  /\ UNCHANGED <<runs, journal, pc, mem, original, disk, shaken, fixed>>
         /\ walk \in Index /\ walk.walked /\ committed' = walk /\ walk' = None
         /\ superseded' = superseded \cup {c \in Callers : pc[c] # "idle"}
  BY DEF CommitSnapshots, RemTypes, WorldTypes, journalVars

LEMMA RemCrashFacts ==
  ASSUME JournalCrash, RemCrash
  PROVE  /\ UNCHANGED <<runs, journal, world, shaken, fixed>> /\ superseded' = {}
         /\ \A c \in Callers : pc'[c] = "idle"
         /\ RemCallers'
<1>1. pc' = [c \in Callers |-> "idle"] /\ mem' = [c \in Callers |-> None]
  BY DEF JournalCrash
<1>2. RemCallers'
  BY <1>1 DEF RemCallers, RemFitting
<1> QED
  BY <1>1, <1>2 DEF JournalCrash, RemCrash

-----------------------------------------------------------------------------
(* The invariant of catalog remediation.                                    *)

\* An apply works on what the token of its run holds.
Bound(c) ==
    pc[c] # "idle" =>
        /\ runs[mem[c].run] # None /\ mem[c].todo \subseteq runs[mem[c].run].token
        /\ pc[c] = "journal" => mem[c].finding \in runs[mem[c].run].token

\* The entries of a journal are of findings its run's token holds.
Recorded(r) ==
    \A e \in Entries(r) :
        runs[r] # None /\ \E f \in runs[r].token : f.item = e.item /\ f.at = e.new

\* Corrected rows lead to files that are not hidden and hold what they should.
FixedWell == \A a \in fixed : original[a] \in Paths \ Hidden /\ disk[original[a]] = Checksum[a]

\* An index lists every file of its snapshot that was not changed since its window
\* opened.
Complete(index) ==
    index \in Index => /\ index.late \subseteq index.changed
                       /\ \A p \in index.snapshot : p \notin index.changed => p \in index.listed
IndexWhole == Complete(committed) /\ Complete(walk)

\* A row to remove is younger than the index, or neither its file nor one of its name
\* is listed.
RowGone(f, index, rows) ==
    /\ index \in Index
    /\ \/ f.item \in index.young
       \/ /\ rows[f.item] \notin index.listed
          /\ \A p \in index.listed : NameOf[p] # NameOf[f.item]
CleanupSound(c) ==
    pc[c] # "idle" /\ mem[c].kind = "broken_db_cleanup" /\ c \notin superseded =>
        \A f \in mem[c].todo : RowGone(f, committed, original)

RemInv ==
    /\ RemTypes
    /\ \A c \in Callers : Bound(c) /\ Targets(c) /\ CleanupSound(c)
    /\ \A r \in Runs : Recorded(r)
    /\ FixedWell /\ IndexWhole

\* The steps, with what Immich and its users do as far as it matters.
RemActs ==
    \/ OpenWindow \/ WalkRoots \/ CommitSnapshots
    \/ \E c \in Callers : \E r \in Runs : \E kind \in ActionKinds : \E asked : \E all \in BOOLEAN :
          Preview(c, r, kind, asked, all)
    \/ \E c \in Callers : \E r \in Runs : StartApply(c, r)
    \/ \E c \in Callers :
          RemoveAsset(c) \/ FixPath(c) \/ DeleteHidden(c) \/ JournalItem(c) \/ FinishApply(c)
    \/ \E paths : Touches(paths)
    \/ \E a \in Assets : Renews(a)
    \/ \E p \in Hidden : HandleOpened(p)
    \/ JournalCrash /\ RemCrash

LEMMA RemCases == RemTypes /\ RemNext => RemActs
<1> SUFFICES ASSUME RemTypes, RemNext PROVE RemActs
  OBVIOUS
<1>1. CASE \E c \in Callers : \E r \in Runs : \E kind \in ActionKinds :
              \/ Preview(c, r, kind, {}, TRUE)
              \/ \E asked \in SUBSET {f.item : f \in Scan} : Preview(c, r, kind, asked, FALSE)
  <2>1. PICK c \in Callers, r \in Runs, kind \in ActionKinds :
           \/ Preview(c, r, kind, {}, TRUE)
           \/ \E asked \in SUBSET {f.item : f \in Scan} : Preview(c, r, kind, asked, FALSE)
    BY <1>1
  <2>2. \E asked : \E all \in BOOLEAN : Preview(c, r, kind, asked, all)
    BY <2>1
  <2> QED
    BY <2>2 DEF RemActs
<1>2. CASE \E p \in Paths : \/ \E content \in Contents \cup {None} : FileWritten(p, content)
                            \/ \E q \in Paths : FileMoved(p, q)
  <2>1. \E paths : Touches(paths)
    BY <1>2, WrittenFacts, MovedFacts
  <2> QED
    BY <2>1 DEF RemActs
<1>3. CASE \E a \in Assets : \E p \in Uploads \ Hidden : RowChanged(a, p)
  <2>1. \E a \in Assets : Renews(a)
    BY <1>3, RowFacts
  <2> QED
    BY <2>1 DEF RemActs
<1>4. CASE \/ OpenWindow \/ WalkRoots \/ CommitSnapshots
           \/ \E c \in Callers : \E r \in Runs : StartApply(c, r)
           \/ \E c \in Callers :
                 RemoveAsset(c) \/ FixPath(c) \/ DeleteHidden(c) \/ JournalItem(c) \/ FinishApply(c)
           \/ \E p \in Hidden : HandleOpened(p)
           \/ JournalCrash /\ RemCrash
  BY <1>4 DEF RemActs
<1> QED
  BY <1>1, <1>2, <1>3, <1>4 DEF RemNext

\* An apply works on a finding of its list, or leaves it.
TakesOne(c) ==
    \E f \in mem[c].todo : WorksOn(c, f, "journal") \/ WorksOn(c, f, "item")

LEMMA WorksFacts ==
  ASSUME RemInv, NEW c \in Callers, RemoveAsset(c) \/ FixPath(c) \/ DeleteHidden(c)
  PROVE  /\ TakesOne(c) /\ UNCHANGED <<runs, journal, committed, walk, superseded, shaken>>
         /\ original' \in [Assets -> Paths \cup {None}] /\ disk' \in [Paths -> Contents \cup {None}]
         /\ fixed' \subseteq Assets
<1>1. RemTypes /\ Targets(c)
  BY DEF RemInv
<1>2. CASE RemoveAsset(c)
  <2>1. UNCHANGED <<runs, journal, committed, walk, superseded, shaken, disk>>
    BY <1>2 DEF RemoveAsset, store
  <2>2. PICK f \in mem[c].todo :
            \/ /\ WorksOn(c, f, "journal") /\ mem[c].kind = "broken_db_cleanup"
               /\ f.item \in Assets /\ original[f.item] # None
               /\ original' = [original EXCEPT ![f.item] = None] /\ fixed' = fixed \ {f.item}
            \/ WorksOn(c, f, "item") /\ UNCHANGED <<original, fixed>>
    BY <1>1, <1>2, RemoveFacts
  <2> QED
    BY <1>1, <2>1, <2>2 DEF TakesOne, RemTypes, WorldTypes
<1>3. CASE FixPath(c)
  <2>1. UNCHANGED <<runs, journal, committed, walk, superseded, shaken, disk>>
    BY <1>3 DEF FixPath, store
  <2>2. PICK f \in mem[c].todo :
            \/ /\ WorksOn(c, f, "journal") /\ FixTarget(f)
               /\ original' = [original EXCEPT ![f.item] = f.at]
               /\ fixed' = IF f.at \in shaken THEN fixed \ {f.item} ELSE fixed \cup {f.item}
            \/ WorksOn(c, f, "item") /\ UNCHANGED <<original, fixed>>
    BY <1>1, <1>3, FixFacts
  <2>3. FixTarget(f) => f.item \in Assets /\ f.at \in Paths
    BY DEF FixTarget, Uploads
  <2> QED
    BY <1>1, <2>1, <2>2, <2>3 DEF TakesOne, RemTypes, WorldTypes
<1>4. CASE DeleteHidden(c)
  <2>1. UNCHANGED <<runs, journal, committed, walk, superseded, shaken, original, fixed>>
    BY <1>4 DEF DeleteHidden, store
  <2>2. PICK f \in mem[c].todo :
            \/ /\ WorksOn(c, f, "journal") /\ f.at \in Hidden
               /\ disk' = [disk EXCEPT ![f.at] = None]
            \/ WorksOn(c, f, "item") /\ UNCHANGED disk
    BY <1>1, <1>4, HiddenDeleteFacts
  <2> QED
    BY <1>1, <2>1, <2>2 DEF TakesOne, RemTypes, WorldTypes
<1> QED
  BY <1>2, <1>3, <1>4

LEMMA RemCallersKept ==
  ASSUME RemCallers, UNCHANGED <<pc, mem>>
  PROVE  RemCallers'
  BY DEF RemCallers

LEMMA StoreKept ==
  ASSUME StoreTypes, UNCHANGED <<runs, journal>>
  PROVE  StoreTypes'
  BY DEF StoreTypes

LEMMA HandleFacts ==
  ASSUME NEW p, HandleOpened(p)
  PROVE  UNCHANGED <<runs, journal, pc, mem, original, disk, committed, walk, superseded, shaken,
                     fixed>>
  BY DEF HandleOpened

LEMMA RemTyped ==
  ASSUME RemInv, RemActs
  PROVE  RemTypes'
<1>1. RemTypes /\ RemCallers /\ WorldTypes /\ StoreTypes
  BY DEF RemInv, RemTypes
<1>2. CASE OpenWindow
  BY <1>1, <1>2, OpenFacts, RemCallersKept, StoreKept DEF RemTypes, WorldTypes
<1>3. CASE WalkRoots
  BY <1>1, <1>3, WalkFacts, RemCallersKept, StoreKept DEF RemTypes, WorldTypes
<1>4. CASE CommitSnapshots
  BY <1>1, <1>4, CommitFacts, RemCallersKept, StoreKept DEF RemTypes, WorldTypes
<1>5. ASSUME NEW c \in Callers, NEW r \in Runs, NEW kind \in ActionKinds, NEW asked,
             NEW all \in BOOLEAN, Preview(c, r, kind, asked, all)
      PROVE  RemTypes'
  <2>1. /\ UNCHANGED <<journal, pc, mem, remVars>>
        /\ runs' \in [Runs -> RemRun \cup {None}]
    BY <1>1, <1>5, PreviewFacts
  <2> QED
    BY <1>1, <2>1, RemCallersKept DEF RemTypes, WorldTypes, StoreTypes, remVars
<1>6. ASSUME NEW c \in Callers, NEW r \in Runs, StartApply(c, r) PROVE RemTypes'
  <2>1. /\ UNCHANGED <<journal, world, shaken, fixed>> /\ RemCallers'
        /\ runs' \in [Runs -> RemRun \cup {None}]
    BY <1>1, <1>6, ApplyFacts
  <2> QED
    BY <1>1, <2>1 DEF RemTypes, WorldTypes, StoreTypes, world
<1>7. ASSUME NEW c \in Callers, RemoveAsset(c) \/ FixPath(c) \/ DeleteHidden(c) PROVE RemTypes'
  <2>1. /\ TakesOne(c) /\ UNCHANGED <<runs, journal, committed, walk, superseded, shaken>>
        /\ original' \in [Assets -> Paths \cup {None}] /\ disk' \in [Paths -> Contents \cup {None}]
        /\ fixed' \subseteq Assets
    BY <1>7, WorksFacts
  <2>2. RemCallers'
    BY <2>1 DEF TakesOne, WorksOn
  <2> QED
    BY <1>1, <2>1, <2>2, StoreKept DEF RemTypes, WorldTypes
<1>8. ASSUME NEW c \in Callers, JournalItem(c) PROVE RemTypes'
  <2>1. /\ UNCHANGED <<runs, remVars>> /\ journal' \in [Runs -> Seq(RemEntry)] /\ RemCallers'
    BY <1>1, <1>8, JournalFacts
  <2> QED
    BY <1>1, <2>1 DEF RemTypes, WorldTypes, StoreTypes, remVars
<1>9. ASSUME NEW c \in Callers, FinishApply(c) PROVE RemTypes'
  <2>1. runs[mem[c].run] # None
    BY <1>9 DEF RemInv, Bound, FinishApply
  <2>2. /\ UNCHANGED <<journal, world, shaken, fixed>> /\ RemCallers'
        /\ runs' \in [Runs -> RemRun \cup {None}]
    BY <1>1, <1>9, <2>1, FinishApplyFacts
  <2> QED
    BY <1>1, <2>2 DEF RemTypes, WorldTypes, StoreTypes, world
<1>10. ASSUME NEW paths, Touches(paths) PROVE RemTypes'
  <2>1. /\ UNCHANGED <<runs, journal, pc, mem, original>>
        /\ disk' \in [Paths -> Contents \cup {None}] /\ fixed' \subseteq fixed
        /\ Kept(committed, committed', paths) /\ Kept(walk, walk', paths)
    BY <1>10 DEF Touches
  <2>2. committed' \in Index \cup {None} /\ walk' \in Index \cup {None}
    BY <1>1, <2>1, KeptTyped DEF WorldTypes
  <2> QED
    BY <1>1, <2>1, <2>2, RemCallersKept, StoreKept DEF RemTypes, WorldTypes
<1>11. ASSUME NEW a \in Assets, Renews(a) PROVE RemTypes'
  <2>1. /\ UNCHANGED <<runs, journal, pc, mem, disk>>
        /\ original' \in [Assets -> Paths \cup {None}] /\ fixed' \subseteq fixed
        /\ Kept(committed, committed', {}) /\ Kept(walk, walk', {})
    BY <1>11 DEF Renews
  <2>2. committed' \in Index \cup {None} /\ walk' \in Index \cup {None}
    BY <1>1, <2>1, KeptTyped DEF WorldTypes
  <2> QED
    BY <1>1, <2>1, <2>2, RemCallersKept, StoreKept DEF RemTypes, WorldTypes
<1>12. ASSUME NEW p \in Hidden, HandleOpened(p) PROVE RemTypes'
  BY <1>1, <1>12, HandleFacts, RemCallersKept, StoreKept DEF RemTypes, WorldTypes
<1>13. CASE JournalCrash /\ RemCrash
  <2>1. UNCHANGED <<runs, journal, world, shaken, fixed>> /\ RemCallers'
    BY <1>13, RemCrashFacts
  <2> QED
    BY <1>1, <2>1, StoreKept DEF RemTypes, WorldTypes, world
<1> QED
  BY <1>2, <1>3, <1>4, <1>5, <1>6, <1>7, <1>8, <1>9, <1>10, <1>11, <1>12, <1>13 DEF RemActs

\* A run keeps its token.
TokensStay ==
    \A r \in Runs : runs[r] # None => runs'[r] # None /\ runs'[r].token = runs[r].token

LEMMA TokensKept ==
  ASSUME RemInv, RemActs
  PROVE  TokensStay
<1>1. RemTypes
  BY DEF RemInv
<1>2. CASE OpenWindow \/ WalkRoots \/ CommitSnapshots
  BY <1>1, <1>2, OpenFacts, WalkFacts, CommitFacts DEF TokensStay
<1>3. ASSUME NEW c \in Callers, NEW r \in Runs, NEW kind \in ActionKinds, NEW asked,
             NEW all \in BOOLEAN, Preview(c, r, kind, asked, all)
      PROVE  TokensStay
  <2>1. runs[r] = None /\ \A q \in Runs : q # r => runs'[q] = runs[q]
    BY <1>1, <1>3, PreviewFacts
  <2> QED
    BY <2>1 DEF TokensStay
<1>4. ASSUME NEW c \in Callers, NEW r \in Runs, StartApply(c, r) PROVE TokensStay
  <2>1. /\ runs'[r] # None /\ runs'[r].token = runs[r].token
        /\ \A q \in Runs : q # r => runs'[q] = runs[q]
    BY <1>1, <1>4, ApplyFacts
  <2> QED
    BY <2>1 DEF TokensStay
<1>5. ASSUME NEW c \in Callers, RemoveAsset(c) \/ FixPath(c) \/ DeleteHidden(c) PROVE TokensStay
  BY <1>5, WorksFacts DEF TokensStay
<1>6. ASSUME NEW c \in Callers, JournalItem(c) PROVE TokensStay
  BY <1>1, <1>6, JournalFacts DEF TokensStay
<1>7. ASSUME NEW c \in Callers, FinishApply(c) PROVE TokensStay
  <2>1. runs[mem[c].run] # None
    BY <1>7 DEF RemInv, Bound, FinishApply
  <2>2. /\ runs'[mem[c].run] # None /\ runs'[mem[c].run].token = runs[mem[c].run].token
        /\ \A q \in Runs : q # mem[c].run => runs'[q] = runs[q]
    BY <1>1, <1>7, <2>1, FinishApplyFacts
  <2> QED
    BY <2>2 DEF TokensStay
<1>8. CASE \/ \E paths : Touches(paths)
           \/ \E a \in Assets : Renews(a)
           \/ \E p \in Hidden : HandleOpened(p)
           \/ JournalCrash /\ RemCrash
  <2>1. UNCHANGED runs
    BY <1>8, HandleFacts, RemCrashFacts DEF Touches, Renews
  <2> QED
    BY <2>1 DEF TokensStay
<1> QED
  BY <1>2, <1>3, <1>4, <1>5, <1>6, <1>7, <1>8 DEF RemActs

LEMMA BoundStays ==
  ASSUME RemInv, TokensStay, NEW d \in Callers, pc'[d] = pc[d], mem'[d] = mem[d]
  PROVE  Bound(d)'
<1>1. Bound(d) /\ (pc[d] # "idle" => mem[d].run \in Runs)
  BY DEF RemInv, RemTypes, RemCallers, RemFitting, RemMemory
<1> QED
  BY <1>1 DEF Bound, TokensStay

LEMMA RemBound ==
  ASSUME RemInv, RemActs, NEW d \in Callers
  PROVE  Bound(d)'
<1>1. RemTypes /\ RemCallers /\ TokensStay
  BY TokensKept DEF RemInv, RemTypes
<1>2. CASE UNCHANGED <<pc, mem>>
  BY <1>1, <1>2, BoundStays
<1>3. ASSUME NEW c \in Callers, NEW r \in Runs, StartApply(c, r) PROVE Bound(d)'
  <2>1. \/ /\ Moves(c) /\ pc'[c] = "item" /\ mem'[c].run = r
           /\ mem'[c].todo = runs[r].token /\ runs'[r] # None /\ runs'[r].token = runs[r].token
        \/ UNCHANGED <<pc, mem>>
    BY <1>1, <1>3, ApplyFacts
  <2>2. CASE d = c /\ ~UNCHANGED <<pc, mem>>
    BY <2>1, <2>2 DEF Bound
  <2>3. CASE d # c
    BY <1>1, <2>1, <2>3, RemOthers, BoundStays
  <2> QED
    BY <1>2, <2>2, <2>3
<1>4. ASSUME NEW c \in Callers, RemoveAsset(c) \/ FixPath(c) \/ DeleteHidden(c) PROVE Bound(d)'
  <2>1. PICK f \in mem[c].todo : WorksOn(c, f, "journal") \/ WorksOn(c, f, "item")
    BY <1>4, WorksFacts DEF TakesOne
  <2>2. UNCHANGED runs
    BY <1>4, WorksFacts
  <2>3. Moves(c)
    BY <2>1 DEF WorksOn
  <2>4. CASE d = c
    <3>1. Bound(c) /\ pc[c] = "item" /\ pc'[c] \in {"journal", "item"}
      BY <2>1 DEF RemInv, WorksOn
    <3> QED
      BY <2>1, <2>2, <2>4, <3>1 DEF Bound, WorksOn
  <2>5. CASE d # c
    BY <1>1, <2>3, <2>5, RemOthers, BoundStays
  <2> QED
    BY <2>4, <2>5
<1>5. ASSUME NEW c \in Callers, JournalItem(c) PROVE Bound(d)'
  <2>1. /\ UNCHANGED runs /\ Moves(c) /\ pc[c] = "journal" /\ pc'[c] = "item"
        /\ mem'[c].run = mem[c].run /\ mem'[c].todo = mem[c].todo
    BY <1>1, <1>5, JournalFacts
  <2>2. CASE d = c
    <3>1. Bound(c)
      BY DEF RemInv
    <3> QED
      BY <2>1, <2>2, <3>1 DEF Bound
  <2>3. CASE d # c
    BY <1>1, <2>1, <2>3, RemOthers, BoundStays
  <2> QED
    BY <2>2, <2>3
<1>6. ASSUME NEW c \in Callers, FinishApply(c) PROVE Bound(d)'
  <2>1. runs[mem[c].run] # None
    BY <1>6 DEF RemInv, Bound, FinishApply
  <2>2. Moves(c) /\ pc'[c] = "idle"
    BY <1>1, <1>6, <2>1, FinishApplyFacts
  <2>3. CASE d = c
    BY <2>2, <2>3 DEF Bound
  <2>4. CASE d # c
    BY <1>1, <2>2, <2>4, RemOthers, BoundStays
  <2> QED
    BY <2>3, <2>4
<1>7. CASE JournalCrash /\ RemCrash
  BY <1>7, RemCrashFacts DEF Bound
<1>8. CASE \/ OpenWindow \/ WalkRoots \/ CommitSnapshots
           \/ \E paths : Touches(paths)
           \/ \E a \in Assets : Renews(a)
           \/ \E p \in Hidden : HandleOpened(p)
  <2>1. UNCHANGED <<pc, mem>>
    BY <1>1, <1>8, OpenFacts, WalkFacts, CommitFacts, HandleFacts DEF Touches, Renews
  <2> QED
    BY <1>2, <2>1
<1>9. ASSUME NEW c \in Callers, NEW r \in Runs, NEW kind \in ActionKinds, NEW asked,
             NEW all \in BOOLEAN, Preview(c, r, kind, asked, all)
      PROVE  Bound(d)'
  BY <1>1, <1>2, <1>9, PreviewFacts
<1> QED
  BY <1>3, <1>4, <1>5, <1>6, <1>7, <1>8, <1>9 DEF RemActs

LEMMA RemRecorded ==
  ASSUME RemInv, RemActs, NEW r \in Runs
  PROVE  Recorded(r)'
<1>1. RemTypes /\ TokensStay /\ Recorded(r)
  BY TokensKept DEF RemInv
<1>2. CASE journal'[r] = journal[r]
  <2>1. Entries(r)' = Entries(r)
    BY <1>2 DEF Entries
  <2> QED
    BY <1>1, <2>1 DEF Recorded, TokensStay
<1>3. ASSUME NEW c \in Callers, JournalItem(c) PROVE Recorded(r)'
  <2>1. /\ pc[c] = "journal" /\ mem[c].run \in Runs
        /\ UNCHANGED journal \/ \E e : Notes(c, e)
    BY <1>1, <1>3, JournalFacts
  <2>2. CASE UNCHANGED journal
    BY <1>2, <2>2
  <2>3. ASSUME NEW e, Notes(c, e) PROVE Recorded(r)'
    <3>1. CASE r # mem[c].run
      BY <1>2, <2>3, <3>1 DEF Notes
    <3>2. CASE r = mem[c].run
      <4>1. Entries(r)' = Entries(r) \cup {e}
        BY <2>3, <3>2 DEF Notes
      <4>2. /\ runs'[r] # None /\ runs'[r].token = runs[r].token
            /\ mem[c].finding \in runs[r].token
        BY <1>1, <2>1, <3>2 DEF RemInv, Bound, TokensStay
      <4>3. e.item = mem[c].finding.item /\ e.new = mem[c].finding.at
        BY <2>3 DEF Notes
      <4> QED
        BY <1>1, <4>1, <4>2, <4>3 DEF Recorded
    <3> QED
      BY <3>1, <3>2
  <2> QED
    BY <2>1, <2>2, <2>3
<1>4. CASE UNCHANGED journal
  BY <1>2, <1>4
<1>5. ASSUME NEW c \in Callers, NEW q \in Runs, NEW kind \in ActionKinds, NEW asked,
             NEW all \in BOOLEAN, Preview(c, q, kind, asked, all)
      PROVE  UNCHANGED journal
  BY <1>1, <1>5, PreviewFacts
<1>6. ASSUME NEW c \in Callers, NEW q \in Runs, StartApply(c, q) PROVE UNCHANGED journal
  BY <1>1, <1>6, ApplyFacts
<1>7. ASSUME NEW c \in Callers, RemoveAsset(c) \/ FixPath(c) \/ DeleteHidden(c)
      PROVE  UNCHANGED journal
  BY <1>7, WorksFacts
<1>8. ASSUME NEW c \in Callers, FinishApply(c) PROVE UNCHANGED journal
  BY <1>8 DEF FinishApply
<1>9. CASE \/ OpenWindow \/ WalkRoots \/ CommitSnapshots
           \/ \E paths : Touches(paths)
           \/ \E a \in Assets : Renews(a)
           \/ \E p \in Hidden : HandleOpened(p)
           \/ JournalCrash /\ RemCrash
  <2>1. UNCHANGED journal
    BY <1>1, <1>9, OpenFacts, WalkFacts, CommitFacts, HandleFacts, RemCrashFacts DEF Touches, Renews
  <2> QED
    BY <1>4, <2>1
<1> QED
  BY <1>3, <1>4, <1>5, <1>6, <1>7, <1>8, <1>9 DEF RemActs

-----------------------------------------------------------------------------
(* What an apply relies on while others move.                               *)

\* An apply goes on with what it had to do, or less.
GoesOn(d) ==
    pc'[d] # "idle" =>
        pc[d] # "idle" /\ mem'[d].kind = mem[d].kind /\ mem'[d].todo \subseteq mem[d].todo

LEMMA GoesOnOrStarts ==
  ASSUME RemInv, RemActs, NEW d \in Callers
  PROVE  GoesOn(d) \/ \E r \in Runs : StartApply(d, r)
<1>1. RemTypes /\ RemCallers
  BY DEF RemInv, RemTypes
<1>2. ASSUME pc'[d] = pc[d] /\ mem'[d] = mem[d] PROVE GoesOn(d)
  BY <1>2 DEF GoesOn
<1>3. ASSUME NEW c \in Callers, NEW r \in Runs, StartApply(c, r), c # d PROVE GoesOn(d)
  <2>1. Moves(c) \/ UNCHANGED <<pc, mem>>
    BY <1>1, <1>3, ApplyFacts
  <2> QED
    BY <1>1, <1>2, <1>3, <2>1, RemOthers
<1>4. ASSUME NEW c \in Callers, RemoveAsset(c) \/ FixPath(c) \/ DeleteHidden(c) PROVE GoesOn(d)
  <2>1. PICK f \in mem[c].todo : WorksOn(c, f, "journal") \/ WorksOn(c, f, "item")
    BY <1>4, WorksFacts DEF TakesOne
  <2>2. /\ Moves(c) /\ pc[c] = "item" /\ mem'[c].kind = mem[c].kind
        /\ mem'[c].todo = mem[c].todo \ {f}
    BY <2>1 DEF WorksOn
  <2>3. CASE d = c
    BY <2>2, <2>3 DEF GoesOn
  <2> QED
    BY <1>1, <1>2, <2>2, <2>3, RemOthers
<1>5. ASSUME NEW c \in Callers, JournalItem(c) PROVE GoesOn(d)
  <2>1. /\ Moves(c) /\ pc[c] = "journal" /\ mem'[c].kind = mem[c].kind
        /\ mem'[c].todo = mem[c].todo
    BY <1>1, <1>5, JournalFacts
  <2>2. CASE d = c
    BY <2>1, <2>2 DEF GoesOn
  <2> QED
    BY <1>1, <1>2, <2>1, <2>2, RemOthers
<1>6. ASSUME NEW c \in Callers, FinishApply(c) PROVE GoesOn(d)
  <2>1. runs[mem[c].run] # None
    BY <1>6 DEF RemInv, Bound, FinishApply
  <2>2. Moves(c) /\ pc'[c] = "idle"
    BY <1>1, <1>6, <2>1, FinishApplyFacts
  <2>3. CASE d = c
    BY <2>2, <2>3 DEF GoesOn
  <2> QED
    BY <1>1, <1>2, <2>2, <2>3, RemOthers
<1>7. CASE JournalCrash /\ RemCrash
  BY <1>7, RemCrashFacts DEF GoesOn
<1>8. CASE \/ OpenWindow \/ WalkRoots \/ CommitSnapshots
           \/ \E paths : Touches(paths)
           \/ \E a \in Assets : Renews(a)
           \/ \E p \in Hidden : HandleOpened(p)
  <2>1. UNCHANGED <<pc, mem>>
    BY <1>1, <1>8, OpenFacts, WalkFacts, CommitFacts, HandleFacts DEF Touches, Renews
  <2> QED
    BY <1>2, <2>1
<1>9. ASSUME NEW c \in Callers, NEW r \in Runs, NEW kind \in ActionKinds, NEW asked,
             NEW all \in BOOLEAN, Preview(c, r, kind, asked, all)
      PROVE  GoesOn(d)
  BY <1>1, <1>2, <1>9, PreviewFacts
<1> QED
  BY <1>3, <1>4, <1>5, <1>6, <1>7, <1>8, <1>9 DEF RemActs

\* While an apply is under way, a file that changes and is not a hidden one is known
\* to have changed.
Settled ==
    /\ shaken \subseteq shaken'
    /\ \A p \in Paths \ Hidden : disk'[p] = disk[p] \/ p \in shaken'

LEMMA SettledSteps ==
  ASSUME RemInv, RemActs, NEW d \in Callers, pc[d] # "idle"
  PROVE  Settled
<1>1. RemTypes
  BY DEF RemInv
<1>2. CASE UNCHANGED <<disk, shaken>>
  BY <1>2 DEF Settled
<1>3. ASSUME NEW paths, Touches(paths) PROVE Settled
  <2>1. shaken' = shaken \cup paths /\ \A p \in Paths \ paths : disk'[p] = disk[p]
    BY <1>3 DEF Touches
  <2> QED
    BY <2>1 DEF Settled
<1>4. ASSUME NEW c \in Callers, DeleteHidden(c) PROVE Settled
  <2>1. UNCHANGED shaken
    BY <1>4, WorksFacts
  <2>2. Targets(c)
    BY DEF RemInv
  <2>3. \E f \in mem[c].todo :
            \/ /\ WorksOn(c, f, "journal") /\ f.at \in Hidden
               /\ disk' = [disk EXCEPT ![f.at] = None]
            \/ WorksOn(c, f, "item") /\ UNCHANGED disk
    BY <1>1, <1>4, <2>2, HiddenDeleteFacts
  <2> QED
    BY <1>1, <2>1, <2>3 DEF Settled, RemTypes, WorldTypes
<1>5. CASE \/ OpenWindow \/ WalkRoots \/ CommitSnapshots
           \/ \E a \in Assets : Renews(a)
           \/ \E p \in Hidden : HandleOpened(p)
           \/ JournalCrash /\ RemCrash
  <2>1. UNCHANGED <<disk, shaken>>
    BY <1>1, <1>5, OpenFacts, WalkFacts, CommitFacts, HandleFacts, RemCrashFacts
       DEF Renews, world
  <2> QED
    BY <1>2, <2>1
<1>6. ASSUME NEW c \in Callers,
             RemoveAsset(c) \/ FixPath(c) \/ JournalItem(c) \/ FinishApply(c)
      PROVE  Settled
  <2>1. UNCHANGED <<disk, shaken>>
    BY <1>6 DEF RemoveAsset, FixPath, JournalItem, FinishApply, remVars, world
  <2> QED
    BY <1>2, <2>1
<1>7. ASSUME NEW c \in Callers, NEW r \in Runs, StartApply(c, r) PROVE Settled
  BY <1>2, <1>7 DEF StartApply, world
<1>8. ASSUME NEW c \in Callers, NEW r \in Runs, NEW kind \in ActionKinds, NEW asked,
             NEW all \in BOOLEAN, Preview(c, r, kind, asked, all)
      PROVE  Settled
  BY <1>2, <1>8 DEF Preview, remVars
<1> QED
  BY <1>3, <1>4, <1>5, <1>6, <1>7, <1>8 DEF RemActs

LEMMA FixTargetStays ==
  ASSUME NEW f, FixTarget(f), Settled
  PROVE  FixTarget(f)'
<1>1. f.at \in Paths \ Hidden
  BY DEF FixTarget, Uploads
<1> QED
  BY <1>1 DEF FixTarget, Settled, Uploads

LEMMA RemTargets ==
  ASSUME RemInv, RemActs, NEW d \in Callers
  PROVE  Targets(d)'
<1>1. RemTypes /\ Targets(d)
  BY DEF RemInv
<1>2. CASE GoesOn(d)
  <2>1. SUFFICES ASSUME pc'[d] # "idle", NEW f \in mem'[d].todo, NEW kind, kind = mem'[d].kind
                 PROVE  Fits(kind, f)'
    BY DEF Targets
  <2>2. pc[d] # "idle" /\ f \in mem[d].todo /\ kind = mem[d].kind
    BY <1>2, <2>1 DEF GoesOn
  <2>3. Settled
    BY <2>2, SettledSteps
  <2>4. Fits(kind, f)
    BY <1>1, <2>2 DEF Targets
  <2> QED
    BY <2>3, <2>4, FixTargetStays DEF Fits
<1>3. ASSUME NEW r \in Runs, StartApply(d, r) PROVE Targets(d)'
  <2>1. UNCHANGED <<disk, shaken>>
    BY <1>3 DEF StartApply, world
  <2>2. \/ \A f \in mem'[d].todo : f \in Scan /\ mem'[d].kind \in f.actions
        \/ UNCHANGED <<pc, mem>> /\ pc[d] = "idle"
    BY <1>1, <1>3, ApplyFacts
  <2>3. SUFFICES ASSUME pc'[d] # "idle", NEW f \in mem'[d].todo, NEW kind, kind = mem'[d].kind,
                        f \in Scan, kind \in f.actions
                 PROVE  Fits(kind, f)'
    BY <2>2 DEF Targets
  <2>4. /\ "broken_db_cleanup" \in f.actions => f.item \in Broken
        /\ "broken_db_path_fix" \in f.actions =>
               /\ f.item \in Assets /\ f.at \in Uploads /\ NameOf[f.at] = NameOf[f.item]
               /\ disk[f.at] = Checksum[f.item]
        /\ "fuse_hidden_delete" \in f.actions => f.at \in Hidden
    BY <1>1, <2>3, ScanFacts DEF RemTypes
  <2>5. "broken_db_path_fix" \in f.actions => FixTarget(f)
    BY <2>4, HiddenAssumption DEF FixTarget
  <2>6. FixTarget(f) => FixTarget(f)'
    BY <2>1 DEF FixTarget, Uploads
  <2> QED
    BY <2>3, <2>4, <2>5, <2>6 DEF Fits, Broken
<1> QED
  BY <1>2, <1>3, GoesOnOrStarts

LEMMA RemFixed ==
  ASSUME RemInv, RemActs
  PROVE  FixedWell'
<1>1. RemTypes /\ FixedWell
  BY DEF RemInv
<1>2. CASE UNCHANGED <<original, disk, fixed>>
  BY <1>1, <1>2 DEF FixedWell
<1>3. ASSUME NEW paths, Touches(paths) PROVE FixedWell'
  BY <1>1, <1>3 DEF FixedWell, Touches
<1>4. ASSUME NEW a \in Assets, Renews(a) PROVE FixedWell'
  BY <1>1, <1>4 DEF FixedWell, Renews, RemTypes, WorldTypes
<1>5. ASSUME NEW c \in Callers, RemoveAsset(c) PROVE FixedWell'
  <2>1. UNCHANGED disk /\ Targets(c)
    BY <1>5 DEF RemoveAsset, RemInv
  <2>2. PICK f \in mem[c].todo :
            \/ /\ WorksOn(c, f, "journal") /\ mem[c].kind = "broken_db_cleanup"
               /\ f.item \in Assets /\ original[f.item] # None
               /\ original' = [original EXCEPT ![f.item] = None] /\ fixed' = fixed \ {f.item}
            \/ WorksOn(c, f, "item") /\ UNCHANGED <<original, fixed>>
    BY <1>1, <1>5, <2>1, RemoveFacts
  <2>3. CASE original' = [original EXCEPT ![f.item] = None] /\ fixed' = fixed \ {f.item}
    BY <1>1, <2>1, <2>3 DEF FixedWell, RemTypes, WorldTypes
  <2> QED
    BY <1>2, <2>1, <2>2, <2>3
<1>6. ASSUME NEW c \in Callers, FixPath(c) PROVE FixedWell'
  <2>1. UNCHANGED disk /\ Targets(c)
    BY <1>6 DEF FixPath, RemInv
  <2>2. PICK f \in mem[c].todo :
            \/ /\ WorksOn(c, f, "journal") /\ FixTarget(f)
               /\ original' = [original EXCEPT ![f.item] = f.at]
               /\ fixed' = IF f.at \in shaken THEN fixed \ {f.item} ELSE fixed \cup {f.item}
            \/ WorksOn(c, f, "item") /\ UNCHANGED <<original, fixed>>
    BY <1>1, <1>6, <2>1, FixFacts
  <2>3. CASE /\ FixTarget(f) /\ original' = [original EXCEPT ![f.item] = f.at]
             /\ fixed' = IF f.at \in shaken THEN fixed \ {f.item} ELSE fixed \cup {f.item}
    <3>1. f.item \in Assets /\ f.at \in Paths \ Hidden
          /\ (f.at \notin shaken => disk[f.at] = Checksum[f.item])
      BY <2>3 DEF FixTarget, Uploads
    <3>2. original'[f.item] = f.at /\ \A a \in Assets : a # f.item => original'[a] = original[a]
      BY <1>1, <2>3, <3>1 DEF RemTypes, WorldTypes
    <3>3. fixed' \subseteq fixed \cup {f.item} /\ fixed \subseteq Assets
          /\ (f.item \in fixed' => f.at \notin shaken)
      BY <1>1, <2>3 DEF RemTypes, WorldTypes
    <3> QED
      BY <1>1, <2>1, <3>1, <3>2, <3>3 DEF FixedWell
  <2> QED
    BY <1>2, <2>1, <2>2, <2>3
<1>7. ASSUME NEW c \in Callers, DeleteHidden(c) PROVE FixedWell'
  <2>1. UNCHANGED <<original, fixed>> /\ Targets(c)
    BY <1>7 DEF DeleteHidden, RemInv
  <2>2. \E f \in mem[c].todo :
            \/ /\ WorksOn(c, f, "journal") /\ f.at \in Hidden
               /\ disk' = [disk EXCEPT ![f.at] = None]
            \/ WorksOn(c, f, "item") /\ UNCHANGED disk
    BY <1>1, <1>7, <2>1, HiddenDeleteFacts
  <2>3. \A p \in Paths \ Hidden : disk'[p] = disk[p]
    BY <1>1, <2>2 DEF RemTypes, WorldTypes
  <2> QED
    BY <1>1, <2>1, <2>3 DEF FixedWell
<1>8. ASSUME \/ OpenWindow \/ WalkRoots \/ CommitSnapshots
             \/ \E p \in Hidden : HandleOpened(p)
             \/ JournalCrash /\ RemCrash
             \/ \E c \in Callers : JournalItem(c) \/ FinishApply(c)
             \/ \E c \in Callers : \E r \in Runs : StartApply(c, r)
             \/ \E c \in Callers : \E r \in Runs : \E kind \in ActionKinds : \E asked :
                   \E all \in BOOLEAN : Preview(c, r, kind, asked, all)
      PROVE  UNCHANGED <<original, disk, fixed>>
  <2>1. CASE OpenWindow \/ WalkRoots \/ CommitSnapshots
    BY <1>1, <2>1, OpenFacts, WalkFacts, CommitFacts
  <2>2. CASE \/ \E p \in Hidden : HandleOpened(p)
             \/ JournalCrash /\ RemCrash
    BY <2>2, HandleFacts, RemCrashFacts DEF world
  <2>3. CASE \E c \in Callers : JournalItem(c) \/ FinishApply(c)
    BY <2>3 DEF JournalItem, FinishApply, remVars, world
  <2>4. CASE \/ \E c \in Callers : \E r \in Runs : StartApply(c, r)
             \/ \E c \in Callers : \E r \in Runs : \E kind \in ActionKinds : \E asked :
                   \E all \in BOOLEAN : Preview(c, r, kind, asked, all)
    BY <2>4 DEF StartApply, Preview, remVars, world
  <2> QED
    BY <1>8, <2>1, <2>2, <2>3, <2>4
<1> QED
  BY <1>2, <1>3, <1>4, <1>5, <1>6, <1>7, <1>8 DEF RemActs

\* What a change of some files does to an index that lists the unchanged ones.
LEMMA CompleteStays ==
  ASSUME NEW old \in Index \cup {None}, NEW new, NEW paths, Kept(old, new, paths), Complete(old)
  PROVE  Complete(new)
<1>1. CASE old = None
  BY <1>1, NoRemAssumption DEF Kept, Complete
<1>2. CASE old \in Index
  BY <1>2 DEF Kept, Complete
<1> QED
  BY <1>1, <1>2

LEMMA RemWhole ==
  ASSUME RemInv, RemActs
  PROVE  IndexWhole'
<1>1. /\ RemTypes /\ IndexWhole
      /\ committed \in Index \cup {None} /\ walk \in Index \cup {None}
  BY DEF RemInv, RemTypes, WorldTypes
<1>2. ASSUME NEW paths, Kept(committed, committed', paths), Kept(walk, walk', paths)
      PROVE  IndexWhole'
  <2>1. Complete(committed') /\ Complete(walk')
    BY <1>1, <1>2, CompleteStays DEF IndexWhole
  <2> QED
    BY <2>1 DEF IndexWhole
<1>3. ASSUME UNCHANGED <<committed, walk>> PROVE IndexWhole'
  BY <1>1, <1>3 DEF IndexWhole
<1>4. CASE OpenWindow
  <2>1. UNCHANGED committed /\ walk'.snapshot = {} /\ walk'.late = {}
    BY <1>4, OpenFacts
  <2> QED
    BY <1>1, <2>1 DEF IndexWhole, Complete
<1>5. CASE WalkRoots
  <2>1. /\ UNCHANGED committed /\ walk \in Index
        /\ walk'.late = walk.late /\ walk'.changed = walk.changed
        /\ \A p \in walk'.snapshot : p \notin walk.late => p \in walk'.listed
    BY <1>1, <1>5, WalkFacts
  <2> QED
    BY <1>1, <2>1 DEF IndexWhole, Complete
<1>6. CASE CommitSnapshots
  <2>1. walk \in Index /\ committed' = walk /\ walk' = None
    BY <1>1, <1>6, CommitFacts
  <2> QED
    BY <1>1, <2>1, NoRemAssumption DEF IndexWhole, Complete
<1>7. ASSUME NEW paths, Touches(paths) PROVE IndexWhole'
  BY <1>2, <1>7 DEF Touches
<1>8. ASSUME NEW a \in Assets, Renews(a) PROVE IndexWhole'
  BY <1>2, <1>8 DEF Renews
<1>9. ASSUME \/ \E p \in Hidden : HandleOpened(p)
             \/ JournalCrash /\ RemCrash
             \/ \E c \in Callers :
                   \/ RemoveAsset(c) \/ FixPath(c) \/ DeleteHidden(c)
                   \/ JournalItem(c) \/ FinishApply(c)
             \/ \E c \in Callers : \E r \in Runs : StartApply(c, r)
             \/ \E c \in Callers : \E r \in Runs : \E kind \in ActionKinds : \E asked :
                   \E all \in BOOLEAN : Preview(c, r, kind, asked, all)
      PROVE  UNCHANGED <<committed, walk>>
  <2>1. CASE \/ \E p \in Hidden : HandleOpened(p)
             \/ JournalCrash /\ RemCrash
    BY <2>1, HandleFacts, RemCrashFacts DEF world
  <2>2. CASE \E c \in Callers :
                \/ RemoveAsset(c) \/ FixPath(c) \/ DeleteHidden(c)
                \/ JournalItem(c) \/ FinishApply(c)
    BY <2>2 DEF RemoveAsset, FixPath, DeleteHidden, JournalItem, FinishApply, remVars, world
  <2>3. CASE \/ \E c \in Callers : \E r \in Runs : StartApply(c, r)
             \/ \E c \in Callers : \E r \in Runs : \E kind \in ActionKinds : \E asked :
                   \E all \in BOOLEAN : Preview(c, r, kind, asked, all)
    BY <2>3 DEF StartApply, Preview, remVars, world
  <2> QED
    BY <1>9, <2>1, <2>2, <2>3
<1> QED
  BY <1>3, <1>4, <1>5, <1>6, <1>7, <1>8, <1>9 DEF RemActs

\* While the index an apply is from is not replaced, it loses no listed file, and a
\* row it does not know of as younger is removed or gets a path of the same name.
RowsSettled ==
    \E paths :
        /\ Kept(committed, committed', paths)
        /\ \A a \in Assets : \/ original'[a] \in {original[a], None}
                             \/ original'[a] \in Paths /\ NameOf[original'[a]] = NameOf[a]
                             \/ committed \in Index => a \in committed'.young

LEMMA SameRows ==
  ASSUME RemInv, UNCHANGED <<original, committed>>
  PROVE  RowsSettled
<1>1. Kept(committed, committed', {})
  BY KeptUnchanged DEF RemInv, RemTypes, WorldTypes
<1> QED
  BY <1>1 DEF RowsSettled

LEMMA RowsSteps ==
  ASSUME RemInv, RemActs, NEW d \in Callers, pc[d] # "idle", pc'[d] # "idle", d \notin superseded'
  PROVE  d \notin superseded /\ RowsSettled
<1>1. RemTypes /\ RemCallers
  BY DEF RemInv, RemTypes
<1>2. CASE UNCHANGED <<original, committed, superseded>>
  BY <1>2, SameRows
<1>3. CASE CommitSnapshots
  BY <1>1, <1>3, CommitFacts
<1>4. ASSUME NEW c \in Callers, NEW r \in Runs, StartApply(c, r)
      PROVE  d \notin superseded /\ RowsSettled
  <2>1. superseded' = superseded \ {c} /\ UNCHANGED <<original, committed>> /\ pc[c] = "idle"
    BY <1>4 DEF StartApply, Call, world
  <2> QED
    BY <2>1, SameRows
<1>5. ASSUME NEW c \in Callers, FinishApply(c) PROVE d \notin superseded /\ RowsSettled
  <2>1. superseded' = superseded \ {c} /\ UNCHANGED <<original, committed>>
    BY <1>5 DEF FinishApply, world
  <2>2. runs[mem[c].run] # None
    BY <1>5 DEF RemInv, Bound, FinishApply
  <2>3. pc'[c] = "idle"
    BY <1>1, <1>5, <2>2, FinishApplyFacts
  <2> QED
    BY <2>1, <2>3, SameRows
<1>6. ASSUME NEW c \in Callers, RemoveAsset(c) PROVE d \notin superseded /\ RowsSettled
  <2>1. UNCHANGED <<superseded, committed>> /\ Targets(c)
    BY <1>6 DEF RemoveAsset, RemInv
  <2>2. \E f \in mem[c].todo :
            \/ /\ WorksOn(c, f, "journal") /\ mem[c].kind = "broken_db_cleanup"
               /\ f.item \in Assets /\ original[f.item] # None
               /\ original' = [original EXCEPT ![f.item] = None] /\ fixed' = fixed \ {f.item}
            \/ WorksOn(c, f, "item") /\ UNCHANGED <<original, fixed>>
    BY <1>1, <1>6, <2>1, RemoveFacts
  <2>3. \A a \in Assets : original'[a] \in {original[a], None}
    BY <1>1, <2>2 DEF RemTypes, WorldTypes
  <2>4. Kept(committed, committed', {})
    BY <1>1, <2>1, KeptUnchanged DEF RemTypes, WorldTypes
  <2> QED
    BY <2>1, <2>3, <2>4 DEF RowsSettled
<1>7. ASSUME NEW c \in Callers, FixPath(c) PROVE d \notin superseded /\ RowsSettled
  <2>1. UNCHANGED <<superseded, committed>> /\ Targets(c)
    BY <1>7 DEF FixPath, RemInv
  <2>2. PICK f \in mem[c].todo :
            \/ /\ WorksOn(c, f, "journal") /\ FixTarget(f)
               /\ original' = [original EXCEPT ![f.item] = f.at]
               /\ fixed' = IF f.at \in shaken THEN fixed \ {f.item} ELSE fixed \cup {f.item}
            \/ WorksOn(c, f, "item") /\ UNCHANGED <<original, fixed>>
    BY <1>1, <1>7, <2>1, FixFacts
  <2>3. \A a \in Assets : \/ original'[a] = original[a]
                          \/ original'[a] \in Paths /\ NameOf[original'[a]] = NameOf[a]
    BY <1>1, <2>2 DEF RemTypes, WorldTypes, FixTarget, Uploads
  <2>4. Kept(committed, committed', {})
    BY <1>1, <2>1, KeptUnchanged DEF RemTypes, WorldTypes
  <2> QED
    BY <2>1, <2>3, <2>4 DEF RowsSettled
<1>8. ASSUME NEW paths, Touches(paths) PROVE d \notin superseded /\ RowsSettled
  BY <1>8 DEF RowsSettled, Touches
<1>9. ASSUME NEW a \in Assets, Renews(a) PROVE d \notin superseded /\ RowsSettled
  <2>1. /\ UNCHANGED superseded /\ Kept(committed, committed', {})
        /\ committed \in Index => a \in committed'.young
        /\ \A b \in Assets : b # a => original'[b] = original[b]
    BY <1>9 DEF Renews
  <2> QED
    BY <2>1 DEF RowsSettled
<1>10. CASE JournalCrash /\ RemCrash
  BY <1>10, RemCrashFacts
<1>11. ASSUME \/ OpenWindow \/ WalkRoots
              \/ \E p \in Hidden : HandleOpened(p)
              \/ \E c \in Callers : DeleteHidden(c) \/ JournalItem(c)
              \/ \E c \in Callers : \E r \in Runs : \E kind \in ActionKinds : \E asked :
                    \E all \in BOOLEAN : Preview(c, r, kind, asked, all)
       PROVE  UNCHANGED <<original, committed, superseded>>
  <2>1. CASE OpenWindow \/ WalkRoots
    BY <1>1, <2>1, OpenFacts, WalkFacts
  <2>2. CASE \E p \in Hidden : HandleOpened(p)
    BY <2>2, HandleFacts
  <2>3. CASE \E c \in Callers : DeleteHidden(c) \/ JournalItem(c)
    BY <2>3 DEF DeleteHidden, JournalItem, remVars
  <2>4. CASE \E c \in Callers : \E r \in Runs : \E kind \in ActionKinds : \E asked :
                    \E all \in BOOLEAN : Preview(c, r, kind, asked, all)
    BY <2>4 DEF Preview, remVars
  <2> QED
    BY <1>11, <2>1, <2>2, <2>3, <2>4
<1> QED
  BY <1>2, <1>3, <1>4, <1>5, <1>6, <1>7, <1>8, <1>9, <1>10, <1>11 DEF RemActs

LEMMA RowGoneStays ==
  ASSUME RemTypes, NEW f, f.item \in Assets, RowGone(f, committed, original), RowsSettled
  PROVE  RowGone(f, committed', original')
<1>1. PICK paths :
        /\ Kept(committed, committed', paths)
        /\ \A a \in Assets : \/ original'[a] \in {original[a], None}
                             \/ original'[a] \in Paths /\ NameOf[original'[a]] = NameOf[a]
                             \/ committed \in Index => a \in committed'.young
  BY DEF RowsSettled
<1>2. /\ committed \in Index /\ committed' \in Index
      /\ committed'.listed = committed.listed /\ committed.young \subseteq committed'.young
      /\ committed.listed \subseteq Paths
  BY <1>1 DEF RowGone, Kept, Index
<1>3. CASE f.item \in committed'.young
  BY <1>2, <1>3 DEF RowGone
<1>4. CASE f.item \notin committed'.young
  <2>1. /\ original[f.item] \notin committed.listed
        /\ \A p \in committed.listed : NameOf[p] # NameOf[f.item]
    BY <1>2, <1>4 DEF RowGone
  <2>2. \/ original'[f.item] \in {original[f.item], None}
        \/ NameOf[original'[f.item]] = NameOf[f.item]
    BY <1>1, <1>2, <1>4
  <2>3. original'[f.item] \notin committed.listed
    BY <1>2, <2>1, <2>2, NoRemAssumption
  <2> QED
    BY <1>2, <2>1, <2>3 DEF RowGone
<1> QED
  BY <1>3, <1>4

LEMMA RemCleanup ==
  ASSUME RemInv, RemActs, NEW d \in Callers
  PROVE  CleanupSound(d)'
<1>1. RemTypes /\ WorldTypes /\ CleanupSound(d) /\ Targets(d)
  BY DEF RemInv, RemTypes
<1>2. CASE GoesOn(d)
  <2>1. SUFFICES ASSUME pc'[d] # "idle", mem'[d].kind = "broken_db_cleanup", d \notin superseded',
                        NEW f \in mem'[d].todo
                 PROVE  RowGone(f, committed', original')
    BY DEF CleanupSound
  <2>2. pc[d] # "idle" /\ f \in mem[d].todo /\ mem[d].kind = "broken_db_cleanup"
    BY <1>2, <2>1 DEF GoesOn
  <2>3. d \notin superseded /\ RowsSettled
    BY <2>1, <2>2, RowsSteps
  <2>4. f.item \in Assets
    BY <1>1, <2>2 DEF Targets, Fits
  <2>5. RowGone(f, committed, original)
    BY <1>1, <2>2, <2>3 DEF CleanupSound
  <2> QED
    BY <1>1, <2>3, <2>4, <2>5, RowGoneStays
<1>3. ASSUME NEW r \in Runs, StartApply(d, r) PROVE CleanupSound(d)'
  <2>1. UNCHANGED <<original, committed>>
    BY <1>3 DEF StartApply, world
  <2>2. \/ \A f \in mem'[d].todo : f \in Scan /\ mem'[d].kind \in f.actions
        \/ UNCHANGED <<pc, mem>> /\ pc[d] = "idle"
    BY <1>1, <1>3, ApplyFacts
  <2>3. SUFFICES ASSUME NEW f \in Scan, "broken_db_cleanup" \in f.actions
                 PROVE  RowGone(f, committed, original)
    BY <2>1, <2>2 DEF CleanupSound
  <2>4. f.item \in Broken /\ Located(f.item) = None /\ committed \in Index
    BY <1>1, <2>3, ScanFacts DEF WorldTypes
  <2>5. original[f.item] \notin committed.listed /\ committed.listed \subseteq Paths
    BY <2>4 DEF Broken, Index
  <2>6. \A p \in committed.listed : NameOf[p] # NameOf[f.item]
    BY <2>4, <2>5, LocatedFacts
  <2> QED
    BY <2>4, <2>5, <2>6 DEF RowGone
<1> QED
  BY <1>2, <1>3, GoesOnOrStarts

-----------------------------------------------------------------------------
(* Catalog remediation as a whole.                                          *)

LEMMA RemStarts == JournalInit /\ RemInit => RemInv
<1> SUFFICES ASSUME JournalInit, RemInit PROVE RemInv
  OBVIOUS
<1>1. /\ pc = [c \in Callers |-> "idle"] /\ mem = [c \in Callers |-> None]
      /\ runs = [r \in Runs |-> None] /\ journal = [r \in Runs |-> <<>>]
  BY DEF JournalInit
<1>2. RemCallers
  BY <1>1 DEF RemCallers, RemFitting
<1>3. WorldTypes
  BY DEF RemInit, WorldTypes, Uploads
<1>4. StoreTypes
  BY <1>1 DEF StoreTypes
<1>5. \A r \in Runs : Entries(r) = {}
  BY <1>1 DEF Entries
<1>6. FixedWell /\ IndexWhole
  BY NoRemAssumption DEF RemInit, FixedWell, IndexWhole, Complete
<1> QED
  BY <1>1, <1>2, <1>3, <1>4, <1>5, <1>6
     DEF RemInv, RemTypes, Bound, Targets, CleanupSound, Recorded

LEMMA RemStep == RemInv /\ [RemNext]_<<journalVars, remVars>> => RemInv'
<1>1. CASE RemInv /\ RemNext
  <2>1. RemActs
    BY <1>1, RemCases DEF RemInv
  <2>2. RemTypes'
    BY <1>1, <2>1, RemTyped
  <2>3. \A c \in Callers : Bound(c)' /\ Targets(c)' /\ CleanupSound(c)'
    BY <1>1, <2>1, RemBound, RemTargets, RemCleanup
  <2>4. \A r \in Runs : Recorded(r)'
    BY <1>1, <2>1, RemRecorded
  <2>5. FixedWell' /\ IndexWhole'
    BY <1>1, <2>1, RemFixed, RemWhole
  <2> QED
    BY <2>2, <2>3, <2>4, <2>5 DEF RemInv
<1>2. CASE RemInv /\ UNCHANGED <<journalVars, remVars>>
  <2>1. RemTypes'
    BY <1>2 DEF RemInv, RemTypes, RemCallers, WorldTypes, StoreTypes, journalVars, remVars
  <2>2. \A c \in Callers : Bound(c)' /\ Targets(c)' /\ CleanupSound(c)'
    BY <1>2 DEF RemInv, Bound, Targets, Fits, FixTarget, Uploads, CleanupSound, journalVars, remVars
  <2>3. \A r \in Runs : Recorded(r)'
    BY <1>2 DEF RemInv, Recorded, Entries, journalVars
  <2>4. FixedWell' /\ IndexWhole'
    BY <1>2 DEF RemInv, FixedWell, IndexWhole, remVars
  <2> QED
    BY <2>1, <2>2, <2>3, <2>4 DEF RemInv
<1> QED
  BY <1>1, <1>2

\* What a removal of a row has to do with the index and the files.
RowStep ==
    \A a \in Assets : original[a] # None /\ original'[a] = None =>
        \/ a \in committed.young
        \/ \E c \in superseded : pc'[c] # pc[c]
        \/ \A p \in Steady : p # original[a] /\ NameOf[p] # NameOf[a]

LEMMA RemovesRows ==
  ASSUME RemInv, RemActs, NEW a \in Assets, original[a] # None, original'[a] = None
  PROVE  \E c \in Callers : RemoveAsset(c)
<1>1. RemTypes
  BY DEF RemInv
<1>2. UNCHANGED original => FALSE
  OBVIOUS
<1>3. ASSUME NEW c \in Callers, FixPath(c) PROVE FALSE
  <2>1. Targets(c)
    BY DEF RemInv
  <2>2. PICK f \in mem[c].todo :
            \/ /\ WorksOn(c, f, "journal") /\ FixTarget(f)
               /\ original' = [original EXCEPT ![f.item] = f.at]
               /\ fixed' = IF f.at \in shaken THEN fixed \ {f.item} ELSE fixed \cup {f.item}
            \/ WorksOn(c, f, "item") /\ UNCHANGED <<original, fixed>>
    BY <1>1, <1>3, <2>1, FixFacts
  <2>3. original' = [original EXCEPT ![f.item] = f.at] /\ f.at \in Paths
    BY <1>2, <2>2 DEF FixTarget, Uploads
  <2> QED
    BY <1>1, <2>3, NoRemAssumption DEF RemTypes, WorldTypes
<1>4. ASSUME NEW b \in Assets, Renews(b) PROVE FALSE
  BY <1>4 DEF Renews
<1>5. ASSUME NEW paths, Touches(paths) PROVE FALSE
  BY <1>2, <1>5 DEF Touches
<1>6. CASE \/ OpenWindow \/ WalkRoots \/ CommitSnapshots
           \/ \E p \in Hidden : HandleOpened(p)
           \/ JournalCrash /\ RemCrash
  BY <1>1, <1>2, <1>6, OpenFacts, WalkFacts, CommitFacts, HandleFacts, RemCrashFacts DEF world
<1>7. CASE \E c \in Callers : DeleteHidden(c) \/ JournalItem(c) \/ FinishApply(c)
  BY <1>2, <1>7 DEF DeleteHidden, JournalItem, FinishApply, remVars, world
<1>8. CASE \/ \E c \in Callers : \E r \in Runs : StartApply(c, r)
           \/ \E c \in Callers : \E r \in Runs : \E kind \in ActionKinds : \E asked :
                 \E all \in BOOLEAN : Preview(c, r, kind, asked, all)
  BY <1>2, <1>8 DEF StartApply, Preview, remVars, world
<1> QED
  BY <1>3, <1>4, <1>5, <1>6, <1>7, <1>8 DEF RemActs

LEMMA RowsKept == RemInv /\ [RemNext]_<<journalVars, remVars>> => RowStep
<1> SUFFICES ASSUME RemInv, [RemNext]_<<journalVars, remVars>>,
                    NEW a \in Assets, original[a] # None, original'[a] = None
             PROVE  \/ a \in committed.young
                    \/ \E c \in superseded : pc'[c] # pc[c]
                    \/ \A p \in Steady : p # original[a] /\ NameOf[p] # NameOf[a]
  BY DEF RowStep
<1>1. RemTypes /\ RemActs
  BY RemCases DEF RemInv, remVars
<1>2. PICK c \in Callers : RemoveAsset(c)
  BY <1>1, RemovesRows
<1>3. Targets(c) /\ CleanupSound(c) /\ IndexWhole
  BY DEF RemInv
<1>4. PICK f \in mem[c].todo :
            \/ /\ WorksOn(c, f, "journal") /\ mem[c].kind = "broken_db_cleanup"
               /\ f.item \in Assets /\ original[f.item] # None
               /\ original' = [original EXCEPT ![f.item] = None] /\ fixed' = fixed \ {f.item}
            \/ WorksOn(c, f, "item") /\ UNCHANGED <<original, fixed>>
  BY <1>1, <1>2, <1>3, RemoveFacts
<1>5. /\ WorksOn(c, f, "journal") /\ mem[c].kind = "broken_db_cleanup"
      /\ original' = [original EXCEPT ![f.item] = None]
  BY <1>4
<1>6. a = f.item
  BY <1>1, <1>5 DEF RemTypes, WorldTypes
<1>7. pc[c] = "item" /\ pc'[c] = "journal"
  BY <1>5 DEF WorksOn
<1>8. CASE c \in superseded
  BY <1>7, <1>8
<1>9. CASE c \notin superseded
  <2>1. RowGone(f, committed, original)
    BY <1>3, <1>5, <1>7, <1>9 DEF CleanupSound
  <2>2. \A p \in Steady : p \in committed.listed
    BY <1>3, <2>1 DEF RowGone, IndexWhole, Complete, Steady
  <2> QED
    BY <1>6, <2>1, <2>2 DEF RowGone
<1> QED
  BY <1>8, <1>9

-----------------------------------------------------------------------------
(* The three services.                                                      *)

NoRuns == runs = [r \in Runs |-> None] /\ journal = [r \in Runs |-> <<>>]

\* The service that runs keeps its invariant, the others stay as they started.
WorkspaceInv ==
    /\ IF service = "files" THEN QuarInv ELSE QuarInit
    /\ IF service = "directories" THEN DirInv ELSE DirInit
    /\ IF service = "catalog" THEN RemInv ELSE RemInit /\ NoRuns

LEMMA WorkspaceStarts == Init => WorkspaceInv
  BY QuarStarts, DirStarts, RemStarts DEF Init, JournalInit, NoRuns, WorkspaceInv

LEMMA QuarStays ==
  ASSUME QuarInit, UNCHANGED quarVars
  PROVE  QuarInit'
  BY DEF QuarInit, quarVars

LEMMA DirStays ==
  ASSUME DirInit, UNCHANGED dirVars
  PROVE  DirInit'
  BY DEF DirInit, dirVars

LEMMA RemStays ==
  ASSUME RemInit, UNCHANGED remVars
  PROVE  RemInit'
  BY DEF RemInit, remVars

\* The quarantines keep no runs.
LEMMA QuarStore ==
  ASSUME QuarNext
  PROVE  UNCHANGED store
<1>1. ASSUME NEW c \in Callers, NEW chosen,
             \/ StartQuarantine(c, chosen) \/ \E flow : LoadIgnored(c, flow, chosen)
             \/ \E target : StartTransition(c, target, chosen)
      PROVE  UNCHANGED store
  BY <1>1 DEF StartQuarantine, LoadIgnored, StartTransition
<1>2. ASSUME NEW c \in Callers,
             \/ QuarantineRefused(c) \/ QuarantineMove(c) \/ QuarantineAppend(c)
             \/ QuarEnd(c) \/ Ignore(c) \/ Release(c)
      PROVE  UNCHANGED store
  BY <1>2 DEF QuarantineRefused, QuarantineMove, QuarantineAppend, QuarEnd, Ignore, Release
<1>3. ASSUME NEW c \in Callers,
             RestoreCheck(c) \/ RestoreMove(c) \/ DeleteFile(c) \/ TransitionAppend(c)
      PROVE  UNCHANGED store
  BY <1>3 DEF RestoreCheck, RestoreMove, DeleteFile, TransitionAppend
<1>4. CASE (\E f \in Findings : \E file \in Files : FileAppears(f, file)) \/ JournalCrash
  BY <1>4 DEF FileAppears, JournalCrash, store
<1> QED
  BY <1>1, <1>2, <1>3, <1>4 DEF QuarNext

LEMMA DirStore ==
  ASSUME DirNext
  PROVE  UNCHANGED store
<1>1. ASSUME NEW c \in Callers, NEW s, NEW selected,
             \/ StartDirQuarantine(c, s, selected) \/ \E target : StartDirEnd(c, target, s, selected)
      PROVE  UNCHANGED store
  BY <1>1 DEF StartDirQuarantine, StartDirEnd
<1>2. ASSUME NEW c \in Callers,
             \/ MoveDir(c) \/ ReadDirIndex(c) \/ WriteDirIndex(c) \/ RestoreDir(c) \/ RemoveDir(c)
             \/ EndItems(c)
      PROVE  UNCHANGED store
  BY <1>2 DEF MoveDir, ReadDirIndex, WriteDirIndex, RestoreDir, RemoveDir, EndItems
<1>3. CASE \/ \E d \in Dirs : \/ DirMade(d)
                              \/ \E x \in DirFiles : FileAdded(d, x) \/ FileTaken(d, x)
           \/ JournalCrash
  BY <1>3 DEF DirMade, FileAdded, FileTaken, JournalCrash, store
<1> QED
  BY <1>1, <1>2, <1>3 DEF DirNext

LEMMA WorkspaceStep == WorkspaceInv /\ [Next]_vars => WorkspaceInv'
<1> SUFFICES ASSUME WorkspaceInv, [Next]_vars PROVE WorkspaceInv'
  OBVIOUS
<1>1. UNCHANGED service
  BY DEF Next, vars
<1>2. service = "files" => [QuarNext]_<<journalVars, quarVars>>
  BY DEF Next, vars
<1>3. service # "files" => UNCHANGED quarVars
  BY DEF Next, vars
<1>4. service = "directories" => [DirNext]_<<journalVars, dirVars>>
  BY DEF Next, vars
<1>5. service # "directories" => UNCHANGED dirVars
  BY DEF Next, vars
<1>6. service = "catalog" => [RemNext]_<<journalVars, remVars>>
  BY DEF Next, vars
<1>7. service # "catalog" => UNCHANGED remVars /\ UNCHANGED store
  BY QuarStore, DirStore DEF Next, vars, journalVars, store
<1>8. service = "files" => QuarInv'
  BY <1>2, QuarStep DEF WorkspaceInv
<1>9. service # "files" => QuarInit'
  BY <1>3, QuarStays DEF WorkspaceInv
<1>10. service = "directories" => DirInv'
  BY <1>4, DirStep DEF WorkspaceInv
<1>11. service # "directories" => DirInit'
  BY <1>5, DirStays DEF WorkspaceInv
<1>12. service = "catalog" => RemInv'
  BY <1>6, RemStep DEF WorkspaceInv
<1>13. service # "catalog" => RemInit' /\ NoRuns'
  BY <1>7, RemStays DEF WorkspaceInv, NoRuns, store
<1> QED
  BY <1>1, <1>8, <1>9, <1>10, <1>11, <1>12, <1>13 DEF WorkspaceInv

LEMMA WorkspaceIs == Spec => []WorkspaceInv
  BY WorkspaceStarts, WorkspaceStep, PTL DEF Spec

\* No quarantine of CatalogRemediationService or EmptyDirQuarantineManager loses
\* a file: it is at its source, in the quarantine, or was asked to be deleted,
\* but for places two items share and files put into a directory after its scan.
THEOREM KeepsFiles == Spec => []QuarantineKeeps
<1>1. WorkspaceInv => QuarantineKeeps
  BY QuarKeeps, QuarUnused, DirKeeps, DirUnused DEF WorkspaceInv, QuarantineKeeps
<1> QED
  BY <1>1, WorkspaceIs, PTL

\* The index lines append_quarantine_item writes, the index of the sessions and
\* the list of ignored findings tell what is there, once nobody is at work on it,
\* unless a crash, a failed append or a list written over a newer one came between.
THEOREM IndexesTell == Spec => []IndexesTrue
<1>1. WorkspaceInv => IndexesTrue
  BY QuarKeeps, QuarUnused, DirKeeps, DirUnused DEF WorkspaceInv, IndexesTrue
<1> QED
  BY <1>1, WorkspaceIs, PTL

\* What CatalogRemediationService.apply did to a row or a file was in the preview of
\* its run, with the same target (_create_repair_run, validate_plan_token).
THEOREM AppliesAsPreviewed == Spec => []AsPreviewed
<1>1. RemInv => AsPreviewed
  BY DEF RemInv, Recorded, AsPreviewed
<1>2. RemInit /\ NoRuns => AsPreviewed
  BY DEF NoRuns, AsPreviewed, Entries
<1>3. WorkspaceInv => AsPreviewed
  BY <1>1, <1>2 DEF WorkspaceInv
<1> QED
  BY <1>3, WorkspaceIs, PTL

\* A path that update_asset_original_path corrected leads to a file with the content
\* of the row's checksum, until the file or the row is changed.
THEOREM FixesVerified == Spec => []FixVerified
<1>1. RemInv => FixVerified
  BY DEF RemInv, FixedWell, FixVerified
<1>2. RemInit => FixVerified
  BY DEF RemInit, FixVerified
<1>3. WorkspaceInv => FixVerified
  BY <1>1, <1>2 DEF WorkspaceInv
<1> QED
  BY <1>3, WorkspaceIs, PTL

\* The cleanup of broken rows removes none whose file, or one of its name, the scan has
\* read and nobody has changed since the window of the index opened
\* (_row_within_snapshot_window, _search_for_relocated_file), unless another scan has
\* replaced the index meanwhile.
THEOREM SteadyRowsStay == Spec => SteadyFileKeepsRow
<1>1. WorkspaceInv /\ [Next]_vars =>
          [\A a \in Assets : original[a] # None /\ original'[a] = None =>
              \/ a \in committed.young
              \/ \E c \in superseded : pc'[c] # pc[c]
              \/ \A p \in Steady : p # original[a] /\ NameOf[p] # NameOf[a]]_<<journalVars, remVars>>
  <2> SUFFICES ASSUME WorkspaceInv, [Next]_vars PROVE RowStep
    BY DEF RowStep
  <2>1. CASE service = "catalog"
    <3>1. [RemNext]_<<journalVars, remVars>>
      BY <2>1 DEF Next, vars
    <3>2. RemInv
      BY <2>1 DEF WorkspaceInv
    <3> QED
      BY <3>1, <3>2, RowsKept
  <2>2. CASE service # "catalog"
    <3>1. UNCHANGED original
      BY <2>2 DEF Next, vars, remVars
    <3> QED
      BY <3>1 DEF RowStep
  <2> QED
    BY <2>1, <2>2
<1> QED
  BY <1>1, WorkspaceIs, PTL DEF Spec, SteadyFileKeepsRow
=============================================================================
