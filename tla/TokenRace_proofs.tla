--------------------------- MODULE TokenRace_proofs ---------------------------
(***************************************************************************)
(* The race behind an event-based gateway, on every diagram: without a crash *)
(* one of its catch events goes on, whatever runs beside it and however many *)
(* of them were triggered before the PI handled the first.                   *)
(***************************************************************************)
EXTENDS TokenFlow_proofs

-----------------------------------------------------------------------------
(* The invariant.                                                          *)

\* A predecessor that an FNI names or whose token it was given, ended or not.
Named(g, s) == s \in rows[g].prev \/ \E t \in Tokens : t[2] = s /\ Carried(g, t)

\* An FNI goes on when a token of it is to be dispatched, is held, or has
\* arrived, and from the moment on that its result is accepted.
GoesOn(f) ==
    \/ \E g \in Fnis : Named(g, f)
    \/ \E t \in Pending : t[2] = f
    \/ pc = "race" /\ winner = f

IsEventGateway(e) == Kind(e[1]) = "eventGateway"

\* The result of g will be refused as f is the winner: g has ended, is about to
\* be cancelled, or is stamped.
BeatenBy(f, g) ==
    ~Live(mem[g]) \/ (pc = "race" /\ winner = f) \/ (g \in losers /\ mem[g] = "active")

\* Tokens take the flows of the diagram.
FlowsOnly ==
    /\ \A t \in Pending : t[1] \in diagram.flows
    /\ \A g, s \in Fnis : Claims(g, s) => <<s[1], g[1]>> \in diagram.flows
\* Only joins carry tokens.
CatchesCarryNone == \A g \in Fnis, t \in Tokens : Carried(g, t) => ~IsCatch(g[1])
NamedEnded == \A g, s \in Fnis : Named(g, s) => Gone(s)
WinnerIsCatch ==
    pc = "race" => winner \in Fnis /\ IsCatch(winner[1]) /\ \A t \in todo : t[2] = winner
\* A gateway's tokens are held together or dispatched together, and until they
\* all are no catch event behind it goes on.
HeldUnclaimed == \A t \in HeldTokens, g \in Fnis : IsEventGateway(t[2]) => ~Claims(g, t[2])
SourcesApart ==
    pc \in {"race", "dispatch"} => \A t \in todo, u \in HeldTokens : t[2] # u[2]
GatewayFirst ==
    pc = "dispatch" =>
        \A t \in todo, g \in Fnis : IsEventGateway(t[2]) /\ Claims(g, t[2]) => ~GoesOn(g)
\* A catch event that goes on has beaten the others.
Decided ==
    \A f, g, e \in Fnis :
        f # g /\ Claims(f, e) /\ Claims(g, e) /\ IsEventGateway(e) /\ GoesOn(f)
            => ~GoesOn(g) /\ BeatenBy(f, g)

Race ==
    /\ pc # "down" /\ FlowsOnly /\ CatchesCarryNone /\ NamedEnded /\ WinnerIsCatch
    /\ HeldUnclaimed /\ SourcesApart /\ GatewayFirst /\ Decided
-----------------------------------------------------------------------------
(* What keeps it.                                                          *)

NamedKept == \A g, s \in Fnis : Named(g, s)' => Named(g, s)

\* Nobody is named anew if nobody is claimed or carried anew.
LEMMA NamedByClaims ==
    ASSUME ClaimsKept, CarriedKept
    PROVE  NamedKept
<1> SUFFICES ASSUME NEW g \in Fnis, NEW s \in Fnis, Named(g, s)' PROVE Named(g, s)
  BY DEF NamedKept
<1>1. CASE s \in rows'[g].prev
  <2>1. Claims(g, s)
    BY <1>1 DEF ClaimsKept, Claims
  <2> QED BY <2>1 DEF Claims, Named
<1>2. CASE \E t \in Tokens : t[2] = s /\ Carried(g, t)'
  BY <1>2 DEF CarriedKept, Named
<1> QED BY <1>1, <1>2 DEF Named

\* Only catch events are behind an event-based gateway.
LEMMA BehindIsCatch ==
    ASSUME Typed, FlowsOnly, NEW f \in Fnis, NEW e \in Fnis, IsEventGateway(e),
           <<e[1], f[1]>> \in diagram.flows
    PROVE  IsCatch(f[1])
<1> DEFINE flow == <<e[1], f[1]>>
<1>1. diagram \in Diagrams /\ flow \in diagram.flows /\ diagram.kind[flow[1]] = "eventGateway"
  BY DEF Typed, StateTyped, IsEventGateway, Kind
<1>2. diagram.kind[flow[2]] \in {"message", "timer"}
  BY <1>1, DiagramsAssumption
<1> QED BY <1>2 DEF IsCatch, Kind

\* A catch event names what it claims.
LEMMA CatchNames ==
    ASSUME CatchesCarryNone, NEW f \in Fnis, NEW e \in Fnis, IsCatch(f[1]), Claims(f, e)
    PROVE  e \in rows[f].prev
BY DEF CatchesCarryNone, Claims

\* Who was beaten by a rival stays so.
BeatenStays ==
    \A f, g, e \in Fnis :
        f # g /\ Claims(f, e) /\ Claims(g, e) /\ IsEventGateway(e) /\ BeatenBy(f, g) => BeatenBy(f, g)'

\* What stands without a new claim, a new token or a new winner.
LEMMA RaceStands ==
    ASSUME Typed, Race, diagram' = diagram, ClaimsKept, CarriedKept, GoneStays, BeatenStays,
           Pending' \subseteq Pending, pc' = "race" => (pc = "race" /\ winner' = winner)
    PROVE  /\ FlowsOnly' /\ CatchesCarryNone' /\ NamedEnded' /\ Decided'
           /\ \A x \in Fnis : GoesOn(x)' => GoesOn(x)
           /\ \A e : (IsEventGateway(e)' <=> IsEventGateway(e)) /\ (IsCatch(e)' <=> IsCatch(e))
<1>1. NamedKept
  BY NamedByClaims
<1>2. \A x \in Fnis : GoesOn(x)' => GoesOn(x)
  BY <1>1 DEF GoesOn, NamedKept
<1>k. \A n : Kind(n)' = Kind(n)
  BY DEF Kind
<1>g. \A e : (IsEventGateway(e)' <=> IsEventGateway(e)) /\ (IsCatch(e)' <=> IsCatch(e))
  BY <1>k DEF IsEventGateway, IsCatch
<1>3. FlowsOnly'
  BY DEF Race, FlowsOnly, ClaimsKept
<1>4. CatchesCarryNone'
  BY <1>g DEF Race, CatchesCarryNone, CarriedKept
<1>5. NamedEnded'
  BY <1>1 DEF Race, NamedEnded, NamedKept, GoneStays
<1>6. Decided'
  <2> SUFFICES ASSUME NEW f \in Fnis, NEW g \in Fnis, NEW e \in Fnis, f # g,
                      Claims(f, e)', Claims(g, e)', IsEventGateway(e)', GoesOn(f)'
               PROVE  ~GoesOn(g)' /\ BeatenBy(f, g)'
    BY DEF Decided
  <2>1. Claims(f, e) /\ Claims(g, e) /\ IsEventGateway(e) /\ GoesOn(f)
    BY <1>2, <1>g DEF ClaimsKept
  <2>2. ~GoesOn(g) /\ BeatenBy(f, g)
    BY <2>1 DEF Race, Decided
  <2> QED BY <1>2, <2>1, <2>2 DEF BeatenStays
<1> QED BY <1>2, <1>g, <1>3, <1>4, <1>5, <1>6

\* So it does if no token is dispatched, or held, anew.
LEMMA RaceKept ==
    ASSUME Typed, Race, diagram' = diagram, pc' # "down", ClaimsKept, CarriedKept, GoneStays, BeatenStays,
           Pending' \subseteq Pending, HeldTokens' \subseteq HeldTokens,
           pc' \in {"race", "dispatch"} => (pc' = pc /\ winner' = winner /\ todo' \subseteq todo)
    PROVE  Race'
<1>1. /\ FlowsOnly' /\ CatchesCarryNone' /\ NamedEnded' /\ Decided'
      /\ \A x \in Fnis : GoesOn(x)' => GoesOn(x)
      /\ \A e : (IsEventGateway(e)' <=> IsEventGateway(e)) /\ (IsCatch(e)' <=> IsCatch(e))
  BY RaceStands
<1>t. HeldTokens \subseteq Tokens /\ Pending \subseteq Tokens /\ (\A t \in Tokens : t[2] \in Fnis) /\ todo \subseteq Pending
  BY PendingTokens, NoTokens DEF Pending
<1>2. WinnerIsCatch'
  BY <1>1 DEF Race, WinnerIsCatch
<1>3. HeldUnclaimed'
  BY <1>1, <1>t DEF Race, HeldUnclaimed, ClaimsKept
<1>4. SourcesApart'
  BY DEF Race, SourcesApart
<1>5. GatewayFirst'
  <2> SUFFICES ASSUME pc' = "dispatch", NEW t \in todo', NEW g \in Fnis, IsEventGateway(t[2])', Claims(g, t[2])'
               PROVE  ~GoesOn(g)'
    BY DEF GatewayFirst
  <2>1. pc = "dispatch" /\ t \in todo /\ t[2] \in Fnis
    BY <1>t
  <2>2. IsEventGateway(t[2]) /\ Claims(g, t[2])
    BY <1>1, <2>1 DEF ClaimsKept
  <2> QED BY <1>1, <2>1, <2>2 DEF Race, GatewayFirst
<1> QED BY <1>1, <1>2, <1>3, <1>4, <1>5 DEF Race

\* Stamps and winners stay, and whoever is stamped does not wait.
LEMMA BeatenKept ==
    ASSUME losers \subseteq losers', pc = "race" => (pc' = "race" /\ winner' = winner),
           \A g \in Fnis : mem'[g] = mem[g] \/ ~Live(mem'[g]) \/ (pc # "race" /\ g \notin losers /\ Live(mem[g]))
    PROVE  BeatenStays
BY DEF BeatenStays, BeatenBy

\* At the start nobody has raced.
LEMMA RaceInit == Init => Race
<1> SUFFICES ASSUME Init PROVE Race
  OBVIOUS
<1>1. Pending = {} /\ HeldTokens = {} /\ todo = {} /\ pc = "evaluate" /\ gpa = {}
  BY DEF Init, HeldTokens, Pending
<1>2. \A f \in Fnis : rows[f].prev = {}
  BY DEF Init, NoRow
<1>3. \A f \in Fnis : task[f].acc = {} /\ DOMAIN task[f].mail = {}
  BY DEF Init, NewTask, NoTask
<1>4. \A f \in Fnis, t \in Tokens : ~Carried(f, t)
  BY <1>1, <1>3 DEF Carried
<1>5. \A f, s \in Fnis : ~Claims(f, s) /\ ~Named(f, s)
  BY <1>2, <1>4 DEF Claims, Named
<1> QED BY <1>1, <1>4, <1>5 DEF Race, FlowsOnly, CatchesCarryNone, NamedEnded, WinnerIsCatch, HeldUnclaimed,
           SourcesApart, GatewayFirst, Decided

-----------------------------------------------------------------------------
(* The steps that decide nothing.                                          *)

\* A handler's.
LEMMA RaceHandler ==
    ASSUME Typed, Race, NEW f \in Fnis, HandlerMoves(f)
    PROVE  Race'
<1>1. GoneStays
  <2>1. \A s \in Fnis : RowMoves(s) /\ mem'[s] = mem[s]
    BY DEF HandlerMoves, RowMoves
  <2> QED BY <2>1, GoneByRows
<1>2. BeatenStays
  BY BeatenKept DEF HandlerMoves
<1>3. Pending' \subseteq Pending /\ HeldTokens' \subseteq HeldTokens
  BY DEF HandlerMoves, Pending, HeldTokens
<1> QED BY <1>1, <1>2, <1>3, RaceKept DEF HandlerMoves, Race

\* The PI's, when it parks or ends an FNI that is not a stamped one parking.
LEMMA RaceFni ==
    ASSUME Typed, Race, NEW f \in Fnis, FniMoves(f), UNCHANGED <<winner, losers, held>>, todo' \subseteq todo,
           (\A g \in Fnis : mem'[g] = mem[g] \/ ~Live(mem'[g])) \/ (pc # "race" /\ f \notin losers), pc = "race" => pc' = "race", pc' # "down",
           pc' \in {"race", "dispatch"} => pc' = pc
    PROVE  Race'
<1>1. BeatenStays
  BY BeatenKept DEF FniMoves
<1>2. Pending' \subseteq Pending /\ HeldTokens' \subseteq HeldTokens
  BY DEF Pending, HeldTokens
<1> QED BY <1>1, <1>2, GoneByFni, RaceKept DEF FniMoves

\* The end of the PI process.
LEMMA RaceStop ==
    ASSUME Typed, Race, Stop, UNCHANGED <<diagram, rows, gpa>>, pc' = "ended"
    PROVE  Race'
<1>1. (\A f \in Fnis : mem'[f] = "none") /\ CarriedKept
  BY StopMoves
<1>2. ClaimsKept
  BY <1>1, ClaimsStay DEF RowMoves
<1>3. GoneStays /\ BeatenStays
  BY <1>1 DEF GoneStays, Gone, Live, BeatenStays, BeatenBy
<1>4. Pending' \subseteq Pending /\ HeldTokens' \subseteq HeldTokens
  BY DEF Stop, Pending, HeldTokens
<1> QED BY <1>1, <1>2, <1>3, <1>4, RaceKept

-----------------------------------------------------------------------------
(* The winner.                                                             *)

\* An FNI whose result is accepted becomes the one that goes on: nobody who
\* rivals it does.
LEMMA RaceOk ==
    ASSUME Typed, Quiet, Once, Race, NEW f \in Fnis, HandleOk(f)
    PROVE  Race'
<1>1. FniMoves(f) /\ ClaimsKept /\ CarriedKept /\ GoneStays /\ diagram' = diagram
  BY PiMovesOne, GoneByFni DEF FniMoves
<1>2. PICK flows \in Taken(f[1]) :
         IF Kind(f[1]) = "terminate" \/ LiveRivals(f) # {}
         THEN /\ todo' = TokensOf(f, flows) /\ UNCHANGED held
              /\ IF Kind(f[1]) = "terminate" THEN pc' = "interrupt" /\ UNCHANGED winner
                 ELSE pc' = "race" /\ winner' = f
         ELSE DispatchOrHold(TokensOf(f, flows)) /\ UNCHANGED winner
  BY DEF HandleOk
<1> DEFINE new == TokensOf(f, flows)
<1>3. \A t \in new : t \in Tokens /\ t[2] = f /\ t[1] \in diagram.flows
  BY TakenOut, TokensOfTyped DEF Typed, StateTyped
<1>4. /\ pc = "idle" /\ Live(mem[f]) /\ f \notin losers /\ losers' = losers
      /\ \A g \in Fnis \ {f} : mem'[g] = mem[g]
  BY <1>1 DEF HandleOk, FniMoves
<1>5. /\ \/ todo' = new /\ held' = held
         \/ todo' = {} /\ held' = <<new>> /\ pc' = "evaluate"
      /\ pc' = "race" => winner' = f /\ LiveRivals(f) # {}
      /\ LiveRivals(f) # {} /\ Kind(f[1]) # "terminate" => pc' = "race" /\ winner' = f
      /\ pc' # "down"
  BY <1>2 DEF DispatchOrHold
<1> HIDE DEF new
<1>6. ~GoesOn(f) /\ (\A g \in Fnis : ~Claims(g, f)) /\ (\A t \in HeldTokens : t[2] # f)
  <2>1. ~Gone(f)
    BY <1>4 DEF Gone
  <2> QED BY <1>4, <2>1 DEF GoesOn, Race, NamedEnded, Once, GoneSources, Pending
<1>7. \A t \in Pending' : (t \in new /\ t[2] = f) \/ t \in HeldTokens
  BY <1>3, <1>5 DEF Pending, HeldTokens
<1>8. NamedKept
  BY <1>1, NamedByClaims
<1>9. \A g \in Fnis \ {f} : GoesOn(g)' => GoesOn(g)
  BY <1>5, <1>7, <1>8 DEF GoesOn, NamedKept, Pending
<1>10. \A g, e \in Fnis : g # f /\ Claims(f, e) /\ Claims(g, e) /\ IsEventGateway(e) => ~GoesOn(g)
  BY <1>4 DEF Race, Decided, BeatenBy
<1>11. ASSUME NEW e \in Fnis, Claims(f, e), IsEventGateway(e) PROVE IsCatch(f[1]) /\ Kind(f[1]) # "terminate"
  BY <1>11, BehindIsCatch DEF Race, FlowsOnly, IsCatch
<1>k. \A n : Kind(n)' = Kind(n)
  BY <1>1 DEF Kind
<1>g. \A e : (IsEventGateway(e)' <=> IsEventGateway(e)) /\ (IsCatch(e)' <=> IsCatch(e))
  BY <1>k DEF IsEventGateway, IsCatch
<1>t. HeldTokens \subseteq Pending /\ Pending \subseteq Tokens /\ (\A t \in Tokens : t[2] \in Fnis)
  BY PendingTokens, NoTokens DEF Pending
<1>12. FlowsOnly'
  BY <1>1, <1>3, <1>7, <1>t DEF Race, FlowsOnly, ClaimsKept
<1>13. CatchesCarryNone'
  BY <1>1, <1>g DEF Race, CatchesCarryNone, CarriedKept
<1>14. NamedEnded'
  BY <1>1, <1>8 DEF Race, NamedEnded, NamedKept, GoneStays
<1>15. WinnerIsCatch'
  <2> SUFFICES ASSUME pc' = "race" PROVE (winner \in Fnis /\ IsCatch(winner[1]) /\ \A t \in todo : t[2] = winner)'
    BY DEF WinnerIsCatch
  <2>1. winner' = f
    BY <1>5
  <2>2. PICK g \in Fnis : \E e \in rows[f].prev \cap rows[g].prev : Kind(e[1]) = "eventGateway"
    BY <1>5 DEF LiveRivals, Rivals
  <2>3. PICK e \in rows[f].prev : Kind(e[1]) = "eventGateway"
    BY <2>2
  <2>4. e \in Fnis /\ Claims(f, e)
    BY <2>3 DEF Typed, RowsTyped, RowRecords, Claims
  <2>5. IsCatch(f[1])
    BY <1>11, <2>3, <2>4 DEF IsEventGateway
  <2>6. \A t \in todo' : t[2] = f
    BY <1>3, <1>5
  <2>7. IsCatch(winner[1])'
    BY <1>1, <2>1, <2>5 DEF IsCatch, Kind
  <2> QED BY <2>1, <2>6, <2>7
<1>16. HeldUnclaimed'
  <2> SUFFICES ASSUME NEW t \in HeldTokens', NEW g \in Fnis, IsEventGateway(t[2])', Claims(g, t[2])' PROVE FALSE
    BY DEF HeldUnclaimed
  <2>1. (t[2] = f \/ t \in HeldTokens) /\ t[2] \in Fnis
    BY <1>7, <1>t DEF Pending
  <2>2. Claims(g, t[2]) /\ IsEventGateway(t[2])
    BY <1>1, <1>g, <2>1 DEF ClaimsKept
  <2> QED BY <1>6, <2>1, <2>2 DEF Race, HeldUnclaimed
<1>17. SourcesApart'
  <2>1. pc' \in {"race", "dispatch"} => HeldTokens' = HeldTokens /\ todo' = new
    BY <1>5 DEF HeldTokens
  <2> QED BY <1>3, <1>6, <2>1 DEF SourcesApart
<1>18. GatewayFirst'
  <2> SUFFICES ASSUME pc' = "dispatch", NEW t \in todo', NEW g \in Fnis, Claims(g, t[2])' PROVE FALSE
    BY DEF GatewayFirst
  <2>1. t[2] = f
    BY <1>3, <1>5
  <2> QED BY <1>1, <1>6, <2>1 DEF ClaimsKept
<1>19. Decided'
  <2> SUFFICES ASSUME NEW x \in Fnis, NEW y \in Fnis, NEW e \in Fnis, x # y,
                      Claims(x, e)', Claims(y, e)', IsEventGateway(e)', GoesOn(x)'
               PROVE  ~GoesOn(y)' /\ BeatenBy(x, y)'
    BY DEF Decided
  <2>1. Claims(x, e) /\ Claims(y, e) /\ IsEventGateway(e)
    BY <1>1, <1>g DEF ClaimsKept
  <2>2. CASE x = f
    <3>1. ~GoesOn(y)'
      BY <1>9, <1>10, <2>1, <2>2
    <3>2. CASE LiveRivals(f) # {}
      BY <1>5, <1>11, <2>1, <2>2, <3>1, <3>2 DEF BeatenBy
    <3>3. CASE LiveRivals(f) = {}
      <4>1. IsCatch(x[1]) /\ IsCatch(y[1])
        BY <2>1, BehindIsCatch DEF Race, FlowsOnly
      <4>2. e \in rows[x].prev /\ e \in rows[y].prev
        BY <2>1, <4>1, CatchNames DEF Race
      <4>3. y \in Rivals(f)
        BY <2>1, <2>2, <4>2 DEF Rivals, IsEventGateway
      <4>4. ~Live(mem'[y])
        BY <1>4, <2>2, <3>3, <4>3 DEF LiveRivals
      <4> QED BY <3>1, <4>4 DEF BeatenBy
    <3> QED BY <3>1, <3>2, <3>3
  <2>3. CASE x # f
    <3>1. GoesOn(x) /\ y # f
      BY <1>9, <1>10, <2>1, <2>3
    <3>2. ~GoesOn(y) /\ BeatenBy(x, y)
      BY <2>1, <3>1 DEF Race, Decided
    <3> QED BY <1>4, <1>9, <3>1, <3>2 DEF BeatenBy
  <2> QED BY <2>2, <2>3
<1> QED BY <1>5, <1>12, <1>13, <1>14, <1>15, <1>16, <1>17, <1>18, <1>19 DEF Race

\* The rivals that were not cancelled are stamped before its tokens go on.
LEMMA RaceStamp ==
    ASSUME Typed, Race, StampRivals
    PROVE  Race'
<1>1. /\ pc = "race" /\ UNCHANGED <<rows, gpa, task, mem, diagram>>
      /\ losers' = losers \cup LiveRivals(winner)
      /\ \A g \in LiveRivals(winner) : mem[g] = "active"
  BY DEF StampRivals, dbVars
<1>2. /\ \/ todo' = todo /\ held' = held /\ pc' \in {"evaluate", "dispatch"}
         \/ todo' = {} /\ held' = <<todo>> /\ pc' = "evaluate"
  BY DEF StampRivals, DispatchOrHold
<1>3. ClaimsKept /\ CarriedKept /\ GoneStays
  BY <1>1 DEF ClaimsKept, Claims, CarriedKept, Carried, GoneStays, Gone
<1>4. Pending' \subseteq Pending
  BY <1>2 DEF Pending, HeldTokens
<1>5. winner \in Fnis /\ IsCatch(winner[1]) /\ ~IsEventGateway(winner) /\ \A t \in todo : t[2] = winner
  BY <1>1 DEF Race, WinnerIsCatch, IsCatch, IsEventGateway
<1>6. BeatenStays
  <2> SUFFICES ASSUME NEW x \in Fnis, NEW y \in Fnis, NEW e \in Fnis, x # y, Claims(x, e), Claims(y, e),
                      IsEventGateway(e), BeatenBy(x, y)
               PROVE  BeatenBy(x, y)'
    BY DEF BeatenStays
  <2>1. CASE ~Live(mem[y]) \/ (y \in losers /\ mem[y] = "active")
    BY <1>1, <2>1 DEF BeatenBy
  <2>2. CASE x = winner /\ Live(mem[y])
    <3>1. IsCatch(x[1]) /\ IsCatch(y[1])
      BY BehindIsCatch DEF Race, FlowsOnly
    <3>2. e \in rows[x].prev /\ e \in rows[y].prev
      BY <3>1, CatchNames DEF Race
    <3>3. y \in LiveRivals(winner)
      BY <2>2, <3>2 DEF LiveRivals, Rivals, IsEventGateway
    <3> QED BY <1>1, <3>3 DEF BeatenBy
  <2> QED BY <1>1, <2>1, <2>2 DEF BeatenBy
<1>7. /\ FlowsOnly' /\ CatchesCarryNone' /\ NamedEnded' /\ Decided'
      /\ \A e : (IsEventGateway(e)' <=> IsEventGateway(e)) /\ (IsCatch(e)' <=> IsCatch(e))
  BY <1>1, <1>2, <1>3, <1>4, <1>6, RaceStands
<1>t. HeldTokens \subseteq Pending /\ Pending \subseteq Tokens /\ (\A t \in Tokens : t[2] \in Fnis)
  BY PendingTokens, NoTokens DEF Pending
<1>8. \A t \in HeldTokens' : t \in HeldTokens \/ t[2] = winner
  BY <1>2, <1>5 DEF HeldTokens
<1>9. HeldUnclaimed'
  <2> SUFFICES ASSUME NEW t \in HeldTokens', NEW g \in Fnis, IsEventGateway(t[2])', Claims(g, t[2])' PROVE FALSE
    BY DEF HeldUnclaimed
  <2>1. IsEventGateway(t[2]) /\ t \in HeldTokens /\ t[2] \in Fnis
    BY <1>5, <1>7, <1>8, <1>t
  <2> QED BY <1>3, <2>1 DEF Race, HeldUnclaimed, ClaimsKept
<1>10. SourcesApart' /\ WinnerIsCatch' /\ pc' # "down"
  BY <1>1, <1>2 DEF Race, SourcesApart, WinnerIsCatch, HeldTokens
<1>11. GatewayFirst'
  <2> SUFFICES ASSUME pc' = "dispatch", NEW t \in todo', IsEventGateway(t[2])' PROVE FALSE
    BY DEF GatewayFirst
  <2> QED BY <1>2, <1>5, <1>7
<1> QED BY <1>7, <1>9, <1>10, <1>11 DEF Race

\* A stamped loser reports: the tokens held are dispatched together.
LEMMA RaceLoser ==
    ASSUME Typed, Race, NEW f \in Fnis, HandleLoser(f)
    PROVE  Race'
<1>1. FniMoves(f)
  BY PiMovesOne
<1>2. /\ pc = "idle" /\ pc' \in {"evaluate", "dispatch"} /\ UNCHANGED <<winner, losers>>
      /\ mem' = [mem EXCEPT ![f] = "interrupted"]
      /\ \/ UNCHANGED <<todo, held>> /\ pc' = "evaluate"
         \/ held # <<>> /\ todo' = held[1] /\ held' = <<>>
  BY DEF HandleLoser
<1>3. ~Live(mem'[f])
  BY <1>2 DEF Typed, MemTyped, Live
<1>4. CASE UNCHANGED <<todo, held>> /\ pc' = "evaluate"
  BY <1>1, <1>2, <1>3, <1>4, RaceFni
<1>5. CASE held # <<>> /\ todo' = held[1] /\ held' = <<>>
  <2>1. Pending' \subseteq Pending /\ HeldTokens' = {} /\ todo' \subseteq HeldTokens
    BY <1>5 DEF Pending, HeldTokens
  <2>2. BeatenStays
    BY <1>1, <1>2, <1>3, BeatenKept DEF FniMoves
  <2>3. /\ FlowsOnly' /\ CatchesCarryNone' /\ NamedEnded' /\ Decided'
        /\ \A e : (IsEventGateway(e)' <=> IsEventGateway(e)) /\ (IsCatch(e)' <=> IsCatch(e))
    BY <1>1, <1>2, <2>1, <2>2, GoneByFni, RaceStands DEF FniMoves
  <2>4. HeldUnclaimed' /\ SourcesApart' /\ WinnerIsCatch' /\ pc' # "down"
    BY <1>2, <2>1 DEF HeldUnclaimed, SourcesApart, WinnerIsCatch
  <2>5. GatewayFirst'
    <3> SUFFICES ASSUME NEW t \in todo', NEW g \in Fnis, IsEventGateway(t[2])', Claims(g, t[2])' PROVE FALSE
      BY DEF GatewayFirst
    <3>1. t \in HeldTokens /\ t[2] \in Fnis
      BY <2>1, PendingTokens, NoTokens
    <3>2. IsEventGateway(t[2]) /\ Claims(g, t[2])
      BY <1>1, <2>3, <3>1 DEF FniMoves, ClaimsKept
    <3> QED BY <3>1, <3>2 DEF Race, HeldUnclaimed
  <2> QED BY <2>3, <2>4, <2>5 DEF Race
<1> QED BY <1>2, <1>4, <1>5

-----------------------------------------------------------------------------
(* The tokens.                                                             *)

\* A token is consumed by an FNI that starts, or by a join.
LEMMA RaceConsumed ==
    ASSUME Typed, Once, Race, NEW token \in todo, NEW f \in Fnis, f[1] = token[1][2], pc = "dispatch",
           \A g, s \in Fnis : Claims(g, s)' => Claims(g, s) \/ (g = f /\ s = token[2]),
           \A g, s \in Fnis : Named(g, s)' => Named(g, s) \/ s = token[2],
           \A g \in Fnis, t \in Tokens : Carried(g, t)' => Carried(g, t) \/ (g = f /\ ~IsCatch(f[1])),
           IsCatch(f[1]) => ~GoesOn(f) /\ \A s \in Fnis : Claims(f, s)' => s = token[2],
           \A g \in Fnis \ {f} : mem'[g] = mem[g],
           GoneStays, todo' = todo \ {token}, UNCHANGED <<held, losers, diagram>>, pc' \in {"dispatch", "evaluate"}
    PROVE  Race'
<1>1. /\ token \in Pending /\ token \in Tokens /\ token[2] \in Fnis /\ token[1] \in diagram.flows
      /\ token[1] = <<token[2][1], f[1]>>
  <2>1. token \in Pending /\ token \in Tokens /\ token[2] \in Fnis
    BY PendingTokens, NoTokens DEF Pending
  <2>2. token[1] \in diagram.flows /\ token[1][1] = token[2][1]
    BY <2>1 DEF Race, FlowsOnly, Once, OwnTokens
  <2>3. token[1] = <<token[1][1], token[1][2]>>
    BY <2>2, FlowsOfDiagram DEF Typed, StateTyped
  <2> QED BY <2>1, <2>2, <2>3
<1>2. Pending' \subseteq Pending /\ HeldTokens' = HeldTokens
  BY DEF Pending, HeldTokens
<1>3. \A x \in Fnis : GoesOn(x)' => GoesOn(x)
  BY <1>1, <1>2 DEF GoesOn
<1>k. \A n : Kind(n)' = Kind(n)
  BY DEF Kind
<1>g. \A e : (IsEventGateway(e)' <=> IsEventGateway(e)) /\ (IsCatch(e)' <=> IsCatch(e))
  BY <1>k DEF IsEventGateway, IsCatch
<1>t. HeldTokens \subseteq Pending /\ Pending \subseteq Tokens /\ (\A t \in Tokens : t[2] \in Fnis)
  BY PendingTokens, NoTokens DEF Pending
<1>4. /\ \A t \in Pending' : t[1] \in diagram.flows
      /\ \A g, s \in Fnis : Claims(g, s)' => <<s[1], g[1]>> \in diagram.flows
  BY <1>1, <1>2 DEF Race, FlowsOnly
<1>5. FlowsOnly' /\ CatchesCarryNone'
  BY <1>4, <1>g DEF FlowsOnly, Race, CatchesCarryNone
<1>6. NamedEnded'
  BY <1>1 DEF Race, NamedEnded, GoneStays, Once, GoneSources
<1>7. WinnerIsCatch' /\ SourcesApart' /\ pc' # "down"
  BY <1>2 DEF WinnerIsCatch, Race, SourcesApart
<1>8. HeldUnclaimed'
  <2> SUFFICES ASSUME NEW t \in HeldTokens, NEW g \in Fnis, IsEventGateway(t[2])', Claims(g, t[2])' PROVE FALSE
    BY <1>2 DEF HeldUnclaimed
  <2>1. t[2] \in Fnis /\ t[2] # token[2] /\ IsEventGateway(t[2])
    BY <1>g, <1>t DEF Race, SourcesApart
  <2> QED BY <2>1 DEF Race, HeldUnclaimed
<1>9. ASSUME NEW x \in Fnis, NEW e \in Fnis, Claims(x, e)', IsEventGateway(e) PROVE IsCatch(x[1])
  BY <1>4, <1>9, BehindIsCatch DEF Race
<1>10. GatewayFirst'
  <2> SUFFICES ASSUME NEW t \in todo', NEW g \in Fnis, IsEventGateway(t[2])', Claims(g, t[2])' PROVE ~GoesOn(g)'
    BY DEF GatewayFirst
  <2>1. t \in todo /\ t[2] \in Fnis /\ IsEventGateway(t[2])
    BY <1>g, <1>t DEF Pending
  <2>2. CASE Claims(g, t[2])
    BY <1>3, <2>1, <2>2 DEF Race, GatewayFirst
  <2>3. CASE g = f
    BY <1>3, <1>9, <2>1, <2>3
  <2> QED BY <2>1, <2>2, <2>3
<1>11. Decided'
  <2> SUFFICES ASSUME NEW x \in Fnis, NEW y \in Fnis, NEW e \in Fnis, x # y,
                      Claims(x, e)', Claims(y, e)', IsEventGateway(e)', GoesOn(x)'
               PROVE  ~GoesOn(y)' /\ BeatenBy(x, y)'
    BY DEF Decided
  <2>1. IsEventGateway(e) /\ GoesOn(x) /\ IsCatch(x[1]) /\ IsCatch(y[1])
    BY <1>3, <1>9, <1>g
  <2>2. x # f /\ Claims(x, e)
    BY <2>1
  <2>3. y # f
    <3> SUFFICES ASSUME y = f PROVE FALSE
      OBVIOUS
    <3>1. e = token[2]
      BY <2>1
    <3> QED BY <2>1, <2>2, <3>1 DEF Race, GatewayFirst
  <2>4. ~GoesOn(y) /\ BeatenBy(x, y)
    BY <2>1, <2>2, <2>3 DEF Race, Decided
  <2> QED BY <1>3, <2>3, <2>4 DEF BeatenBy
<1> QED BY <1>5, <1>6, <1>7, <1>8, <1>10, <1>11 DEF Race

\* A token is dispatched.
LEMMA RaceDispatch ==
    ASSUME Typed, Quiet, Once, Race, NEW token \in todo, Dispatch(token)
    PROVE  Race'
<1>1. token \in Tokens /\ token[2] \in Fnis /\ token[1][2] \in AllNodes
  BY TargetIsNode, NoTokens DEF Typed, TodoTyped
<1>2. /\ pc = "dispatch" /\ pc' \in {"dispatch", "evaluate"} /\ todo' = todo \ {token}
      /\ UNCHANGED <<winner, losers, held, gpa, diagram>>
  BY DEF Dispatch, Consume, ebgVars
<1>3. CASE StartNew(token)
  <2>1. PICK f \in Fnis :
              /\ f[1] = token[1][2] /\ mem[f] = "none"
              /\ rows'[f].state = "active" /\ rows'[f].prev = {token[2]} /\ mem'[f] = "active"
              /\ task'[f].step = "enter" /\ task'[f].mail = <<>> /\ task'[f].acc \subseteq {token}
              /\ task'[f].acc # {} => IsJoin(f[1])
              /\ \A g \in Fnis \ {f} : rows'[g] = rows[g] /\ mem'[g] = mem[g] /\ task'[g] = task[g]
              /\ routing' = routing \/ routing' = [routing EXCEPT ![f[1]] = [fni |-> f, arrived |-> {token[1]}]]
    BY <1>1, <1>3, StartMoves
  <2>2. rows[f].state = "none"
    BY <1>2, <2>1 DEF Quiet, KnowsRows, IsUp
  <2>3. \A t \in Tokens : <<f, t>> \notin gpa
    BY <2>2 DEF Quiet, ArrivalsHaveRows
  <2>4. \A t \in Tokens : Carried(f, t)' => t = token /\ IsJoin(f[1])
    <3>1. DOMAIN task'[f].mail = {}
      BY <2>1
    <3> QED BY <1>2, <2>1, <2>3, <3>1 DEF Carried
  <2>5. \A g \in Fnis \ {f}, t \in Tokens : Carried(g, t)' => Carried(g, t)
    BY <1>2, <2>1 DEF Carried
  <2>6. \A s \in Fnis : Claims(f, s)' \/ Named(f, s)' => s = token[2]
    BY <2>1, <2>4 DEF Claims, Named
  <2>7. \A g \in Fnis \ {f}, s \in Fnis : (Claims(g, s)' => Claims(g, s)) /\ (Named(g, s)' => Named(g, s))
    BY <2>1, <2>5 DEF Claims, Named
  <2>8. IsJoin(f[1]) => ~IsCatch(f[1])
    BY DEF IsJoin, IsGateway, IsCatch
  <2>9. ~GoesOn(f)
    <3>1. ~Gone(f)
      BY <2>2 DEF Gone
    <3> QED BY <1>2, <3>1 DEF GoesOn, Race, NamedEnded, Once, GoneSources
  <2>10. GoneStays
    BY <2>1, <2>2 DEF GoneStays, Gone
  <2>11. \A g \in Fnis, t \in Tokens : Carried(g, t)' => Carried(g, t) \/ (g = f /\ ~IsCatch(f[1]))
    BY <2>4, <2>5, <2>8
  <2>12. \A g, s \in Fnis : Claims(g, s)' => Claims(g, s) \/ (g = f /\ s = token[2])
    BY <2>6, <2>7
  <2>13. \A g, s \in Fnis : Named(g, s)' => Named(g, s) \/ s = token[2]
    BY <2>6, <2>7
  <2> QED BY <1>2, <2>1, <2>6, <2>9, <2>10, <2>11, <2>12, <2>13, RaceConsumed
<1>4. CASE RouteToJoin(token)
  <2>1. PICK f \in Fnis :
              /\ f = routing[token[1][2]].fni
              /\ \A g \in Fnis, t \in Tokens : (Carried(g, t)' /\ gpa' = gpa) => Carried(g, t) \/ (g = f /\ t = token)
              /\ UNCHANGED <<rows, mem>>
    BY <1>1, <1>4, RouteMoves
  <2>2. f[1] = token[1][2]
    BY <1>1, <2>1, NoTokens DEF Once, RoutesOwn
  <2>3. ~IsCatch(f[1])
    BY <1>4, <2>2 DEF RouteToJoin, IsJoin, IsGateway, IsCatch
  <2>4. \A g, s \in Fnis : Claims(g, s)' => Claims(g, s) \/ (g = f /\ s = token[2])
    BY <1>2, <2>1 DEF Claims
  <2>5. \A g, s \in Fnis : Named(g, s)' => Named(g, s) \/ s = token[2]
    BY <1>2, <2>1 DEF Named
  <2>6. GoneStays
    BY <2>1 DEF GoneStays, Gone
  <2> QED BY <1>2, <2>1, <2>2, <2>3, <2>4, <2>5, <2>6, RaceConsumed
<1>5. CASE StartFails(token)
  <2>1. PICK f \in NewFnis(token[1][2]) : mem' = [mem EXCEPT ![f] = "fatal"] /\ UNCHANGED <<rows, task, routing>>
    BY <1>5 DEF StartFails
  <2>2. \A g \in Fnis : mem'[g] = mem[g] \/ ~Live(mem'[g])
    BY <2>1 DEF Typed, MemTyped, Live
  <2>3. GoneStays /\ ClaimsKept /\ CarriedKept
    BY <1>2, <2>1, <2>2 DEF GoneStays, Gone, ClaimsKept, Claims, CarriedKept, Carried
  <2>4. BeatenStays
    BY <1>2, <2>2, BeatenKept
  <2>5. Pending' \subseteq Pending /\ HeldTokens' \subseteq HeldTokens
    BY <1>2 DEF Pending, HeldTokens
  <2> QED BY <1>2, <2>3, <2>4, <2>5, RaceKept
<1>6. CASE DuplicateArrival(token)
  <2>1. PICK f \in Fnis : FniMoves(f)
    BY <1>6, PiMovesOne
  <2>2. \A g \in Fnis : mem'[g] = mem[g] \/ ~Live(mem'[g])
    BY <1>6 DEF DuplicateArrival, Typed, MemTyped, Live
  <2> QED BY <1>2, <2>1, <2>2, RaceFni
<1> QED BY <1>3, <1>4, <1>5, <1>6 DEF Dispatch

-----------------------------------------------------------------------------
(* Every step.                                                             *)

\* The end of a message decides nothing.
LEMMA RaceEvaluate ==
    ASSUME Typed, Race, Evaluate
    PROVE  Race'
<1>1. UNCHANGED <<rows, gpa, diagram>>
  BY EvaluateMoves
<1>2. CASE Stop /\ pc' = "ended"
  BY <1>1, <1>2, RaceStop
<1>3. CASE /\ CarriedKept /\ ClaimsKept /\ pc' \in {"cascade", "idle"}
           /\ UNCHANGED <<mem, todo, winner, losers, held>>
  <2>1. GoneStays /\ Pending' \subseteq Pending /\ HeldTokens' \subseteq HeldTokens
    BY <1>1, <1>3 DEF GoneStays, Gone, Pending, HeldTokens
  <2>2. pc = "evaluate"
    BY DEF Evaluate
  <2>3. BeatenStays
    BY <1>3, <2>2, BeatenKept
  <2> QED BY <1>1, <1>3, <2>1, <2>3, RaceKept
<1> QED BY <1>2, <1>3, EvaluateMoves

\* While the engine has not stopped, no step breaks it.
LEMMA RaceStep == Typed /\ Quiet /\ Once /\ (crashes = 0 => Race) /\ [Next]_vars => (crashes = 0 => Race)'
<1> SUFFICES ASSUME Typed, Quiet, Once, crashes = 0 => Race, [Next]_vars, crashes' = 0 PROVE Race'
  OBVIOUS
<1>0. crashes \in Nat
  BY DEF Typed, CountsTyped
<1>1. ASSUME crashes' = crashes PROVE Race
  BY <1>1
<1>2. ASSUME UNCHANGED <<rows, gpa, task, mem, todo, winner, losers, held, diagram, crashes>>,
             pc' = pc \/ pc' \notin {"race", "dispatch", "down"}, pc = "race" => pc' = "race"
      PROVE  Race'
  <2>1. ClaimsKept /\ CarriedKept /\ GoneStays /\ Pending' \subseteq Pending /\ HeldTokens' \subseteq HeldTokens
    BY <1>2 DEF ClaimsKept, Claims, CarriedKept, Carried, GoneStays, Gone, Pending, HeldTokens
  <2>2. BeatenStays
    BY <1>2, BeatenKept
  <2>3. Race /\ pc' # "down"
    BY <1>1, <1>2 DEF Race
  <2> QED BY <1>2, <2>1, <2>2, <2>3, RaceKept
<1>3. CASE UNCHANGED vars
  BY <1>2, <1>3 DEF vars, dbVars, ebgVars
<1>4. CASE \E f \in Fnis : HandlerStep(f) \/ Trigger(f) \/ Fail(f)
  <2>1. PICK f \in Fnis : HandlerMoves(f)
    BY <1>4, HandlerMovesOwn
  <2> QED BY <1>1, <2>1, RaceHandler DEF HandlerMoves
<1>5. CASE \E f \in Fnis : HandleAsync(f) \/ HandleError(f)
  <2>1. PICK f \in Fnis : HandleAsync(f) \/ HandleError(f)
    BY <1>5
  <2>2. FniMoves(f)
    BY <2>1, PiMovesOne
  <2>3. /\ UNCHANGED <<winner, losers, held, todo>> /\ pc = "idle" /\ f \notin losers
        /\ pc' \notin {"race", "dispatch", "down"}
    BY <2>1 DEF HandleAsync, HandleError, ebgVars
  <2> QED BY <1>1, <2>2, <2>3, RaceFni DEF FniMoves
<1>6. CASE \E f \in Fnis : HandleOk(f)
  BY <1>1, <1>6, RaceOk DEF HandleOk
<1>7. CASE \E f \in Fnis : HandleLoser(f)
  BY <1>1, <1>7, RaceLoser DEF HandleLoser
<1>8. CASE CancelRival
  <2>1. PICK f \in Fnis : FniMoves(f)
    BY <1>8, PiMovesOne
  <2>2. UNCHANGED <<winner, losers, held, todo>> /\ pc = "race" /\ pc' = "race"
    BY <1>8 DEF CancelRival, ebgVars
  <2>3. \A g \in Fnis : mem'[g] = mem[g] \/ ~Live(mem'[g])
    BY <1>8 DEF CancelRival, Typed, MemTyped, Live
  <2> QED BY <1>1, <2>1, <2>2, <2>3, RaceFni DEF FniMoves
<1>9. CASE StampRivals
  BY <1>1, <1>9, RaceStamp DEF StampRivals
<1>10. CASE \E token \in todo : Dispatch(token)
  BY <1>1, <1>10, RaceDispatch DEF Dispatch
<1>11. CASE (Interrupt \/ Cascade) /\ \E g \in Fnis : Live(mem[g])
  <2>1. PICK f \in Fnis : FniMoves(f)
    BY <1>11, PiMovesOne
  <2>2. UNCHANGED <<winner, losers, held, todo>> /\ pc \in {"interrupt", "cascade"} /\ pc' = pc
    BY <1>11 DEF Interrupt, Cascade, ebgVars
  <2>3. PICK h \in Fnis, s \in {"interrupted", "fatal"} :
          /\ rows' = End(h, s)
          /\ mem' = [mem EXCEPT ![h] = rows'[h].state] \/ mem' = [mem EXCEPT ![h] = "fatal"]
    BY <1>11 DEF Interrupt, Cascade
  <2>4. ~Live(rows'[h].state)
    BY <2>3, EndMoves DEF States, Live
  <2>5. \A g \in Fnis : mem'[g] = mem[g] \/ ~Live(mem'[g])
    BY <2>3, <2>4 DEF Typed, MemTyped, Live
  <2> QED BY <1>1, <2>1, <2>2, <2>5, RaceFni DEF FniMoves
<1>12. CASE Interrupt /\ ~\E g \in Fnis : Live(mem[g])
  BY <1>2, <1>12 DEF Interrupt, ebgVars
<1>13. CASE Cascade /\ ~\E g \in Fnis : Live(mem[g])
  BY <1>1, <1>13, RaceStop DEF Cascade
<1>14. CASE TransitionToFatal
  BY <1>2, <1>14 DEF TransitionToFatal, ebgVars
<1>15. CASE Evaluate
  BY <1>1, <1>15, EvaluateMoves, RaceEvaluate
<1>16. CASE Crash
  BY <1>0, <1>16 DEF Crash
<1>17. CASE CleanUp \/ Resume
  BY <1>1, <1>17 DEF CleanUp, Resume, Race
<1> QED BY <1>3, <1>4, <1>5, <1>6, <1>7, <1>8, <1>9, <1>10, <1>11, <1>12, <1>13, <1>14, <1>15, <1>16, <1>17
        DEF Next, InstanceStep

\* On every diagram, and with any number of FNIs and failures: without a crash only
\* one of the catch events behind an event-based gateway goes on, however many were
\* triggered before the PI handled the first. (cancel_siblings, maybe_hold_ebg_dispatch,
\* handle_stamped_ebg_loser)
THEOREM OneWinner == Spec => []OneBranchGoesOn
<1>1. Typed /\ (crashes = 0 => Race) => OneBranchGoesOn
  <2> SUFFICES ASSUME Typed, Race, NEW f \in Fnis, Consumed(f) # {}, NEW g \in Rivals(f), Consumed(g) # {}
               PROVE  FALSE
    BY DEF OneBranchGoesOn
  <2>1. ASSUME NEW x \in Fnis, Consumed(x) # {} PROVE GoesOn(x)
    <3>1. PICK flow \in Out(x[1]) :
            \/ \E y \in Fnis : y[1] = flow[2] /\
                (x \in rows[y].prev \/ <<flow, x>> \in task[y].acc
                    \/ \E i \in DOMAIN task[y].mail : task[y].mail[i] = <<flow, x>>)
            \/ \E i \in DOMAIN held : <<flow, x>> \in held[i]
      BY <2>1 DEF Consumed
    <3>2. <<flow, x>> \in Tokens /\ <<flow, x>>[2] = x
      <4>1. flow \in AllFlows
        BY FlowsOfDiagram DEF Out, Typed, StateTyped
      <4> QED BY <4>1 DEF Tokens
    <3>3. ASSUME NEW i \in DOMAIN held, <<flow, x>> \in held[i] PROVE GoesOn(x)
      <4>1. held # <<>> /\ i = 1
        BY <3>3 DEF Typed, HeldTyped
      <4> QED BY <3>2, <3>3, <4>1 DEF GoesOn, Pending, HeldTokens
    <3>4. ASSUME NEW y \in Fnis, x \in rows[y].prev \/ <<flow, x>> \in task[y].acc
                                 \/ \E i \in DOMAIN task[y].mail : task[y].mail[i] = <<flow, x>>
          PROVE  GoesOn(x)
      BY <3>2, <3>4 DEF GoesOn, Named, Carried
    <3> QED BY <3>1, <3>3, <3>4
  <2>2. g \in Fnis /\ g # f
    BY DEF Rivals
  <2>3. PICK e \in rows[f].prev \cap rows[g].prev : IsEventGateway(e)
    BY DEF Rivals, IsEventGateway
  <2>4. e \in Fnis /\ Claims(f, e) /\ Claims(g, e)
    BY <2>3 DEF Typed, RowsTyped, RowRecords, Claims
  <2> QED BY <2>1, <2>2, <2>3, <2>4 DEF Race, Decided
<1>2. Init => (crashes = 0 => Race)
  BY RaceInit
<1> QED BY <1>1, <1>2, TypedInit, TypedStep, QuietInit, QuietStep, OnceInit, OnceStep, RaceStep, PTL DEF Spec
=============================================================================
