---------------------------- MODULE MessagesProofs -----------------------------
(***************************************************************************)
(* Machine-checked proofs about Messages, beside any number of tenant      *)
(* operations: PostingInvariant is inductive, so the numbers of a channel  *)
(* have no gap and what a post is told is so.                              *)
(***************************************************************************)
EXTENDS TenancyProofs, Posting, FiniteSetTheorems

\* A post that lost its identifier begins its second transaction.
Restarts(t) == StartOver(t, "post_lookup")

\* Every step of messages.rs ends its transaction, proceeds or starts over.
LEMMA MessageKinds ==
    ASSUME Shaped, NEW t \in Tx, MessagesStep(t)
    PROVE  Over(t) \/ Proceeds(t) \/ Restarts(t)
<1>1. ASSUME NEW r, Rollback(t, r) \/ End(t, r)
      PROVE  Over(t)
    BY <1>1 DEF Rollback, Over
<1>2. ASSUME pc[t] # "done", NEW p, NEW m \in Modes, NEW rows, Start(t, p, m, rows),
             UNCHANGED loc
      PROVE  Proceeds(t)
    BY <1>2, StartProceeds DEF Shaped
<1>3. CASE CountMessage(t)
    BY <1>1, <1>2, <1>3, ModeFacts DEF CountMessage, At
<1>4. CASE InsertMessage(t)
    <2>1. CASE Rollback(t, "Database")
        BY <1>1, <2>1
    <2>2. CASE /\ loc' = [loc EXCEPT ![t] = Counted(next_message_seq[call[t].channel] + 1)]
               /\ Start(t, "post_insert", Update, {MessageKey(call[t].id)})
        <3>1. DOMAIN loc' = Tx /\ \A u \in Tx \ {t} : loc'[u] = loc[u]
            BY <2>2 DEF Shaped
        <3> QED
            BY <1>4, <2>2, <3>1, StartProceeds, ModeFacts DEF InsertMessage, At
    <2> QED
        BY <1>4, <2>1, <2>2 DEF InsertMessage
<1>5. CASE ConflictOrInsert(t)
    BY <1>1, <1>2, <1>5, ModeFacts DEF ConflictOrInsert, At, Restarts
<1>6. CASE LockSender(t)
    BY <1>2, <1>6, ModeFacts DEF LockSender, At
<1>7. CASE CommitMessage(t)
    BY <1>1, <1>7 DEF CommitMessage
<1>8. CASE LookUpMessage(t)
    BY <1>1, <1>8 DEF LookUpMessage
<1>9. CASE FindChannel(t)
    BY <1>1, <1>2, <1>9, ModeFacts DEF FindChannel
<1>10. CASE ReadRows(t)
    BY <1>1, <1>10 DEF ReadRows
<1> QED
    BY <1>3, <1>4, <1>5, <1>6, <1>7, <1>8, <1>9, <1>10 DEF MessagesStep

\* A step of t, whatever it runs, leaves the others alone and obeys the locks.
LEMMA MessageFrame ==
    ASSUME Shaped, NEW t \in Tx, Kinds(t) \/ Restarts(t) \/ Begin(t) \/ CallMessages(t)
    PROVE  Only(t) /\ Shaped' /\ LockStep(t)
<1>1. Restarts(t) => Drops(t)
    BY DEF Restarts, StartOver, Drops
<1>2. CallMessages(t) => Called(t)
    BY DEF CallMessages, locks, Called
<1> QED
    BY <1>1, <1>2, StepFrame

----------------------------------------------------------------------------
(* The transactions of message operations, and everyone else.              *)

\* No tenant operation is a message operation.
LEMMA MessagesAreOthers ==
    TenantOperations \cap MessageOperations = {}
BY DEF TenantOperations, MessageOperations

\* A post meets of the tenant's steps only a lock, a circle and a lost connection.
LEMMA PostMeets ==
    ASSUME NEW t \in Tx, Step(t) \/ Cancel(t), Posting(t), pc[t] # "lock_actor"
    PROVE  TakeLock(t) \/ DeadlockAbort(t) \/ Cancel(t)
BY TenantMeets, MessagesAreOthers DEF Posting, MessageOperations

\* create_channel makes its channel; nothing else touches channels.
CreatesChannel(t) ==
    /\ call[t].op = "create_channel" /\ pc[t] # "done" /\ Over(t)
    /\ channel' = [channel EXCEPT ![call[t].channel] =
           [org |-> call[t].org, team |-> call[t].team, name |-> call[t].name]]

\* A tenant step leaves the channels alone, or is create_channel's commit.
LEMMA ChannelChange ==
    ASSUME NEW t \in Tx, Step(t) \/ Cancel(t) \/ Begin(t)
    PROVE  UNCHANGED channel \/ CreatesChannel(t)
<1>1. CASE Begin(t) \/ Cancel(t) \/ DeadlockAbort(t) \/ TakeLock(t) \/ LockOrganization(t)
    BY <1>1 DEF Begin, Cancel, DeadlockAbort, TakeLock, LockOrganization, Rollback, Start,
                tables
<1>2. CASE MembershipStep(t)
    BY <1>2 DEF MembershipStep, CreateOrganization, InsertOrganization,
           ChangeMemberRole, WriteMemberRole, SuspendMember, WriteSuspension,
           ReactivateMember, WriteReactivation, Decide, WriteMember, Rollback, Start, tables
<1>3. CASE LeavingStep(t)
    BY <1>3 DEF LeavingStep, LeaveActor, LeaveChecks, LeaveTeams, LeaveAudit,
           LeaveChannels, LeaveCommit, Rollback, Start, tables
<1>4. CASE TeamsStep(t)
    BY <1>4 DEF TeamsStep, CreateTeam, AddTeamMember, InsertTeamMember,
           WriteTeamMembership, ChangeTeamMemberRole, WriteTeamRole, RemoveTeamMember,
           WriteTeamRemoval, WriteTeamMember, Rollback, Start, tables
<1>5. CASE ChannelsStep(t)
    <2>1. CASE CreateChannel(t) \/ AddChannelMember(t) \/ WriteChannelMember(t)
        BY <2>1 DEF CreateChannel, AddChannelMember, WriteChannelMember, Rollback, Start,
                    tables
    <2>2. CASE WriteChannel(t)
        BY <2>2 DEF WriteChannel, Rollback, Commit, Over, CreatesChannel, At, tables
    <2> QED
        BY <1>5, <2>1, <2>2 DEF ChannelsStep
<1> QED
    BY <1>1, <1>2, <1>3, <1>4, <1>5 DEF Step

----------------------------------------------------------------------------
(* What is so of a post, kept by the steps of others and by its own.       *)

\* The parts of the invariant that are about one post.
PostStands(u) ==
    LET c == call[u]
    IN /\ c \in PostingCalls /\ pc[u] \in PostPoints
       /\ pc[u] = "post_count" => Claims(u, ChannelRow(c.channel), NoKeyUpdate)
       /\ pc[u] \in {"post_insert", "post_organization", "post_sender"} =>
              /\ held[u][ChannelRow(c.channel)] >= NoKeyUpdate
              /\ loc[u].seq = next_message_seq[c.channel] + 1
       /\ pc[u] = "post_insert" => Claims(u, MessageKey(c.id), Update)
       /\ pc[u] \in {"post_organization", "post_sender"} =>
              held[u][MessageKey(c.id)] >= Update /\ message[c.id] = NoMessage
       /\ pc[u] = "post_lookup" => message[c.id] # NoMessage
       /\ pc[u] \notin {"begin", "done"} => channel[c.channel].org = c.org

PostsStand == \A u \in Tx : Posting(u) => PostStands(u)

\* The parts of the invariant, post by post.
LEMMA PostsStandParts ==
    PostsStand <=> PostingCourse /\ CountHeld /\ KeyHeld /\ ChannelSeen
BY DEF PostsStand, PostStands, PostingCourse, CountHeld, KeyHeld, ChannelSeen

\* The steps of the specification, transaction by transaction.
Acts(t) ==
    \/ (Begin(t) \/ Step(t) \/ Cancel(t)) /\ UNCHANGED mvars
    \/ CallMessages(t) \/ MessagesStep(t)

\* The arguments of a post.
LEMMA PostFacts ==
    ASSUME NEW t \in Tx, Posting(t), call[t] \in PostingCalls
    PROVE  /\ call[t].by \in Actors /\ call[t].org \in Orgs
           /\ call[t].channel \in Channels /\ call[t].id \in MessageIds
           /\ ChannelRow(call[t].channel) \in Rows /\ MessageKey(call[t].id) \in Rows
<1>1. /\ call[t].by \in Actors /\ call[t].org \in Orgs
      /\ call[t].channel \in Channels /\ call[t].id \in MessageIds
    BY DEF Posting, PostingCalls, MessageOperations
<1> QED
    BY <1>1 DEF Rows

\* Every step leaves the other transactions alone.
LEMMA ActsFrame ==
    ASSUME Shaped, LocksExclude, NEW t \in Tx, Acts(t)
    PROVE  Only(t) /\ Shaped' /\ LocksExclude' /\ (UNCHANGED channel \/ CreatesChannel(t))
<1>1. Kinds(t) \/ Restarts(t) \/ Begin(t) \/ CallMessages(t)
    BY TenantKinds, MessageKinds DEF Acts, Kinds
<1>2. Only(t) /\ Shaped' /\ LockStep(t)
    BY <1>1, MessageFrame
<1>3. LocksExclude'
    BY <1>2, LocksExcludeStep
<1>4. ASSUME CallMessages(t) \/ MessagesStep(t)
      PROVE  UNCHANGED channel
    BY <1>4 DEF CallMessages, MessagesStep, CountMessage, InsertMessage, ConflictOrInsert,
       LockSender, CommitMessage, LookUpMessage, FindChannel, ReadRows, Rollback, Start,
       StartOver, tables
<1> QED
    BY <1>2, <1>3, <1>4, ChannelChange DEF Acts

\* Messages appear at a commit only.
LEMMA MessagesChange ==
    ASSUME NEW t \in Tx, Acts(t)
    PROVE  UNCHANGED <<message, next_message_seq>> \/ CommitMessage(t)
BY DEF Acts, mvars, CallMessages, MessagesStep, CountMessage, InsertMessage,
       ConflictOrInsert, LockSender, LookUpMessage, FindChannel, ReadRows

\* Where a message is put: the channel's count and the identifier, and nothing else.
LEMMA CommitWrites ==
    ASSUME PostingInvariant, NEW t \in Tx, CommitMessage(t)
    PROVE  /\ PostStands(t) /\ Posting(t) /\ pc[t] = "post_sender"
           /\ message'[call[t].id] = [channel |-> call[t].channel, seq |-> loc[t].seq,
                                      sender |-> call[t].by]
           /\ \A i \in MessageIds \ {call[t].id} : message'[i] = message[i]
           /\ next_message_seq'[call[t].channel] = loc[t].seq
           /\ \A ch \in Channels \ {call[t].channel} :
                  next_message_seq'[ch] = next_message_seq[ch]
<1>1. Posting(t) /\ pc[t] = "post_sender"
    BY DEF CommitMessage, At, Posting
<1>2. PostStands(t)
    BY <1>1, PostsStandParts DEF PostsStand, PostingInvariant
<1>3. call[t].channel \in Channels /\ call[t].id \in MessageIds
    BY <1>1, <1>2, PostFacts DEF PostStands
<1>4. DOMAIN message = MessageIds /\ DOMAIN next_message_seq = Channels
    BY DEF PostingInvariant, MessagesShaped
<1>5. /\ message' = [message EXCEPT ![call[t].id] =
             [channel |-> call[t].channel, seq |-> loc[t].seq, sender |-> call[t].by]]
      /\ next_message_seq' = [next_message_seq EXCEPT ![call[t].channel] = loc[t].seq]
    BY DEF CommitMessage
<1>6. /\ message'[call[t].id] = [channel |-> call[t].channel, seq |-> loc[t].seq,
                                 sender |-> call[t].by]
      /\ \A i \in MessageIds \ {call[t].id} : message'[i] = message[i]
    BY <1>3, <1>4, <1>5
<1>7. /\ next_message_seq'[call[t].channel] = loc[t].seq
      /\ \A ch \in Channels \ {call[t].channel} :
             next_message_seq'[ch] = next_message_seq[ch]
    BY <1>3, <1>4, <1>5
<1> QED
    BY <1>1, <1>2, <1>6, <1>7

\* A message that was stored is one.
LEMMA StoredIsMessage ==
    ASSUME NEW ch \in Channels, NEW n, NEW a
    PROVE  [channel |-> ch, seq |-> n, sender |-> a] # NoMessage
BY IdentifiersAssumption DEF NoMessage

\* The step of another transaction leaves a post's facts standing.
LEMMA StandsForOthers ==
    ASSUME PostingInvariant, NEW t \in Tx, NEW u \in Tx, t # u, Acts(t),
           Posting(u)
    PROVE  PostStands(u)'
<1> DEFINE c == call[u]
<1>1. PostStands(u)
    BY PostsStandParts DEF PostsStand, PostingInvariant
<1>2. /\ c.org \in Orgs /\ c.channel \in Channels /\ c.id \in MessageIds
      /\ ChannelRow(c.channel) \in Rows /\ MessageKey(c.id) \in Rows
    BY <1>1, PostFacts DEF PostStands
<1>3. Shaped /\ LocksExclude /\ ChannelFresh /\ DOMAIN channel = Channels
    BY DEF PostingInvariant
<1>4. Only(t) /\ (UNCHANGED channel \/ CreatesChannel(t))
    BY <1>3, ActsFrame
<1>5. /\ pc'[u] = pc[u] /\ call'[u] = c /\ loc'[u] = loc[u]
      /\ held'[u] = held[u] /\ todo'[u] = todo[u]
    BY <1>4 DEF Only
<1>6. \A r, m : Claims(u, r, m)' <=> Claims(u, r, m)
    BY <1>5 DEF Claims
<1>7. pc[u] \notin {"begin", "done"} => channel'[c.channel].org = c.org
    <2>1. SUFFICES ASSUME pc[u] \notin {"begin", "done"}
                   PROVE  channel'[c.channel].org = c.org
        OBVIOUS
    <2>2. channel[c.channel].org = c.org /\ c.org # 0
        BY <1>1, <1>2, <2>1, IdentifiersAssumption DEF PostStands
    <2>3. CASE CreatesChannel(t)
        <3>1. channel[call[t].channel].org = 0
            BY <1>3, <2>3 DEF CreatesChannel, ChannelFresh
        <3>2. call[t].channel # c.channel
            BY <2>2, <3>1
        <3> QED
            BY <1>2, <1>3, <2>2, <2>3, <3>2 DEF CreatesChannel
    <2> QED
        BY <1>4, <2>2, <2>3
<1>8. CASE UNCHANGED <<message, next_message_seq>>
    <2> HIDE DEF c
    <2> QED
        BY <1>1, <1>5, <1>6, <1>7, <1>8 DEF PostStands, c
<1>9. CASE CommitMessage(t)
    <2> DEFINE d == call[t]
    <2>1. /\ Posting(t) /\ PostStands(t) /\ pc[t] = "post_sender"
          /\ message'[d.id] = [channel |-> d.channel, seq |-> loc[t].seq, sender |-> d.by]
          /\ \A i \in MessageIds \ {d.id} : message'[i] = message[i]
          /\ \A ch \in Channels \ {d.channel} : next_message_seq'[ch] = next_message_seq[ch]
        BY <1>9, CommitWrites
    <2>2. /\ d.channel \in Channels /\ d.id \in MessageIds
          /\ ChannelRow(d.channel) \in Rows /\ MessageKey(d.id) \in Rows
        BY <2>1, PostFacts DEF PostStands
    <2>3. held[t][ChannelRow(d.channel)] >= NoKeyUpdate /\ held[t][MessageKey(d.id)] >= Update
        BY <2>1 DEF PostStands
    <2>4. ASSUME pc[u] \in {"post_insert", "post_organization", "post_sender"}
          PROVE  next_message_seq'[c.channel] = next_message_seq[c.channel]
        <3>1. held[u][ChannelRow(c.channel)] >= NoKeyUpdate
            BY <1>1, <2>4 DEF PostStands
        <3>2. c.channel # d.channel
            BY <1>3, <2>2, <2>3, <3>1, OneWriter
        <3> QED
            BY <1>2, <2>1, <3>2
    <2>5. ASSUME pc[u] \in {"post_organization", "post_sender"}
          PROVE  message'[c.id] = message[c.id]
        <3>1. held[u][MessageKey(c.id)] >= Update
            BY <1>1, <2>5 DEF PostStands
        <3>2. /\ held[u][MessageKey(c.id)] \in 0 .. Update
              /\ held[t][MessageKey(d.id)] \in 0 .. Update
            BY <1>2, <1>3, <2>2 DEF Shaped
        <3>3. c.id # d.id
            BY <1>3, <2>2, <2>3, <3>1, <3>2, OneWriter DEF NoKeyUpdate, Update
        <3> QED
            BY <1>2, <2>1, <3>3
    <2>6. ASSUME message[c.id] # NoMessage
          PROVE  message'[c.id] # NoMessage
        <3>1. message'[d.id] # NoMessage
            BY <2>1, <2>2, StoredIsMessage
        <3> QED
            BY <1>2, <2>1, <2>6, <3>1
    <2> HIDE DEF c, d
    <2> QED
        BY <1>1, <1>5, <1>6, <1>7, <2>4, <2>5, <2>6 DEF PostStands, c
<1> QED
    BY <1>8, <1>9, MessagesChange

\* The steps of a post itself.
LEMMA StandsForItself ==
    ASSUME PostingInvariant, NEW t \in Tx, Acts(t), Posting(t)'
    PROVE  PostStands(t)'
<1>1. Shaped /\ MessagesShaped /\ DOMAIN channel = Channels
    BY DEF PostingInvariant
<1>2. ~Begin(t)
    <2> SUFFICES ASSUME Begin(t) PROVE FALSE
        OBVIOUS
    <2>1. PICK d \in Requests : call' = [call EXCEPT ![t] = d]
        BY DEF Begin
    <2>2. call'[t] \in Calls
        BY <1>1, <2>1, RequestsAssumption DEF Shaped
    <2> QED
        BY <2>2, TenantCalls, MessagesAreOthers DEF Posting, MessageOperations
<1>3. CASE CallMessages(t)
    <2>1. call'[t] \in PostingCalls /\ pc'[t] = "begin"
        BY <1>1, <1>3, PostsAssumption DEF CallMessages, Shaped
    <2> QED
        BY <2>1 DEF PostStands, PostPoints
<1>4. SUFFICES ASSUME ~CallMessages(t), ~Begin(t)
               PROVE  PostStands(t)'
    BY <1>2, <1>3
<1>5. call'[t] = call[t] /\ Posting(t)
    <2>1. Kinds(t) \/ Restarts(t)
        BY <1>1, <1>4, TenantKinds, MessageKinds DEF Acts, Kinds
    <2>2. UNCHANGED call
        BY <2>1 DEF Kinds, Restarts, TakeLock, Over, End, Proceeds, StartOver
    <2> QED
        BY <2>2 DEF Posting
<1> DEFINE c == call[t]
<1>6. PostStands(t)
    BY <1>5, PostsStandParts DEF PostsStand, PostingInvariant
<1>7. /\ c.by \in Actors /\ c.org \in Orgs /\ c.channel \in Channels /\ c.id \in MessageIds
      /\ ChannelRow(c.channel) \in Rows /\ MessageKey(c.id) \in Rows
    BY <1>5, <1>6, PostFacts DEF PostStands
<1>8. c \in PostingCalls /\ pc[t] \in PostPoints
    BY <1>6 DEF PostStands
<1>9. CASE Over(t)
    <2>1. pc'[t] = "done"
        BY <1>1, <1>9 DEF Over, End, Shaped
    <2> HIDE DEF c
    <2> QED
        BY <1>5, <1>8, <2>1 DEF PostStands, PostPoints, c
<1>10. CASE TakeLock(t) /\ UNCHANGED mvars
    <2>1. UNCHANGED <<channel, pc, loc, message, next_message_seq>>
        BY <1>10 DEF TakeLock, tables, mvars
    <2>2. NoKeyUpdate \in Modes /\ Update \in Modes
        BY ModeFacts
    <2>3. Claims(t, ChannelRow(c.channel), NoKeyUpdate)
              => Claims(t, ChannelRow(c.channel), NoKeyUpdate)'
        BY <1>1, <1>5, <1>7, <1>10, <2>2, ClaimsGrow DEF Claims
    <2>4. held[t][ChannelRow(c.channel)] >= NoKeyUpdate
              => held'[t][ChannelRow(c.channel)] >= NoKeyUpdate
        BY <1>1, <1>7, <1>10, <2>2, ClaimsGrow
    <2>5. Claims(t, MessageKey(c.id), Update) => Claims(t, MessageKey(c.id), Update)'
        BY <1>1, <1>5, <1>7, <1>10, <2>2, ClaimsGrow DEF Claims
    <2>6. held[t][MessageKey(c.id)] >= Update => held'[t][MessageKey(c.id)] >= Update
        BY <1>1, <1>7, <1>10, <2>2, ClaimsGrow
    <2> QED
        BY <1>5, <1>6, <2>1, <2>3, <2>4, <2>5, <2>6 DEF PostStands, Claims
<1>11. CASE CountMessage(t) /\ ~Over(t)
    <2>1. /\ SeesChannel(c.by, c.org, c.channel)
          /\ Start(t, "post_count", NoKeyUpdate, {ChannelRow(c.channel)})
        BY <1>11 DEF CountMessage, CountRefusal, Over, Rollback
    <2>2. /\ Claims(t, ChannelRow(c.channel), NoKeyUpdate)' /\ pc'[t] = "post_count"
        BY <1>1, <2>1, StartClaims, ModeFacts
    <2>3. channel'[c.channel].org = c.org
        BY <2>1 DEF SeesChannel, Start, tables
    <2> HIDE DEF c
    <2> QED
        BY <1>5, <1>8, <2>2, <2>3 DEF PostStands, PostPoints, Claims, c
<1>12. CASE InsertMessage(t) /\ ~Over(t)
    <2>1. /\ loc' = [loc EXCEPT ![t] = Counted(next_message_seq[c.channel] + 1)]
          /\ Start(t, "post_insert", Update, {MessageKey(c.id)})
          /\ At(t, "post_count", "post_message") /\ UNCHANGED mvars
        BY <1>12 DEF InsertMessage, Over, Rollback
    <2>2. /\ Claims(t, MessageKey(c.id), Update)' /\ pc'[t] = "post_insert"
          /\ held'[t] = held[t]
        BY <1>1, <2>1, StartClaims, ModeFacts
    <2>3. held[t][ChannelRow(c.channel)] >= NoKeyUpdate
        BY <1>6, <2>1, ClaimReturned DEF PostStands, At
    <2>4. loc'[t].seq = next_message_seq[c.channel] + 1
        <3>1. loc'[t] = Counted(next_message_seq[c.channel] + 1)
            BY <1>1, <2>1 DEF Shaped
        <3> QED
            BY <3>1 DEF Counted
    <2>5. UNCHANGED <<message, next_message_seq, channel>>
        BY <2>1 DEF mvars, Start, tables
    <2>6. channel[c.channel].org = c.org
        BY <1>6, <2>1 DEF PostStands, At
    <2> HIDE DEF c
    <2> QED
        BY <1>5, <1>8, <2>2, <2>3, <2>4, <2>5, <2>6 DEF PostStands, PostPoints, Claims, c
<1>13. CASE ConflictOrInsert(t) /\ ~Over(t)
    <2>1. At(t, "post_insert", "post_message") /\ UNCHANGED mvars
        BY <1>13 DEF ConflictOrInsert
    <2>2. UNCHANGED <<message, next_message_seq>> /\ channel[c.channel].org = c.org
        BY <1>6, <2>1 DEF mvars, PostStands, At
    <2>3. CASE message[c.id] # NoMessage /\ StartOver(t, "post_lookup")
        <3>1. pc'[t] = "post_lookup" /\ UNCHANGED channel
            BY <1>1, <2>3 DEF StartOver, Shaped, tables
        <3> HIDE DEF c
        <3> QED
            BY <1>5, <1>8, <2>2, <2>3, <3>1 DEF PostStands, PostPoints, c
    <2>4. CASE /\ message[c.id] = NoMessage
               /\ Start(t, "post_organization", KeyShare, {OrgRow(c.org)}) /\ UNCHANGED loc
        <3>1. pc'[t] = "post_organization" /\ held'[t] = held[t] /\ UNCHANGED channel
            BY <1>1, <2>4 DEF Start, Shaped, tables
        <3>2. held[t][MessageKey(c.id)] >= Update
            BY <1>6, <2>1, ClaimReturned DEF PostStands, At
        <3>3. held[t][ChannelRow(c.channel)] >= NoKeyUpdate
              /\ loc[t].seq = next_message_seq[c.channel] + 1
            BY <1>6, <2>1 DEF PostStands, At
        <3> HIDE DEF c
        <3> QED
            BY <1>5, <1>8, <2>2, <2>4, <3>1, <3>2, <3>3 DEF PostStands, PostPoints, c
    <2> QED
        BY <1>13, <2>3, <2>4 DEF ConflictOrInsert, Over, Rollback
<1>14. CASE LockSender(t)
    <2>1. /\ At(t, "post_organization", "post_message") /\ UNCHANGED <<loc, mvars>>
          /\ Start(t, "post_sender", KeyShare, {ActorRow(c.by)})
        BY <1>14 DEF LockSender
    <2>2. /\ pc'[t] = "post_sender" /\ held'[t] = held[t]
          /\ UNCHANGED <<channel, message, next_message_seq>>
        BY <1>1, <2>1 DEF Start, Shaped, tables, mvars
    <2> HIDE DEF c
    <2> QED
        BY <1>5, <1>6, <1>8, <2>1, <2>2 DEF PostStands, PostPoints, At, c
<1>15. CASE CommitMessage(t) \/ LookUpMessage(t)
    <2>1. Over(t)
        BY <1>15 DEF CommitMessage, LookUpMessage, Rollback, Over
    <2> QED
        BY <1>9, <2>1
<1>16. ~FindChannel(t) /\ ~ReadRows(t)
    BY <1>5 DEF FindChannel, ReadRows, Readers, Posting
<1>17. CASE (Step(t) \/ Cancel(t)) /\ UNCHANGED mvars
    <2>1. pc[t] # "lock_actor"
        BY <1>8 DEF PostPoints
    <2>2. TakeLock(t) \/ DeadlockAbort(t) \/ Cancel(t)
        BY <1>5, <1>17, <2>1, PostMeets
    <2>3. DeadlockAbort(t) \/ Cancel(t) => Over(t)
        BY DEF DeadlockAbort, Cancel, Rollback, Over
    <2> QED
        BY <1>9, <1>10, <1>17, <2>2, <2>3
<1> QED
    BY <1>4, <1>9, <1>11, <1>12, <1>13, <1>14, <1>15, <1>16, <1>17 DEF Acts, MessagesStep

----------------------------------------------------------------------------
(* The other parts of the invariant.                                       *)

\* No message operation creates a channel.
LEMMA PostsCreateNothing ==
    ASSUME NEW c \in Posts
    PROVE  c.op \in MessageOperations
BY PostsAssumption DEF PostingCalls, MessageOperations

\* New channels are new, and made once.
LEMMA ChannelFreshStep ==
    ASSUME PostingInvariant, NEW t \in Tx, Acts(t)
    PROVE  ChannelFresh'
<1>1. Shaped /\ LocksExclude /\ ChannelFresh /\ DOMAIN channel = Channels
    BY DEF PostingInvariant
<1>2. Only(t) /\ (UNCHANGED channel \/ CreatesChannel(t))
    BY <1>1, ActsFrame
<1>3. CASE Begin(t) \/ CallMessages(t)
    <2>1. UNCHANGED channel
        BY <1>3 DEF Begin, CallMessages, tables
    <2>2. PICK c : /\ call' = [call EXCEPT ![t] = c]
                   /\ c.op = "create_channel" =>
                          /\ channel[c.channel].org = 0
                          /\ \A u \in Tx : call[u].op = c.op => call[u].channel # c.channel
        <3>1. CASE Begin(t)
            BY <3>1 DEF Begin, Fresh
        <3>2. CASE CallMessages(t)
            BY <3>2, PostsCreateNothing DEF CallMessages, MessageOperations
        <3> QED
            BY <1>3, <3>1, <3>2
    <2>3. call'[t] = c /\ \A u \in Tx \ {t} : call'[u] = call[u] /\ pc'[u] = pc[u]
        BY <1>1, <1>2, <2>2 DEF Shaped, Only
    <2> QED
        BY <1>1, <2>1, <2>2, <2>3 DEF ChannelFresh
<1>4. CASE Kinds(t) \/ (Restarts(t) /\ Posting(t))
    <2>1. UNCHANGED call
        BY <1>4 DEF Kinds, Restarts, TakeLock, Over, End, Proceeds, StartOver
    <2>2. ASSUME NEW u \in Tx, call[u].op = "create_channel", pc'[u] # "done"
          PROVE  pc[u] # "done"
        <3>1. CASE u # t
            BY <1>2, <2>2, <3>1 DEF Only
        <3>2. CASE u = t
            <4>1. CASE Over(t)
                BY <1>1, <2>2, <3>2, <4>1 DEF Over, End, Shaped
            <4>2. CASE TakeLock(t) \/ Proceeds(t)
                BY <2>2, <3>2, <4>2 DEF TakeLock, Proceeds
            <4> QED
                BY <1>4, <2>2, <3>2, <4>1, <4>2 DEF Kinds, Posting
        <3> QED
            BY <3>1, <3>2
    <2>3. ASSUME NEW u \in Tx, call[u].op = "create_channel", pc'[u] # "done"
          PROVE  channel'[call[u].channel].org = 0
        <3>1. channel[call[u].channel].org = 0
            BY <1>1, <2>2, <2>3 DEF ChannelFresh
        <3>2. CASE CreatesChannel(t)
            <4>1. u # t
                BY <1>1, <2>3, <3>2 DEF CreatesChannel, Over, End, Shaped
            <4>2. call[u].channel # call[t].channel
                BY <1>1, <2>3, <3>2, <4>1 DEF CreatesChannel, ChannelFresh
            <4>3. channel'[call[u].channel] = channel[call[u].channel]
                BY <3>2, <4>2 DEF CreatesChannel
            <4> QED
                BY <3>1, <4>3
        <3> QED
            BY <1>2, <3>1, <3>2
    <2> QED
        BY <1>1, <2>1, <2>3 DEF ChannelFresh
<1>5. Restarts(t) /\ MessagesStep(t) /\ ~Over(t) /\ ~Proceeds(t) => Posting(t)
    <2> SUFFICES ASSUME Restarts(t), MessagesStep(t), ~Posting(t), ~Over(t), ~Proceeds(t)
                 PROVE  FALSE
        OBVIOUS
    <2>1. FindChannel(t) \/ ReadRows(t)
        BY DEF MessagesStep, CountMessage, InsertMessage, ConflictOrInsert, LockSender,
               CommitMessage, LookUpMessage, At, Posting
    <2>2. Start(t, "read_rows", KeyShare, {}) /\ UNCHANGED loc /\ pc[t] = "begin"
        BY <2>1 DEF FindChannel, ReadRows, Rollback, Over
    <2> QED
        BY <1>1, <2>2, StartProceeds, ModeFacts DEF Shaped
<1> QED
    BY <1>1, <1>3, <1>4, <1>5, TenantKinds, MessageKinds DEF Acts, Kinds

\* A channel keeps its numbers without a gap: the next one is put at the end.
LEMMA NumbersStep ==
    ASSUME PostingInvariant, NEW t \in Tx, CommitMessage(t)
    PROVE  MessagesShaped' /\ NumbersHaveNoGap'
<1> DEFINE c == call[t]
           row == [channel |-> c.channel, seq |-> loc[t].seq, sender |-> c.by]
<1>1. /\ PostStands(t) /\ Posting(t) /\ pc[t] = "post_sender"
      /\ message'[c.id] = row
      /\ \A i \in MessageIds \ {c.id} : message'[i] = message[i]
      /\ next_message_seq'[c.channel] = loc[t].seq
      /\ \A ch \in Channels \ {c.channel} : next_message_seq'[ch] = next_message_seq[ch]
    BY CommitWrites
<1>2. c.by \in Actors /\ c.channel \in Channels /\ c.id \in MessageIds
    BY <1>1, PostFacts DEF PostStands
<1>3. message[c.id] = NoMessage /\ loc[t].seq = next_message_seq[c.channel] + 1
    BY <1>1 DEF PostStands
<1>4. MessagesShaped /\ NumbersHaveNoGap
    BY DEF PostingInvariant
<1>5. next_message_seq[c.channel] \in Nat /\ loc[t].seq \in Nat \ {0}
    BY <1>2, <1>3, <1>4 DEF MessagesShaped
<1>6. MessagesShaped'
    <2>1. row \in MessageRows
        BY <1>2, <1>5 DEF MessageRows
    <2>2. message' = [message EXCEPT ![c.id] = row]
        BY DEF CommitMessage
    <2>3. next_message_seq' = [next_message_seq EXCEPT ![c.channel] = loc[t].seq]
        BY DEF CommitMessage
    <2> HIDE DEF row
    <2>4. message' \in [MessageIds -> MessageRows]
        BY <1>4, <2>1, <2>2 DEF MessagesShaped
    <2>5. next_message_seq' \in [Channels -> Nat]
        BY <1>4, <1>5, <2>3 DEF MessagesShaped
    <2> QED
        BY <2>4, <2>5 DEF MessagesShaped
<1>7. ASSUME NEW ch \in Channels, ch # c.channel
      PROVE  InChannel(ch)' = InChannel(ch) /\ \A i \in InChannel(ch) : message'[i] = message[i]
    <2>1. message[c.id].channel = 0 /\ message'[c.id].channel = c.channel /\ ch # 0
        BY <1>1, <1>2, <1>3, IdentifiersAssumption DEF NoMessage
    <2> QED
        BY <1>1, <1>2, <1>7, <2>1 DEF InChannel
<1>8. ASSUME NEW ch \in Channels, ch = c.channel
      PROVE  InChannel(ch)' = InChannel(ch) \cup {c.id} /\ c.id \notin InChannel(ch)
    <2>1. message[c.id].channel # ch /\ message'[c.id].channel = ch
        BY <1>1, <1>2, <1>3, <1>8, IdentifiersAssumption DEF NoMessage
    <2> HIDE DEF c
    <2> QED
        BY <1>1, <1>2, <2>1 DEF InChannel
<1>9. ASSUME NEW ch \in Channels
      PROVE  /\ {message'[i].seq : i \in InChannel(ch)'} = 1 .. next_message_seq'[ch]
             /\ Cardinality(InChannel(ch)') = next_message_seq'[ch]
    <2>0. /\ {message[i].seq : i \in InChannel(ch)} = 1 .. next_message_seq[ch]
          /\ Cardinality(InChannel(ch)) = next_message_seq[ch]
        BY <1>4 DEF NumbersHaveNoGap
    <2>1. CASE ch # c.channel
        <3>1. {message'[i].seq : i \in InChannel(ch)'} = {message[i].seq : i \in InChannel(ch)}
            BY <1>7, <2>1
        <3>2. next_message_seq'[ch] = next_message_seq[ch] /\ InChannel(ch)' = InChannel(ch)
            BY <1>1, <1>7, <2>1
        <3> QED
            BY <2>0, <3>1, <3>2
    <2>2. CASE ch = c.channel
        <3> DEFINE S == InChannel(ch)
                   n == next_message_seq[ch]
        <3>1. InChannel(ch)' = S \cup {c.id} /\ c.id \notin S
            BY <1>8, <2>2
        <3>2. next_message_seq'[ch] = n + 1 /\ n \in Nat /\ message'[c.id].seq = n + 1
            BY <1>1, <1>3, <1>5, <2>2
        <3>3. \A i \in S : message'[i].seq = message[i].seq
            BY <1>1, <3>1 DEF InChannel
        <3>4. IsFiniteSet(S)
            <4>1. S \subseteq MessageIds
                BY DEF InChannel
            <4> QED
                BY <4>1, MessageIdsAssumption, FS_Subset
        <3>5. Cardinality(S \cup {c.id}) = Cardinality(S) + 1
            BY <3>1, <3>4, FS_AddElement
        <3>6. {message'[i].seq : i \in S \cup {c.id}} = {message[i].seq : i \in S} \cup {n + 1}
            BY <3>2, <3>3
        <3>7. (1 .. n) \cup {n + 1} = 1 .. n + 1
            BY <3>2
        <3> HIDE DEF S, n
        <3>8. {message[i].seq : i \in S} = 1 .. n /\ Cardinality(S) = n
            BY <2>0 DEF S, n
        <3> QED
            BY <3>1, <3>2, <3>5, <3>6, <3>7, <3>8
    <2> QED
        BY <2>1, <2>2
<1> QED
    BY <1>6, <1>9 DEF NumbersHaveNoGap

----------------------------------------------------------------------------
(* The invariant and what follows from it.                                 *)

\* A database numbered from 1 and no transaction begun.
LEMMA PostingInit == MessagesInit => PostingInvariant
<1> SUFFICES ASSUME MessagesInit PROVE PostingInvariant
    OBVIOUS
<1>1. /\ held = [t \in Tx |-> NoLocks] /\ todo = [t \in Tx |-> NoStatement]
      /\ pc = [t \in Tx |-> "idle"] /\ call = [t \in Tx |-> NoCall]
      /\ loc = [t \in Tx |-> NoLocals] /\ result = [t \in Tx |-> "none"]
      /\ \E db \in Initial : channel = db.channel
    BY DEF MessagesInit, StoreInit
<1>2. Shaped
    <2>1. NoLocks \in [Rows -> 0 .. Update] /\ NoStatement.mode \in Modes
        BY ModeFacts DEF NoLocks, NoStatement, Update
    <2> QED
        BY <1>1, <2>1 DEF Shaped
<1>3. LocksExclude
    BY <1>1 DEF LocksExclude, NoLocks, Conflict
<1>4. DOMAIN channel = Channels
    <2>1. PICK db \in Initial : channel = db.channel
        BY <1>1
    <2>2. db \in Databases
        BY InitialAssumption
    <2> QED
        BY <2>1, <2>2 DEF Databases
<1>5. \A t \in Tx : call[t].op = "none"
    BY <1>1 DEF NoCall
<1>6. PostingCourse /\ ChannelFresh /\ CountHeld /\ KeyHeld /\ ChannelSeen
    BY <1>5 DEF PostingCourse, ChannelFresh, CountHeld, KeyHeld, ChannelSeen, Posting
<1>7. /\ message \in [MessageIds -> MessageRows]
      /\ \A ch \in Channels : {message[i].seq : i \in InChannel(ch)}
                                  = 1 .. Cardinality(InChannel(ch))
    BY InitialMessagesAssumption DEF MessagesInit, InChannel
<1>8. \A ch \in Channels : Cardinality(InChannel(ch)) \in Nat
    <2> SUFFICES ASSUME NEW ch \in Channels PROVE Cardinality(InChannel(ch)) \in Nat
        OBVIOUS
    <2>1. InChannel(ch) \subseteq MessageIds
        BY DEF InChannel
    <2>2. IsFiniteSet(InChannel(ch))
        BY <2>1, MessageIdsAssumption, FS_Subset
    <2> QED
        BY <2>2, FS_CardinalityType
<1>9. next_message_seq = [ch \in Channels |-> Cardinality(InChannel(ch))]
    BY DEF MessagesInit
<1>10. MessagesShaped
    BY <1>7, <1>8, <1>9 DEF MessagesShaped
<1>11. NumbersHaveNoGap
    BY <1>7, <1>9 DEF NumbersHaveNoGap
<1> QED
    BY <1>2, <1>3, <1>4, <1>6, <1>10, <1>11 DEF PostingInvariant

\* Every step keeps the invariant.
LEMMA PostingStep ==
    ASSUME PostingInvariant, NEW t \in Tx, Acts(t)
    PROVE  PostingInvariant'
<1>1. Shaped /\ LocksExclude /\ DOMAIN channel = Channels
    BY DEF PostingInvariant
<1>2. Only(t) /\ Shaped' /\ LocksExclude' /\ (UNCHANGED channel \/ CreatesChannel(t))
    BY <1>1, ActsFrame
<1>3. DOMAIN channel' = Channels
    BY <1>1, <1>2 DEF CreatesChannel
<1>4. PostsStand'
    <2> SUFFICES ASSUME NEW u \in Tx, Posting(u)' PROVE PostStands(u)'
        BY DEF PostsStand
    <2>1. CASE u = t
        BY <2>1, StandsForItself
    <2>2. CASE u # t
        <3>1. Posting(u)
            BY <1>2, <2>2 DEF Only, Posting
        <3> QED
            BY <2>2, <3>1, StandsForOthers
    <2> QED
        BY <2>1, <2>2
<1>5. (PostingCourse /\ CountHeld /\ KeyHeld /\ ChannelSeen)'
    BY <1>4, PostsStandParts, PTL
<1>6. ChannelFresh'
    BY ChannelFreshStep
<1>7. MessagesShaped' /\ NumbersHaveNoGap'
    <2>1. CASE UNCHANGED <<message, next_message_seq>>
        BY <2>1 DEF PostingInvariant, MessagesShaped, NumbersHaveNoGap, InChannel
    <2> QED
        BY <2>1, NumbersStep, MessagesChange
<1> QED
    BY <1>2, <1>3, <1>5, <1>6, <1>7 DEF PostingInvariant

\* Steps of the specification are steps of some transaction.
LEMMA NextActs ==
    ASSUME MessagesNext
    PROVE  \E t \in Tx : Acts(t)
BY DEF MessagesNext, Next, Acts

\* The invariant is inductive.
LEMMA PostingInvariantHolds == MessagesSpec => []PostingInvariant
<1>1. PostingInvariant /\ [MessagesNext]_messageVars => PostingInvariant'
    <2> SUFFICES ASSUME PostingInvariant, [MessagesNext]_messageVars
                 PROVE  PostingInvariant'
        OBVIOUS
    <2>1. CASE MessagesNext
        BY <2>1, NextActs, PostingStep
    <2>2. CASE UNCHANGED messageVars
        <3>1. UNCHANGED <<channel, held, todo, pc, call, loc, result, message,
                          next_message_seq>>
            BY <2>2 DEF messageVars, vars, tables, locks, mvars
        <3>2. (Shaped /\ LocksExclude /\ DOMAIN channel = Channels)'
            BY <3>1 DEF PostingInvariant, Shaped, LocksExclude
        <3>3. (MessagesShaped /\ NumbersHaveNoGap)'
            BY <3>1 DEF PostingInvariant, MessagesShaped, NumbersHaveNoGap, InChannel
        <3>4. (PostingCourse /\ ChannelFresh /\ ChannelSeen)'
            BY <3>1 DEF PostingInvariant, PostingCourse, ChannelFresh, ChannelSeen, Posting
        <3>5. (CountHeld /\ KeyHeld)'
            BY <3>1 DEF PostingInvariant, CountHeld, KeyHeld, Posting, Claims
        <3> QED
            BY <3>2, <3>3, <3>4, <3>5 DEF PostingInvariant
    <2> QED
        BY <2>1, <2>2
<1> QED
    BY <1>1, PostingInit, PTL DEF MessagesSpec

(***************************************************************************)
(* invariants.md: within a channel, channel_seq has no gap and no          *)
(* duplicate, for any number of concurrent posts, retries, departures and  *)
(* lost connections: UPDATE channels holds the row to the end.             *)
(***************************************************************************)
THEOREM NoGapInNumbers == MessagesSpec => []NumbersHaveNoGap
<1>1. PostingInvariant => NumbersHaveNoGap
    BY DEF PostingInvariant
<1> QED
    BY <1>1, PostingInvariantHolds, PTL

\* A number that is next is not taken.
LEMMA NextIsFree ==
    ASSUME PostingInvariant, NEW ch \in Channels
    PROVE  ~NumberTaken(ch, next_message_seq[ch] + 1)
<1>1. {message[i].seq : i \in InChannel(ch)} = 1 .. next_message_seq[ch]
      /\ next_message_seq[ch] \in Nat
    BY DEF PostingInvariant, NumbersHaveNoGap, MessagesShaped
<1>2. SUFFICES ASSUME NEW i \in MessageIds, message[i].channel = ch,
                      message[i].seq = next_message_seq[ch] + 1
               PROVE  FALSE
    BY DEF NumberTaken
<1>3. message[i].seq \in 1 .. next_message_seq[ch]
    BY <1>1, <1>2 DEF InChannel
<1> QED
    BY <1>1, <1>2, <1>3

\* What a post is told by a step of its own.
LEMMA ToldTruly ==
    ASSUME PostingInvariant, NEW t \in Tx, Acts(t), Posting(t), result[t] = "none"
    PROVE  LET r == result'[t] IN
           /\ r = "Posted" => Stored(t) /\ message[call[t].id] = NoMessage
           /\ r = "AlreadyPosted" => Stored(t) /\ message[call[t].id] # NoMessage
           /\ r = "IdConflict" => /\ message[call[t].id] # NoMessage
                                  /\ ~Stored(t) \/ ~ActiveSender(t)
           /\ r = "Database" => \/ ~ActiveSender(t)
                                \/ \E S \in SUBSET Tx : t \in S /\ Circle(S)
<1> DEFINE c == call[t]
<1>1. PostStands(t)
    BY PostsStandParts DEF PostsStand, PostingInvariant
<1>2. c.by \in Actors /\ c.org \in Orgs /\ c.channel \in Channels /\ c.id \in MessageIds
    BY <1>1, PostFacts DEF PostStands
<1>3. Shaped
    BY DEF PostingInvariant
<1>4. ASSUME NEW r, End(t, r)
      PROVE  result'[t] = r
    BY <1>3, <1>4 DEF End, Shaped
<1>5. CASE UNCHANGED result
    BY <1>5
<1>6. CASE CountMessage(t)
    <2>1. UNCHANGED result \/ \E r \in {"InvalidBody", "NotFound"} : End(t, r)
        BY <1>6 DEF CountMessage, CountRefusal, Rollback, Start
    <2> QED
        BY <1>4, <1>5, <2>1
<1>7. CASE InsertMessage(t)
    <2>1. UNCHANGED result \/ (~ActiveSender(t) /\ End(t, "Database"))
        BY <1>7 DEF InsertMessage, Rollback, Start
    <2> QED
        BY <1>4, <1>5, <2>1
<1>8. CASE ConflictOrInsert(t)
    <2>1. loc[t].seq = next_message_seq[c.channel] + 1
        BY <1>1, <1>8 DEF ConflictOrInsert, At, PostStands
    <2>2. ~NumberTaken(c.channel, loc[t].seq)
        BY <1>2, <2>1, NextIsFree
    <2>3. UNCHANGED result
        BY <1>8, <2>2 DEF ConflictOrInsert, StartOver, Start
    <2> QED
        BY <1>5, <2>3
<1>9. CASE LockSender(t)
    BY <1>5, <1>9 DEF LockSender, Start
<1>10. CASE CommitMessage(t)
    <2>1. message'[c.id] = [channel |-> c.channel, seq |-> loc[t].seq, sender |-> c.by]
          /\ message[c.id] = NoMessage
        BY <1>10, CommitWrites DEF PostStands
    <2>2. Stored(t)
        BY <2>1 DEF Stored
    <2>3. \E r \in {"Posted", "Cancelled"} : End(t, r)
        BY <1>10 DEF CommitMessage
    <2> QED
        BY <1>4, <2>1, <2>2, <2>3
<1>11. CASE LookUpMessage(t)
    <2> DEFINE found == /\ ActiveSender(t) /\ channel[c.channel].org = c.org
                        /\ message[c.id].channel = c.channel /\ message[c.id].sender = c.by
    <2>1. End(t, IF found THEN "AlreadyPosted" ELSE "IdConflict") /\ UNCHANGED message
        BY <1>11 DEF LookUpMessage, Rollback, mvars
    <2>2. message[c.id] # NoMessage /\ channel[c.channel].org = c.org
        BY <1>1, <1>11 DEF LookUpMessage, At, PostStands
    <2>3. Stored(t) <=> message[c.id].channel = c.channel /\ message[c.id].sender = c.by
        BY <2>1 DEF Stored
    <2>4. result'[t] = IF found THEN "AlreadyPosted" ELSE "IdConflict"
        BY <1>4, <2>1
    <2> QED
        BY <2>2, <2>3, <2>4
<1>12. CASE (Step(t) \/ Cancel(t)) /\ UNCHANGED mvars
    <2>1. pc[t] # "lock_actor"
        BY <1>1 DEF PostStands, PostPoints
    <2>2. TakeLock(t) \/ DeadlockAbort(t) \/ Cancel(t)
        BY <1>12, <2>1, PostMeets
    <2>3. CASE TakeLock(t)
        BY <1>5, <2>3 DEF TakeLock
    <2>4. CASE DeadlockAbort(t)
        <3>1. End(t, "Database") /\ \E S \in SUBSET Tx : t \in S /\ Circle(S)
            BY <2>4 DEF DeadlockAbort, Rollback
        <3> QED
            BY <1>4, <3>1
    <2>5. CASE Cancel(t)
        <3>1. End(t, "Cancelled")
            BY <2>5 DEF Cancel, Rollback
        <3> QED
            BY <1>4, <3>1
    <2> QED
        BY <2>2, <2>3, <2>4, <2>5
<1>13. CASE Begin(t) \/ CallMessages(t)
    BY <1>5, <1>13 DEF Begin, CallMessages
<1>14. ~FindChannel(t) /\ ~ReadRows(t)
    BY DEF FindChannel, ReadRows, Readers, Posting
<1> QED
    BY <1>6, <1>7, <1>8, <1>9, <1>10, <1>11, <1>12, <1>13, <1>14 DEF Acts, MessagesStep

(***************************************************************************)
(* PostMessage of messages.rs: whatever races a post, it is told that it   *)
(* was posted once, that it had been posted only to its own sender, that   *)
(* its identifier is taken only if it is, and fails only in a circle of    *)
(* waits or as a sender who is no longer active.                           *)
(***************************************************************************)
THEOREM PostsToldTruly == MessagesSpec => PostsAreAnsweredTruly
<1> DEFINE Truly ==
        \A t \in Tx :
          call[t].op = "post_message" /\ result[t] = "none" =>
              LET r == result'[t] IN
              /\ r = "Posted" => Stored(t) /\ message[call[t].id] = NoMessage
              /\ r = "AlreadyPosted" => Stored(t) /\ message[call[t].id] # NoMessage
              /\ r = "IdConflict" => /\ message[call[t].id] # NoMessage
                                     /\ ~Stored(t) \/ ~ActiveSender(t)
              /\ r = "Database" => \/ ~ActiveSender(t)
                                   \/ \E S \in SUBSET Tx : t \in S /\ Circle(S)
<1>1. PostingInvariant /\ [MessagesNext]_messageVars => [Truly]_messageVars
    <2> SUFFICES ASSUME PostingInvariant, MessagesNext, NEW u \in Tx,
                        call[u].op = "post_message", result[u] = "none"
                 PROVE  LET r == result'[u] IN
                        /\ r = "Posted" => Stored(u) /\ message[call[u].id] = NoMessage
                        /\ r = "AlreadyPosted" => Stored(u) /\ message[call[u].id] # NoMessage
                        /\ r = "IdConflict" => /\ message[call[u].id] # NoMessage
                                               /\ ~Stored(u) \/ ~ActiveSender(u)
                        /\ r = "Database" => \/ ~ActiveSender(u)
                                             \/ \E S \in SUBSET Tx : u \in S /\ Circle(S)
        OBVIOUS
    <2>1. PICK t \in Tx : Acts(t)
        BY NextActs
    <2>2. CASE u = t
        BY <2>1, <2>2, ToldTruly DEF Posting
    <2>3. CASE u # t
        <3>1. Only(t)
            BY <2>1, ActsFrame DEF PostingInvariant
        <3>2. result'[u] = "none"
            BY <2>3, <3>1 DEF Only
        <3> QED
            BY <3>2
    <2> QED
        BY <2>2, <2>3
<1> QED
    BY <1>1, PostingInvariantHolds, PTL DEF MessagesSpec, PostsAreAnsweredTruly
===============================================================================
