-------------------------------- MODULE Community --------------------------------
(***************************************************************************)
(* Communities, members and posts.  In PostgreSQL a call reads what its     *)
(* guards need and writes in a later statement of its transaction; in       *)
(* memory a handler awaits nothing and no other runs before it ends.        *)
(***************************************************************************)
EXTENDS Integers, Sequences, FiniteSets, SequencesExt

CONSTANTS
    Users,
    Admins,
    Founder,      \* the profile of the in-memory repositories
    Slugs,        \* of communities
    Seeded,       \* the communities that the in-memory repositories start with
    Visible,      \* those of them that are public
    Granted,      \* bound: the roles that calls give
    Created,      \* bound: the rules of new communities
    Changes,      \* bound: the rules that updates bring, None where they bring none
    Callers,
    Backends,
    None,
    MaxMembers,   \* bound: memberships ever created
    MaxPosts      \* bound: posts beside the seeded one

CommunityAssumption ==
    /\ Admins \subseteq Users /\ Founder \in Users /\ None \notin Users
    /\ Visible \subseteq Seeded /\ Seeded \subseteq Slugs /\ Visible # {}
    /\ Granted \subseteq {"member", "moderator", "admin", "owner"}
    /\ Created \subseteq [visibility : {"public", "private"}, approval : BOOLEAN]
    /\ Changes \subseteq [visibility : {None, "public", "private"}, approval : {None} \cup BOOLEAN]
    /\ Backends \subseteq {"postgres", "memory"}
    /\ {MaxMembers, MaxPosts} \subseteq Nat
    /\ "memory" \in Backends => IsFiniteSet(Seeded) /\ Cardinality(Seeded) <= MaxMembers

VARIABLES
    backend,
    communities,   \* by slug
    members,       \* rows of community_members, or the lists of members
    issued,        \* memberships created so far
    posts,
    handling       \* what each request to the API is doing

vars == <<backend, communities, members, issued, posts, handling>>

Roles == {"member", "moderator", "admin", "owner"}
StaffRoles == {"moderator", "admin", "owner"}

Community == [by : Users, visibility : {"public", "private"}, approval : BOOLEAN]
Missing == [by |-> None, visibility |-> "public", approval |-> FALSE]

Member == [id : 1..MaxMembers, community : Slugs, user : Users, role : Roles]
Post == [community : Slugs, by : Users, status : {"pending_review", "approved", "rejected"}]

\* What a call still needs: the slug, the row, the member or the post it writes.
Call == [op : {"none", "found", "update", "join", "role", "leave", "post", "review"}, by : Users \cup {None},
         slug : Slugs \cup {None}, row : Community \cup {Missing}, id : Nat, user : Users \cup {None},
         role : Roles, status : {"pending_review", "approved", "rejected"}]

Quiet == [op |-> "none", by |-> None, slug |-> None, row |-> Missing, id |-> 0, user |-> None,
          role |-> "member", status |-> "pending_review"]

SeededPosts ==
    IF backend = "memory"
    THEN <<[community |-> CHOOSE s \in Visible : TRUE, by |-> Founder, status |-> "approved"]>>
    ELSE <<>>

TypeOK ==
    /\ backend \in Backends
    /\ communities \in [Slugs -> Community \cup {Missing}]
    /\ members \subseteq Member /\ issued \in 0..MaxMembers
    /\ posts \in Seq(Post) /\ Len(posts) <= MaxPosts + Len(SeededPosts)
    /\ handling \in [Callers -> Call]

Init ==
    /\ backend \in Backends
    /\ communities = [s \in Slugs |-> IF backend = "memory" /\ s \in Seeded
                                      THEN [by |-> Founder, approval |-> TRUE,
                                            visibility |-> IF s \in Visible THEN "public" ELSE "private"]
                                      ELSE Missing]
    /\ members = IF backend = "memory"
                  THEN {[id |-> i, community |-> SetToSeq(Seeded)[i], user |-> Founder, role |-> "owner"] :
                           i \in 1..Cardinality(Seeded)}
                  ELSE {}
    /\ issued = Cardinality(members)
    /\ posts = SeededPosts
    /\ handling = [c \in Callers |-> Quiet]

\* In memory, a handler runs to its end before another begins.
Begins(c, call) ==
    /\ handling[c].op = "none"
    /\ backend = "memory" => \A d \in Callers : handling[d].op = "none"
    /\ handling' = [handling EXCEPT ![c] = call]

Ends(c) == handling' = [handling EXCEPT ![c] = Quiet]

-----------------------------------------------------------------------------
(* Communities and members *)

Exists(s) == communities[s] # Missing

RoleOf(s, u) == {m.role : m \in {n \in members : n.community = s /\ n.user = u}}

\* In memory the first membership of a user decides.
FirstRoleOf(s, u) ==
    {m.role : m \in {n \in members : /\ n.community = s /\ n.user = u
                                     /\ \A o \in members : o.community = s /\ o.user = u => n.id <= o.id}}

RolesOf(s, u) == IF backend = "memory" THEN FirstRoleOf(s, u) ELSE RoleOf(s, u)

CanRead(s, u) ==
    u \in Admins \/ communities[s].visibility = "public" \/ communities[s].by = u \/ RolesOf(s, u) # {}

IsStaff(s, u) == u \in Admins \/ communities[s].by = u \/ RolesOf(s, u) \cap StaffRoles # {}

CreateCommunity(c, u, s, rules) ==
    /\ issued < MaxMembers
    /\ Begins(c, [Quiet EXCEPT !.op = "found", !.by = u, !.slug = s,
                                !.row = [by |-> u, visibility |-> rules.visibility, approval |-> rules.approval]])
    /\ UNCHANGED <<backend, communities, members, issued, posts>>

\* The community and the founder's membership are committed together.
WriteCommunity(c) ==
    LET s == handling[c].slug
    IN /\ handling[c].op = "found" /\ issued < MaxMembers
       /\ IF Exists(s)
          THEN UNCHANGED <<communities, members, issued>>
          ELSE /\ communities' = [communities EXCEPT ![s] = handling[c].row]
               /\ issued' = issued + 1
               /\ members' = members \cup {[id |-> issued + 1, community |-> s, user |-> handling[c].by, role |-> "owner"]}
       /\ Ends(c)
       /\ UNCHANGED <<backend, posts>>

\* What the payload does not name keeps the value that was read.
UpdateCommunity(c, u, s, change) ==
    /\ Exists(s) /\ CanRead(s, u) /\ IsStaff(s, u)
    /\ Begins(c, [Quiet EXCEPT !.op = "update", !.slug = s,
           !.row = [by |-> communities[s].by,
                    visibility |-> IF change.visibility = None THEN communities[s].visibility ELSE change.visibility,
                    approval |-> IF change.approval = None THEN communities[s].approval ELSE change.approval]])
    /\ UNCHANGED <<backend, communities, members, issued, posts>>

WriteUpdate(c) ==
    /\ handling[c].op = "update"
    /\ communities' = [communities EXCEPT ![handling[c].slug] = handling[c].row]
    /\ Ends(c)
    /\ UNCHANGED <<backend, members, issued, posts>>

AddMember(c, u, s, user, role) ==
    /\ Exists(s) /\ CanRead(s, u) /\ issued < MaxMembers
    /\ \/ IsStaff(s, u)
       \/ user = u /\ communities[s].visibility = "public"
    /\ Begins(c, [Quiet EXCEPT !.op = "join", !.slug = s, !.user = user, !.role = role])
    /\ UNCHANGED <<backend, communities, members, issued, posts>>

\* The unique constraint; the list in memory has none.
Joined(s, user) == backend = "postgres" /\ \E m \in members : m.community = s /\ m.user = user

InsertMember(c) ==
    LET s == handling[c].slug
    IN /\ handling[c].op = "join" /\ issued < MaxMembers
       /\ IF Joined(s, handling[c].user)
          THEN UNCHANGED <<members, issued>>
          ELSE /\ issued' = issued + 1
               /\ members' = members \cup {[id |-> issued + 1, community |-> s, user |-> handling[c].user,
                                            role |-> handling[c].role]}
       /\ Ends(c)
       /\ UNCHANGED <<backend, communities, posts>>

UpdateMember(c, u, m, role) ==
    /\ Exists(m.community) /\ CanRead(m.community, u) /\ IsStaff(m.community, u)
    /\ Begins(c, [Quiet EXCEPT !.op = "role", !.id = m.id, !.role = role])
    /\ UNCHANGED <<backend, communities, members, issued, posts>>

WriteRole(c) ==
    /\ handling[c].op = "role"
    /\ members' = {IF m.id = handling[c].id THEN [m EXCEPT !.role = handling[c].role] ELSE m : m \in members}
    /\ Ends(c)
    /\ UNCHANGED <<backend, communities, issued, posts>>

DeleteMember(c, u, m) ==
    /\ Exists(m.community) /\ CanRead(m.community, u) /\ IsStaff(m.community, u)
    /\ Begins(c, [Quiet EXCEPT !.op = "leave", !.id = m.id])
    /\ UNCHANGED <<backend, communities, members, issued, posts>>

RemoveMember(c) ==
    /\ handling[c].op = "leave"
    /\ members' = {m \in members : m.id # handling[c].id}
    /\ Ends(c)
    /\ UNCHANGED <<backend, communities, issued, posts>>

-----------------------------------------------------------------------------
(* Posts *)

\* The in-memory posts keep their own copy of the seeded communities.
PostContext(s, u) ==
    IF backend = "memory"
    THEN [found |-> s \in Seeded, read |-> u \in Admins \/ s \in Visible \/ u = Founder,
          approval |-> TRUE, staff |-> u \in Admins \/ u = Founder]
    ELSE [found |-> Exists(s), read |-> CanRead(s, u),
          approval |-> communities[s].approval, staff |-> IsStaff(s, u)]

\* Mutant: a new post takes the status of a market request.
StatusOfRequest(context) == "submitted"

StatusOfPost(context) == IF ~context.approval \/ context.staff THEN "approved" ELSE "pending_review"

CreatePost(c, u, s) ==
    LET context == PostContext(s, u)
    IN /\ Len(posts) < MaxPosts + Len(SeededPosts)
       /\ context.found /\ context.read
       /\ Begins(c, [Quiet EXCEPT !.op = "post", !.by = u, !.slug = s, !.status = StatusOfPost(context)])
       /\ UNCHANGED <<backend, communities, members, issued, posts>>

InsertPost(c) ==
    /\ handling[c].op = "post" /\ Len(posts) < MaxPosts + Len(SeededPosts)
    /\ posts' = Append(posts, [community |-> handling[c].slug, by |-> handling[c].by, status |-> handling[c].status])
    /\ Ends(c)
    /\ UNCHANGED <<backend, communities, members, issued>>

\* By an admin, who need not be one of the users here.
ReviewPost(c, p, approved) ==
    /\ posts[p].status = "pending_review"
    /\ Begins(c, [Quiet EXCEPT !.op = "review", !.id = p, !.status = IF approved THEN "approved" ELSE "rejected"])
    /\ UNCHANGED <<backend, communities, members, issued, posts>>

WriteReview(c) ==
    /\ handling[c].op = "review"
    /\ posts' = [posts EXCEPT ![handling[c].id].status = handling[c].status]
    /\ Ends(c)
    /\ UNCHANGED <<backend, communities, members, issued>>

Next ==
    \/ \E c \in Callers, u \in Users :
        \/ \E s \in Slugs :
            \/ \E rules \in Created : CreateCommunity(c, u, s, rules)
            \/ \E change \in Changes : UpdateCommunity(c, u, s, change)
            \/ \E user \in Users, role \in Granted : AddMember(c, u, s, user, role)
            \/ CreatePost(c, u, s)
        \/ \E m \in members : (\E role \in Granted : UpdateMember(c, u, m, role)) \/ DeleteMember(c, u, m)
    \/ \E c \in Callers :
        \/ WriteCommunity(c) \/ WriteUpdate(c) \/ InsertMember(c)
        \/ WriteRole(c) \/ RemoveMember(c) \/ InsertPost(c) \/ WriteReview(c)
        \/ \E p \in DOMAIN posts, approved \in BOOLEAN : ReviewPost(c, p, approved)
=============================================================================
