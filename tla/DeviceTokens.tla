---------------------------- MODULE DeviceTokens ----------------------------
(* The devices an account gets pushes on (notification_service: register,     *)
(* evict, unregister; push_service: prune).                                   *)
(*                                                                            *)
(* A registration reads the row of the token and lists the account's devices, *)
(* then deletes the oldest and inserts; two of them may list the same         *)
(* devices.  A sweep deletes a device FCM has reported dead after having read *)
(* it earlier.                                                                *)
EXTENDS Naturals, SequencesExt

CONSTANTS
    Devices,       \* FCM tokens
    Owners,        \* accounts
    Nobody,        \* the owner of a token that has no row
    Registrations, \* requests and sweeps that may be in progress at once
    MaxDevices     \* NOTIFICATION_MAX_DEVICES_PER_USER

ASSUME OwnerAssumption  == Nobody \notin Owners
ASSUME DeviceAssumption == MaxDevices \in Nat \ {0}

VARIABLES
    owner,    \* the user_id of each device_tokens row
    seenLast, \* the tokens in the order of last_seen_at
    visit,    \* what each request in progress has read
    spared    \* history: tokens that came without a look at the limit: from another
              \* account, or beside another registration

deviceVars == <<owner, seenLast, visit, spared>>

-----------------------------------------------------------------------------
\* listed: the devices of the account, the latest first, as they were read.
Visit == [op : {"idle", "register", "prune"}, token : Devices, user : Owners,
          known : BOOLEAN, listed : Seq(Devices), beside : BOOLEAN]

Idle == [op |-> "idle"]

DeviceTypeOK ==
    /\ owner \in [Devices -> Owners \cup {Nobody}]
    /\ ToSet(seenLast) = {d \in Devices : owner[d] # Nobody} /\ IsInjective(seenLast)
    /\ \A v \in Registrations : visit[v] = Idle \/ visit[v] \in Visit
    /\ spared \subseteq Devices

DeviceInit ==
    /\ owner = [d \in Devices |-> Nobody]
    /\ seenLast = <<>>
    /\ visit = [v \in Registrations |-> Idle]
    /\ spared = {}

-----------------------------------------------------------------------------
DevicesOf(u) == {d \in Devices : owner[d] = u}

\* The tokens of some of the rows, in the same order
Among(tokens, some) ==
    LET left[n \in 0 .. Len(tokens)] ==
          IF n = 0 THEN <<>>
          ELSE IF tokens[n] \in some THEN Append(left[n - 1], tokens[n]) ELSE left[n - 1]
    IN  left[Len(tokens)]

LatestFirst(u) == Reverse(Among(seenLast, DevicesOf(u)))

\* register_device, as far as it reads
ReadDevices(v, d, u) ==
    /\ visit[v] = Idle
    /\ visit' = [visit EXCEPT ![v] =
                   [op |-> "register", token |-> d, user |-> u, known |-> owner[d] # Nobody,
                    listed |-> LatestFirst(u), beside |-> FALSE]]
    /\ UNCHANGED <<owner, seenLast, spared>>

\* A token with a row changes its owner, or is only seen again.
Reassign(v) ==
    LET d == visit[v].token IN
    /\ visit[v].op = "register" /\ visit[v].known
    /\ owner[d] # Nobody
    /\ owner' = [owner EXCEPT ![d] = visit[v].user]
    /\ seenLast' = Append(Among(seenLast, Devices \ {d}), d)
    /\ spared' = IF owner[d] # visit[v].user THEN spared \cup {d} ELSE spared
    /\ visit' = [visit EXCEPT ![v] = Idle]

\* Mutation: the new device is not counted.
EvictedLess(v) == ToSet(SubSeq(visit[v].listed, MaxDevices + 1, Len(visit[v].listed)))

\* _evict_stale_devices with keep = max_devices - 1
Evicted(v) == ToSet(SubSeq(visit[v].listed, MaxDevices, Len(visit[v].listed)))

\* The evicted rows go by their keys, whoever owns them now.  The unique token refuses
\* the second of two inserts.
Insert(v) ==
    LET d == visit[v].token IN
    /\ visit[v].op = "register" /\ ~visit[v].known
    /\ owner[d] = Nobody
    /\ owner' = [e \in Devices |-> IF e = d THEN visit[v].user
                                  ELSE IF e \in Evicted(v) THEN Nobody ELSE owner[e]]
    /\ seenLast' = Append(Among(seenLast, Devices \ Evicted(v)), d)
    /\ spared' = IF visit[v].beside THEN (spared \ Evicted(v)) \cup {d}
                 ELSE spared \ (Evicted(v) \cup {d})
    /\ visit' = [w \in Registrations |->
                   CASE w = v -> Idle
                     [] w # v /\ visit[w] # Idle -> [visit[w] EXCEPT !.beside = TRUE]
                     [] OTHER -> Idle]

\* unregister_device
Unregister(d) ==
    /\ owner[d] # Nobody
    /\ owner' = [owner EXCEPT ![d] = Nobody]
    /\ seenLast' = Among(seenLast, Devices \ {d})
    /\ spared' = spared \ {d}
    /\ UNCHANGED visit

\* tokens_for_users, and the deletion of a dead token when the sweep commits
ReadForPush(v, d) ==
    /\ visit[v] = Idle /\ owner[d] # Nobody
    /\ visit' = [visit EXCEPT ![v] =
                   [op |-> "prune", token |-> d, user |-> owner[d], known |-> TRUE,
                    listed |-> <<>>, beside |-> FALSE]]
    /\ UNCHANGED <<owner, seenLast, spared>>

Prune(v) ==
    /\ visit[v].op = "prune"
    /\ owner' = [owner EXCEPT ![visit[v].token] = Nobody]
    /\ seenLast' = Among(seenLast, Devices \ {visit[v].token})
    /\ spared' = spared \ {visit[v].token}
    /\ visit' = [visit EXCEPT ![v] = Idle]

LeaveVisit(v) ==
    /\ visit[v] # Idle
    /\ visit' = [visit EXCEPT ![v] = Idle]
    /\ UNCHANGED <<owner, seenLast, spared>>

DeviceNext ==
    \/ \E v \in Registrations :
         \/ \E d \in Devices, u \in Owners : ReadDevices(v, d, u)
         \/ \E d \in Devices : ReadForPush(v, d)
         \/ Reassign(v) \/ Insert(v) \/ Prune(v) \/ LeaveVisit(v)
    \/ \E d \in Devices : Unregister(d)

DeviceSpec == DeviceInit /\ [][DeviceNext]_deviceVars

-----------------------------------------------------------------------------
\* register_device: "a single account can't grow the device table without bound": an
\* account has no more devices than the limit, not counting those it took over from
\* another account or registered beside another registration.
DeviceLimit == \A u \in Owners : Cardinality(DevicesOf(u) \ spared) <= MaxDevices

=============================================================================
