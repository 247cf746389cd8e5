----------------------------- MODULE MCStartup -----------------------------
(* Instances of Startup for TLC. *)
EXTENDS Startup, FiniteSetsExt

\* Options that are set together: two groups, each with all four modes or a part of them.
Group1 == {"wrap", "socket_local", "socket_target", "pid", "auth_user", "auth_pass", "alert_window"}
Group2 == {"wrap", "proxy", "tls_cert", "tls_key", "alert_webhook", "log_level"}

\* Up to two options of a group, each with one of the values.
UpToTwo(group, values) ==
  UNION {[set -> values] : set \in kSubset(0, group) \union kSubset(1, group) \union kSubset(2, group)}

Filled(setting) == [o \in Options |-> IF o \in DOMAIN setting THEN setting[o] ELSE 0]

Started(version, setting, fileState, fileSetting) ==
  [version |-> version, explicit |-> DOMAIN setting, flags |-> Filled(setting),
   fileState |-> fileState, file |-> Filled(fileSetting)]

NoSetting == [o \in {} |-> 0]

MCStarts ==
  UNION {
    {Started(FALSE, setting, "good", fileSetting) :
       setting \in UpToTwo(group, {0, 1}), fileSetting \in UpToTwo(group, {2, -1})}
    \union {Started(version, setting, fileState, NoSetting) :
       version \in BOOLEAN, setting \in UpToTwo(group, {0, 1}),
       fileState \in {"none", "unreadable", "malformed"}}
    : group \in {Group1, Group2}}

\* A file and no flags.
FileOnly == {Started(FALSE, NoSetting, "good", setting) : setting \in UpToTwo(Group1, {2})}
=============================================================================
