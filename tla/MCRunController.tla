-------------------------- MODULE MCRunController --------------------------
(* RunController with the building of the core: three profiles, any two of which differ in
   what the user is told or in what only the digest shows, and the folders of an earlier
   version that end in different refusals, or in none. *)
EXTENDS RunSetup

Profile(configuration, digest) == [configuration |-> configuration, digest |-> digest]
MCProfiles == {Profile("ai", "one"), Profile("ai", "two"), Profile("off", "one")}
MCFolders ==
  {Missing, Folder("older", "ai", None, {}), Folder("older", None, None, {OlderRow}),
   Folder("current", "ai", None, {OlderRow})}

=============================================================================
