------------------------------ MODULE MCSessions ------------------------------
(* Sessions, with configurations that differ in where a setting comes from.  *)
EXTENDS Sessions

CONSTANTS
    Typo,    \* a number of rewrites that is none
    Null     \* null in a file: named, without a value

Unset == [provider |-> None, cap |-> None]

\* A file alone; a useless environment variable in front of a good local file; 0 in
\* the local file in front of the file; null in the local file in front of the file, for
\* the rewrites and for the provider, which is then one that nobody knows.
MCConf ==
    {[env |-> Unset, local |-> Unset, file |-> [provider |-> "test", cap |-> 1]],
     [env |-> [provider |-> "test", cap |-> Typo], local |-> [provider |-> None, cap |-> 2],
      file |-> Unset],
     [env |-> Unset, local |-> [provider |-> None, cap |-> 0],
      file |-> [provider |-> "test", cap |-> -1]],
     [env |-> Unset, local |-> [provider |-> None, cap |-> Null],
      file |-> [provider |-> "test", cap |-> 1]],
     [env |-> Unset, local |-> [provider |-> Null, cap |-> None],
      file |-> [provider |-> "test", cap |-> 1]]}
=============================================================================
