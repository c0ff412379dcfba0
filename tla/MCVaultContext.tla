--------------------------- MODULE MCVaultContext ---------------------------
EXTENDS VaultContext

CONSTANTS a1, a2, wv, wi

\* One thread owns the Vault; the other, with VESFlow.start() among its calls, and
\* the hooks use it while it is open or closed.
SafeCalls == {"uri", "subVault", "unlock"}
OwnerCalls == {<<a1, c>> : c \in SafeCalls \cup {"start", "close"}}
UserCalls  == {<<a2, c>> : c \in SafeCalls}
HookCalls  == Watcher \X {"uri"}
WithFlow == OwnerCalls \cup UserCalls \cup HookCalls \cup {<<a2, "startFlow">>}
=============================================================================
