---------------------------- MODULE MCHelperLoop ----------------------------
EXTENDS HelperLoop

CONSTANTS known, unknown

\* Any mix of requests for a registered and for an unknown service, in the
\* pool and in mapped memory.
AnyRequest == KuRequests

\* The requests whose memory the helper can release: an unknown service is
\* asked for only with memory of the pool.
Releasable == { q \in KuRequests : q.service = unknown => q.mem = "pool" }
=============================================================================
