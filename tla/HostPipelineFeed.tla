-------------------------- MODULE HostPipelineFeed --------------------------
(* The three threads of the host implement the feed of HostFeed: the queue *)
(* is the frame with the send thread, the channel, and the frame with the  *)
(* capture thread.                                                         *)
EXTENDS HostPipeline

Feed == INSTANCE HostFeed WITH
          QueueCap  <- FRAME_CHANNEL_CAP + 2,
          requested <- force_full_next,
          base      <- IF capture = "ready" THEN prev_checksums ELSE None,
          extent    <- IF capture = "ready" /\ prev_checksums # None THEN Size(screen) ELSE None,
          seq       <- frame_seq,
          queue     <- InFlight

\* Every behaviour of the pipeline is one of the feed: whatever the three threads
\* interleave, frames are encoded against the frame before and reach each client
\* in order, each at most once (host/src/main.rs 206-413).
ImplementsFeed == Feed!FeedSpec
=============================================================================
