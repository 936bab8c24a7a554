-------------------------- MODULE MCRedisPipeline --------------------------
EXTENDS RedisPipeline
=============================================================================
